# A formal model of BDO Optimizer Launcher

BDO Optimizer Launcher is a Windows desktop program (Rust, Tauri, a React page)
that stays in the tray beside the game Black Desert and changes the game
process's priority class and CPU affinity: by hand, by schedule, and by whether
the game's window is hidden.  It also schedules PC shutdowns, shows a resource
monitor with an FPS counter, starts itself at logon and updates itself.

This directory holds TLA+ modules translated from that code, TLC configurations
that model-check them on small instances, and proofs for the TLA+ proof system
(TLAPS) that hold for every value of the constants.  All paths below are relative
to the repository.

* [1. The system](#1-the-system): its parts, their state, how they interact
* [2. The modules](#2-the-modules): what is modelled, and how it maps to the code
* [3. The runs](#3-the-runs): what TLC is asked, the bounds, the fairness
* [4. The proofs](#4-the-proofs): what is proved, and along which argument
* [5. What the code does otherwise than it says](#5-what-the-code-does-otherwise-than-it-says)
* [6. Known limits](#6-known-limits) and [7. What is not modelled](#7-what-is-not-modelled)
* [8. Plan](#8-plan)

Run everything from this directory: `tlc -config ModeSafety.cfg MCModeControl.tla`
for a run (`PROJECT.json` names the module of each `.cfg`), `tlapm
ModeControlProofs.tla` for a proof.

## 1. The system

One process.  Its threads are the main thread (window, tray menu, synchronous
commands of the page), the runtime's pool of blocking threads (asynchronous
commands), the automation worker (a loop around a 5-second sleep), one short-lived
thread per successful mode request (it repeats the request), and two one-shot
threads at start (the readiness watchdog and the repair of the autostart task).
The callback of the page's first load runs beside the set-up of the main thread
(`STARTUP_VISIBILITY_SYNC` guards against that order).
What they share are process-wide statics, each with its own lock, and two JSON
files.  The page is a second program: it sends commands, receives answers in any
order, and keeps generations to drop answers that came too late.

| Component | Code | State it keeps | Operations | Hard behaviour | What makes it correct |
|---|---|---|---|---|---|
| Mode requests | `src/tauri_commands.rs`, `src/backend/process.rs` | `MODE_REQUEST_LOCK`, `APPLY_LOCK`, `REAPPLY_GENERATION`, reapply threads; in Windows: priority class and affinity of the game | `apply_mode`, tray mode items, `schedule_reapply` (five repetitions), apply with rollback | three kinds of thread put the same game in different modes; each request is two system calls that may fail; the game exits, restarts or resets itself between any two calls | an older request never undoes a newer one; both attributes belong to one mode; the mode called for is reached |
| Automation | `src/tauri_lifecycle.rs` | `AutomationState`: presence and visibility at the last tick, a mode to restore, the active rule and the mode before it | `automation_mode_action` every 5 seconds | decides from memory of earlier ticks, settings, rules and the observed mode; its memory dies with the process | hide/show and rule begin/end restore what was there; a decision never overrides a newer choice of the user |
| Process lookup | `src/backend/process.rs` | `PROCESS_LOOKUP_CACHE`: a pid, or a failed scan less than a second old | `find_process_id`, `find_process_id_fresh` | a cached pid outlives its process; a cached miss hides a new one | whoever acts on a pid acts on the game |
| FPS trace | `src/backend/fps.rs`, `src/tauri_commands.rs` | `MONITOR_RUNTIME`, `START_CLAIM_GENERATION`, `SessionOwner`; in Windows: one trace per machine, by name | `get_monitor_snapshot`, `stop_monitor_session`, start, drop | starting is slow and done outside the lock; starts, stops and polls overtake each other; a killed process leaves its trace running | the trace sampled is the one that lives, none is orphaned, it follows the game |
| In-app update | `src/backend/update.rs`, `src/tauri_commands.rs`, `web/src/main.jsx` | `PendingUpdateState` (update and check generation), the version last announced (settings), the page's offer | `check_for_updates`, `check_update_alert`, `install_update` | checks and installs overlap; network order; failed installs; a restart in the middle | what is installed is the newest found; what is offered can be installed; a version is announced once |
| Settings and schedule files | `src/backend/settings.rs`, `src/backend/schedule.rs`, `src/backend/mod.rs` | two JSON files, a write lock each, a fixed temporary file name each | load, save, `atomic_write`, `backup_broken` | loaders hold no lock; a broken file is renamed by whoever finds it; exits at any instruction | no save lost, torn or half visible |
| Schedule rules | `src/backend/schedule.rs` | the rules in `schedules.json` | `active_rule_at`, `next_id`, add, delete, toggle | spans over midnight, overlaps, priorities, ids reused | the rule in force is the one the user would name |
| Shutdown tasks | `src/backend/shutdown.rs`, tray | two tasks in Windows' scheduler | register and verify, query with the next weekly run, cancel one, cancel both | state lives outside the program and changes between query and command | a reported next run is in the future and on a chosen day |
| Autostart task | `src/backend/autostart.rs` | one task in Windows' scheduler, `AUTOSTART_OPERATION_LOCK` | register, verify with cleanup, remove, repair of the old form at start | `set_setting` reads the present form outside the lock while the repair runs | what is registered is what the user last chose |
| Game launcher | `src/backend/launcher.rs` | `LAUNCH_IN_PROGRESS`; in Windows: a suspended child, locked files | claim, choice of a candidate, verification under locks, suspended start, comparison, resume or termination | two clicks; candidates rejected one by one; files that change between the check and the start; any call fails; the program ends in the middle | one launch at a time and the flag given back; nothing runs that was not approved; a suspended child does not stay behind; the answer is true |
| Window and tray | `src/tauri_lifecycle.rs`, `src/backend/window.rs`, `src/backend/tray.rs` | `MAIN_WEBVIEW_READY`, `quitting`, tray label and mode marks, the window itself | set-up with or without a tray, page load, show, hide, toggle, close to tray, quit, watchdog | page load and tray set-up in either order; labels are copies of state elsewhere; the tray may fail; another start shows the window from outside | label agrees with window; a program that runs is reachable; one whose page never loads ends |
| Single instance | `src/backend/singleton.rs` | a named mutex | acquire, or show the first instance's window | two starts at once; first instance without a window yet, or just ending | one instance; who starts the program gets to see it |
| CPU detection | `src/backend/process.rs` | a cached description of the processor | masks for the three modes, detection of the current mode | masks that coincide, no efficiency cores, one core | masks non-empty and within the processor |
| Page | `web/src/main.jsx` | generations per command domain, pending button, the tab | commands, timers | answers out of order | see update and FPS |
| Resource sampling, logging, rights | `src/backend/monitor.rs`, `system_info.rs`, `logging.rs`, `admin.rs` | the previous sample | reads | none of interest | - |

How they interact: every mode request looks the game up (process lookup), a
user's request asks the schedule rules whether one is in force and saves the
choice to the settings file, and the worker reads the settings file, the rules,
the window and the game's attributes before it calls the same request code.  The
update alert and every settings command share the settings file's write lock.
The monitor tab asks the process lookup which game to trace.

## 2. The modules

| Module | Models | Lines of code it stands for |
|---|---|---|
| `ModePolicy` | `automation_mode_action` as a function | `tauri_lifecycle.rs` 70-190 |
| `ModeControl` | everything that sets the game's mode, with game, user, clock, faults and restarts | `tauri_commands.rs` mode commands, `process.rs` lookup and apply, the worker |
| `CpuAffinity` | the description of the processor, the masks of the modes and the mode read back, as functions | `process.rs` 61-315, 427-471 |
| `ModeOnCpu` | `ModeControl` on the masks of real processors | `process.rs` 86-165 |
| `GameMode` | abstract: a register holding the mode of the last request | - |
| `FpsSession` | the life of the system-wide FPS trace | `fps.rs`, monitor part of `tauri_commands.rs`, the tab's effects |
| `UpdateFlow` | checks, alerts, installs, the page's offer and button | `update.rs`, update commands, `main.jsx` |
| `ConfigStore` | load, change, save of one JSON file by concurrent commands | `settings.rs`, `schedule.rs` (file part), `mod.rs` |
| `DurableRecord` | abstract: a record changed one field at a time | - |
| `ScheduleRules` | rules, the one in force, the three commands, the clock | `schedule.rs` |
| `WeeklyRun` | the next run of the weekly shutdown as a function | `shutdown.rs` 270-336 |
| `OsTasks` | the three tasks in Windows' scheduler, their commands, the repair of the start | `autostart.rs`, `shutdown.rs`, task commands of `tauri_commands.rs` and of the tray |
| `WindowLife` | starts of the program, the mutex, window, tray label, close and quit, watchdog | `main.rs`, `singleton.rs`, `tauri_lifecycle.rs` 20-80 and 190-605 |
| `GameLaunch` | the launch command: claim, candidates, verified start | `launcher.rs`, launch part of `tauri_commands.rs` |
| `Program` | window and launch command together | - |
| `MC...` | small instances for TLC | - |
| `ModeControlProofs`, `ConfigStoreProofs`, `ScheduleProofs`, `OsTasksProofs`, `ModeOnCpuProofs`, `FpsSessionProofs`, `UpdateFlowProofs`, `ProgramProofs` | theorems and proofs | - |

`PROJECT.json` ("map") gives the exact lines behind every definition.  Definitions
whose comment begins with *Fault:* are deliberate defects: they are not used by
the specifications, and replacing the definition that follows by one of them must
make a run fail.  They show that each property depends on the code it is about.

**Composition.** `ModeControl` EXTENDS `ModePolicy`: the worker's action
`WorkerDecide` calls `Decide` on what it remembers and sees, and the request it
makes runs through the same actions as a user's.  `ModeOnCpu` EXTENDS `ModeControl` and
gives a mode of either attribute its meaning by `CpuAffinity`.  It is an implementation of
`GameMode` (`RegisterSpec`), as `ConfigStore` is of `DurableRecord`
(`RecordSpec`).  Two places use what another module shows instead of repeating
it: a save of the settings in `ModeControl` and a command on the rules in
`ScheduleRules` are one step, which is what `RecordSpec` allows; and the active
rule of `ModeControl` changes at any time to any mode, which includes every
sequence `ScheduleRules` can produce (`HoldsToItsEnd` says what those look like).
`Program` EXTENDS `WindowLife` and `GameLaunch`: a command needs the page of a
window, and the end of a program, by exit or kill, is the end of its commands in
the same step.  What the two do otherwise is interleaved.

### ModeControl: state and actions

`cs` is the critical section under `MODE_REQUEST_LOCK`: who holds it and how far
it is (`decide`, `find`, `priority`, `affinity`, `commit`).  One action is one
call to the operating system or to a file, so everything else can happen between
two of them.

| Action | Code |
|---|---|
| `DeferRequest`, `BeginRequest` | `prepare_mode_request`: with a rule active the choice is only saved, otherwise a generation is taken |
| `WorkerBegin`, `WorkerDecide` | `run_auto_low_power_tick` inside `run_serialized_mode_decision` |
| `ReapplyWakes`, `ReapplyGivesUp` | the loop of `schedule_reapply`; `Attempts` stands for the five delays |
| `FindGame` | the fresh lookup of `apply_mode_impl_locked` |
| `SetPriority`, `PriorityRefused`, `SetAffinity`, `AffinityRefused`, `RollbackRefused`, `TargetGone` | `apply_priority_affinity` and its rollback, on a handle whose process may be gone |
| `Commit` | `persist_last_user_mode` and the start of the reapply thread |
| `LookupExpires`, `RefreshStatus` | the one-second negative cache, the page's poll |
| `ChangeSetting`, `RuleChanges`, `Game...`, `WindowChanges`, `GameResets`, `Restart` | environment |

A mode stands for its pair of priority class and affinity mask; `priority` and
`affinity` record which mode each of the two attributes came from.  `latest` is a
history variable: the mode of the last request that took a generation.  Reapply
threads are records in a set: two of them never share a generation until a
restart, which also kills them.

### The other components

`FpsSession`: `runtime`, `claims` and `owner` are the three pieces of shared
state with their own locks, a poll is a record that moves through `observed`,
`dropping`, `starting`, `publishing`, one step per lock section; `trace` is the
pid the machine's trace belongs to and survives a crash.  `UpdateFlow`: a check
moves through `sent`, `fetching`, `fetched`, `alerting`, `saving`, `answered`; a
release is its number; the page applies an answer only if its ticket is the last
one.  `ConfigStore`: the content of a file is how often each command changed its
field, so a lost update is a count that is too low; a file whose write was cut
short is `broken`.  `ScheduleRules`: `JudgedDay` is the day whose kind decides,
yesterday once a night has passed midnight; `InForce` is the head of the sorted
list, stated as the greatest rule.

`OsTasks`: `tasks` is the scheduler's store, outside the program.  A thread's
`job` is its next call to the scheduler: `register`, `verify`, `delete` and
`confirm` for the autostart task (the stages of `with_operation_lock` and of what
it encloses), `create` and `check` for a shutdown, `exists` and `delete` for
taking either away, `form` and `ask` for what `set_setting` reads before it takes
the lock, `answer` for the list of tasks a command returns.  Every call may fail,
and `TaskExists` and `QueryAutostart` say what the caller makes of it.  `changed`
and `meddled` are history variables: whether somebody else touched the task since
the command was given or the repair began, and whether the program looked after
that.  Only the path checks of the executable are not followed: `protected` is
their verdict.

`WindowLife`: each start of the program is a record.  `phase` follows the main
thread: `start` (before the mutex), `focus` (a second start that looks for the
window) or `build`, `tray`, `manage`, `query`, `label` (the steps of `setup`), then
`loop`.  The page's callback (`PageLoads`, `PageActs`) and `WatchdogWakes` run
beside it.  `Show` and `Hide` are `show_main_window` and `hide_main_window`: each of
their calls may be refused, and the label is set only after the last.  `handles`
is the mutex, which lives as long as any start has a handle of it.  `unlabelled` is
a history variable: whose window was shown from outside, or by a `show` whose
`set_focus` was refused.

`GameLaunch`: a command moves through `claim`, `choose`, `search`, `verify`,
`create`, `resume`; the two threads of interest are two commands and whoever
writes files (`FileChanges`).  `Locked` is what `lock_launcher_path` holds.
`Create` may start another file than the one asked for, as Windows can be set up
to do, and `Matches` is the comparison that finds it out.  `rest` are the candidates
not yet tried, all found to exist before the first was tried.  The content of a
path stands for what the signature check and the check of the path's links would
say of it.

## 3. The runs

Passing runs:

| Run | Asks | Bounds and why they are enough |
|---|---|---|
| `ModeSafety` | `TypeOK`, `LastRequestWins`, `DecisionNotStale`, `Coherent`, `MasksFit`, `CoresAsPromised`, `ReadBackAgrees`, refinement of `GameMode` | two game processes (a pid can be stale), two wake-ups per reapply thread (a thread sleeps through a newer request and wakes again), two faults (a refused call and a refused rollback), one restart, three moves of user, clock and game. `Resets = {}` so that `Coherent` has a meaning. Machines of all sequences of up to four cores of two speeds with one or two threads each, their processors numbered core by core or the first threads of all cores before the second ones, and any part of the detection may fail |
| `ModeConverges` | `Converges` | resets, one refused call, one restart, two game processes; automation switched on and off by the user |
| `ModeRestored` | `RestoredWhenShown`, `RuleDoesNotLinger`, `DefaultApplied` | five moves of window, rule, user and game in any order; the settings are automatic low power without a default mode, or a default mode without it, and stay as they are; the user may ask for one mode beside the worker; no fault, reset or restart (see known limits) |
| `FpsSafety` | `SampledSessionLives`, `LiveTraceIsHeld` | two polls in flight (the page keeps one; a reload gives two), two games, two visits to the tab, a failed start, a crash. Polls are interchangeable: symmetry |
| `FpsFollows` | `FollowsGame` | the page's one poll; no symmetry, as it is a liveness property |
| `UpdateFlow` | `NeverOlder`, `OfferedIsPending`, `AlertOnce`, `ButtonsComeBack` | two checks in flight, three releases of which one may not be downloaded, four commands, one fault, one restart, alerts switched once |
| `ConfigStore` | `TmpIsOwn`, refinement of `DurableRecord` | two saving commands and a reader without the lock, three saves per field, two faults, an exit, a file that is absent, broken or good at first |
| `Schedule` | `CoveredExactly`, `OneInForce`, `HoldsToItsEnd` | a week and two days of three minutes each: every pair of start and end, every kind on every day of the week, both midnights into and out of the weekend; two rules for overlaps and reuse of an id |
| `Program` | `TypeOK`, `OneInstance`, `LabelAgrees`, `Reachable`, `OnlyApprovedRuns`, `OneLaunch`, `ChildIsAccountedFor`, `NoPageNoProgram`, `StartIsSeen`, `ClaimComesBack` | two starts alive at once, two commands, a launcher beside the program and one on a drive, either of which the user may have named; one refused call or kill. Four sets of bounds: four things done at the window; one start and two commands; one command while files change twice; two things at the window and a command, so that one program ends in the middle of a launch and the other goes on |
| `OsTasks` | `TypeOK`, `AnswerStands`, `RepairSpares`, `NextRunIsNext` | one change by somebody else and one restart, at any step; any call may fail, any number of times, and commands are unbounded. One time for a single shutdown; weekly ones of one day, of the weekend at midnight and of no day; instants before, at and after the run; a midnight the clocks skip. Autostart tasks of the older version in both forms, one edited to stop on batteries, and one of another program |

A run checks its module's `TypeOK` unless it only adds fairness to an instance
checked before; that of `FpsSession` and of `UpdateFlow` is a theorem (section 4)
and not repeated in a run.  `ChildIsAccountedFor` is the conjunction of
`NoneLeftSuspended` and `AnswerIsTrue`.  Every bound is a constant of the module with
`Max` in its name (`Attempts` and `LastDay` besides) and appears in the guard of
the action it limits.  Runs whose bounds exhaust the environment say
`CHECK_DEADLOCK FALSE` (the page may be closed, the clock stops on the last day);
in `ModeControl` the worker never stops, and deadlock is checked.

### Fairness

Every liveness property needs the program to go on, and none assumes anything of
the user, the game, the clock of the rules or a fault.

* `ModeControl`: weak fairness of the worker (a loop around a sleep), of a
  thread inside the lock (the calls it makes do not block, and `LockReturns`
  proves that five of them bring the lock back) and of the expiry of
  the negative lookup (a second passes).  No fairness of the reapply threads is
  assumed in the passing runs: `Converges` is the worker's work alone.
* `ReapplySpec`, used only for the counterexample of `ModeRestoredReset`, adds
  strong fairness of the reapply threads, so that the counterexample is not one
  where a thread sleeps for ever.  The worker holds the lock for a moment every 5
  seconds, a waiting thread gets it.
* `FpsSession`: the page's timer polls while the tab is open, pool threads run,
  5 seconds pass.
* `Program`: one weak fairness condition on the threads of the programs together.
  It is enough, as each thread comes to rest by itself (`ComesToRest` in section 4
  proves it), so that none can keep the others from their turn; no call they make waits for
  the user, and the watchdog's thirty seconds pass.  The page may never load, and
  nobody needs to click.
* `UpdateFlow`: a command in flight is answered.  Requests have timeouts (15
  seconds for the metadata, 10 minutes for a download), and each step brings a
  command nearer its answer (`CommandsComeBack`).

## 4. The proofs

TLC covers the instances above.  The following hold for every value of the
constants that satisfies the modules' assumptions (`ModeControlAssumption`,
`PolicyAssumption`, `FpsAssumption`, `UpdateAssumption`, `StoreAssumption`,
`ScheduleAssumption`, `OsTasksAssumption`, `WindowAssumption`, `LaunchAssumption`,
`ProgramAssumption`: types of the constants and distinct names; `UpdateAssumption`
besides that at most one alert check is under way, see section 6;
`ModeOnCpuAssumption` that a machine's cores share no processor, and that its
processors are numbered from 0 and are at most as many as a mask has bits).

**`ModeControlProofs`.** `TypeOK` is not inductive: a critical section's fields
mean something only at some stages.  `IInv` adds `SectionOK` (a section past its
decision has a mode; a process looked up was launched; the worker has settings),
`LastRequestWins` itself and `GenerationsOK` (no reapply thread is of a
generation yet to come, so taking a new one makes every thread stale).  `DecideType`
shows that the policy function always answers with a memory and an optional mode.
From `IInv`:

* `TypeCorrect`, `LatestWins` and `NeverStale`: `TypeOK`, `LastRequestWins` and
  `DecisionNotStale` always hold.
* `StaysCoherent`: for `Resets = {}`, `Coherent` always holds.  The invariant is
  `PairInv`: between the two calls the priority class is the requested one and the
  affinity the old one, at any other time both are of one mode, as long as at most
  one call failed.  The assumption is needed: a game that resets one attribute is
  incoherent by definition.
* `ImplementsRegister`: `ModeControl` implements `GameMode` under `RegisterMode`,
  in which a request half done still counts as the old mode.  `GameInv` says that
  a missing game is in the mode of a fresh one and that the priority class set
  halfway is the requested one unless the game reset it.  A rollback is a
  stutter; the second call is the step `Serve`, which needs `LastRequestWins`.
* `SettlesAtOnce`, about the policy alone: when a request of the worker succeeds and
  nothing else changes, its next tick requests nothing and remembers the same, for
  any memory, settings, window and rule.  The worker never goes back and forth by
  itself.
* `WorkerServes` (`ServesWanted`), `LockReturns` (`LockComesBack`) and
  `RestoreSurvives` (`RestoreIsNotLowPower`, `RestoreIsKept`) are the parts of
  `Converges` and `RestoredWhenShown` that need no fairness.  While one mode is
  called for the worker requests that mode or, if the game is in it, nothing; whoever
  takes the lock gives it back after five calls at most (`CallsLeft` falls with every
  step of the holder); what the worker remembers for a hidden game is never low
  power and stays until the game is seen again.
* `ThreadsAreCounted` (`ThreadsDiffer`): no two reapply threads share a generation,
  and a request that may still start one is alone in its own.  This is why a set of
  records can stand for the threads.

**`ConfigStoreProofs`.** `IInv` says that the lock belongs to the command under
way (`LockInv`), that a whole file holds what was saved last and a broken one was
noted as damage (`FileInv`), that what the lock's holder loaded is what the file
says unless there was damage (`ValueInv`), that there is room for one more save
(`RoomInv`), and `TmpIsOwn`.  Then `StoreTyped`, `TmpNeverShared` and
`FileIsRecord` (the refinement of `DurableRecord`; the rename is the step `Save`).

**`ScheduleProofs`.** `IInv` is `TypeOK` and that ids are distinct.
`NightsAreWhole` (`CoveredExactly`) reduces the span of any day to that of today
and yesterday by arithmetic over an arbitrary length of day.  `OneRuleDecides`
(`OneInForce`) ranks rules by priority and id, and finds a greatest one by
well-foundedness on the bounded ranks, for any number of rules.  `HeldToTheEnd`
(`HoldsToItsEnd`) combines that with the fact that a rule which applies now and
does not end at the next minute applies then too.

**`FpsSessionProofs`.** `SampledSessionLives` is far from inductive: that the
session which is sampled lives is due to where sessions may be.  `IInv` says what
a poll holds at its stage (`StageOK`), that the claim the runtime waits for is the
last one given out and belongs to one poll (`ClaimOK`, `ClaimsDiffer`), that a
session is of the past or the live one, and the one about to be published is the
live one unless its claim was superseded (`SessionOK`), and that the live trace is
held in exactly one place: by the runtime, by a stop that has taken it out
(`DetachedOK`), or by one poll (`HeldOnce`).  `SampledLives` and `LiveIsHeld`
follow.

**`UpdateFlowProofs`.** `NeverOlder` speaks of what is pending when an install
ends, but what decides it is who may still replace the pending update.  `GenInv`
and `GuardInv` say that one check at most is of the last generation and who holds
the lock of the settings, `FoundInv` that what is found lies between the installed
and the latest version, `NewInv` that what may replace the pending update is as new
as anything found.  `DownInv` is the core of it: what is being installed is
the newest version found, or a newer one is pending and no check can replace that.
`OfferInv` and `NoneInv` give `OfferStands`: a check that found nothing, while it may
replace the pending update, did so when nothing was offered.  `OnceInv` bounds what
was announced by the version the file holds and so gives `AnnouncedOnce`.

Beside that stands the part of `ButtonsComeBack` that needs no fairness.  `OwnInv` is
`BusyIsOwned` (the page waits for a button command exactly as long as there is one:
`NoButtonIsForgotten`) and `LockIsOwned` (a check holds the settings' lock only while
it is saving: `LockIsLetGo`).  It rests on `IInv`, which says that there is one button
command at a time, so that an answer which frees the buttons frees them of the
right command.  `CommandsComeBack` (`CommandsGoOn`): every step of a check or an
install lowers the number of steps to its answer (`StepsLeft`, six at most), and
only a command of the page raises it.

**`OsTasksProofs`.** `IInv` ties each step of a thread to the command it serves
(`CommandOK`, `StepOK`), says that a command has no answer before its last step
(`PendingOK`), what is known of the shutdown tasks half way (`HalfOK`), and of the
autostart task while the repair is at work (`RepairOK`): what the repair has read
or registered is there unless somebody else changed it, and an answer given
earlier is then known not to stand.  `Earned` is when an
answer is deserved, and `FinishOK` carries it into `AnswerStands`.  From it follow `TasksTyped` (the holder of the
operation lock, and nobody else, works on the autostart task), `AnswersStand`,
`RepairIsCareful` and `ShownIsNext`.  The last rests on `NextRunFound`: what
`NextRun` answers is the next run (`IsNext`) for any days, minute, time of asking
and irregular local times.  That needs that any day of the week comes within the
next seven days (`EveryWeek`), which is why the search goes to the seventh and not
the sixth, and that a set of offsets has a least element (`LeastOfEight`).

**`ModeOnCpuProofs`.** The machines are sequences of any number of cores with any
number of threads, up to the width of a mask.

* `EveryMaskFits`: whatever Windows tells of the processor, each mode's mask is
  non-empty and within it.  The step that needs care is `FirstThreads`: the first
  thread of the last core lies below the number of threads, or, if fewer threads
  were found than cores, below the number of cores.  `Classified` and `Detected`
  show that what `ClassifyCores` and a failing detection answer is of that kind, and
  `ModesFit` (`MasksFit`) follows: no mode is refused for its mask.
* `ReadBackIsTrue` (`ReadBackAgrees`): the mode that is read back is the mode last
  set.
* `ModesKeepTheirPromise` (`CoresAsPromised`).  On P- and E-cores it is the classes
  that decide (`KeptOnHybrids`); `SomeFast` finds a fastest core.  Equal cores are
  harder, as the masks are shifts by the quotient of two counts.  `ThreadsCounted`
  is a bijection between processors and pairs of a core and a thread, so that
  the quotient is the number of threads of a core.  `Blocks` shows that on a machine
  numbered core by core the k-th core has the k-th block of processors, by a least
  counterexample: the first core with others would leave a gap or overlap the block
  before it.

**`ProgramProofs`.** Three parts: the window, the launch command, the two
together.

* The window.  `WInv` ties what the properties speak of to how far a start is.
  `HandleInv` (who holds a handle has asked for the mutex) makes `OneInstance`
  inductive: a claim that finds no handle finds no other instance with one.
  `LabelInv` adds to `LabelAgrees` what set-up has seen and not yet written, the
  place where the page's callback must wait.  `ReachInv` counts faults: a tray that
  failed is one, a page that could not show its window a second.
* The launch command.  `GInv` adds to the safety properties what a command has at
  each step (`JobInv`), and that a verified path is still approved, because it is
  locked, and a suspended child that is the file asked for is approved (`ImageInv`).
  Then a child that matches is approved.  `NamedIsFinal` is an action property: once
  the user's path is under way nothing is left in `rest`, and no other file is
  started.
* Together.  `IsItsComponents`: every step of `Program` is a step or a stutter of
  `WindowLife` and of `GameLaunch`, so `Spec` implies both specifications.  What is
  proved of either holds of the composition, and most of the remaining theorems
  name the properties that the run checks.
* `ComesToRest` (`RestsByItself`) and `WorkIsBounded` (`LeftIsBounded`) say why one
  fairness condition is enough.  `RunLeft` counts the steps a program has before it to
  its loop and its end, and those of the watchdog and of the page's callback;
  `CommandLeft` counts three for every candidate not yet tried.  Every step of a
  thread lowers the number of its own and leaves the others alone or lowers them,
  and only a start, a page's load and a click raise one.  So the threads take
  finitely many steps between two of those, at most eight in a program and three
  for each candidate and five in a command.

**Only model-checked.** All liveness (`Converges`, `RestoredWhenShown`,
`RuleDoesNotLinger`, `DefaultApplied`, `FollowsGame`, `ButtonsComeBack`,
`NoPageNoProgram`, `StartIsSeen`, `ClaimComesBack`): the prover has no rules for
fairness and for what is enabled.  Of `Converges`, `RestoredWhenShown`,
`ButtonsComeBack` and `ClaimComesBack` the theorems above prove what a step may do;
that the next step comes is TLC's part.

## 5. What the code does otherwise than it says

Two runs end in a counterexample.

* `ModeRestoredReset`.  The game is hidden, the worker puts it in low power and a
  reapply thread is started.  The game resets itself and is shown.  The next tick
  sees a game already in the mode to restore, makes no request and forgets the
  mode (`src/tauri_lifecycle.rs` 163-177).  As no request took a generation, the
  reapply thread is still current, and puts the visible game in low power, where
  it stays.  The README (line 88) promises the previous mode.  It needs a reset
  within the 10 seconds of the repetitions.
* `FpsStopped`.  The page leaves the monitor tab while a poll is in flight.
  `stop_monitor_session` takes the lock first and finds nothing to stop; the poll
  then claims a start and publishes a trace (`src/tauri_commands.rs` 930-1005).
  Nothing closes it until the tab is opened again.  The comment above
  `stop_monitor_session` (line 1392) promises no idle trace.

## 6. Known limits

Behaviour of the code that the properties leave room for on purpose.  Each was
found by weakening a property until it held, and no doc, comment or test
promises otherwise.

* A refused restore loses the mode: `auto_restore_mode` is taken when the restore
  is decided (`src/tauri_lifecycle.rs` 163), not when it succeeds.  With a user or
  default mode set the worker repairs it, without one it does not.  The run of
  `RestoredWhenShown` therefore has no refused calls.
* What to restore lives in memory (`src/tauri_lifecycle.rs` 82): a restart while the game is hidden
  forgets it.  The same run has no restarts.
* The default mode is applied on the edge from absent to present (line 106), and
  the edge is consumed even if the request is refused.
* A game hidden while the worker takes a rule for active is restored to the
  rule's mode when it is shown, even if the rule has ended meanwhile: the mode
  remembered at hiding comes before the one remembered at the rule's beginning
  (line 154).  `RuleDoesNotLinger` excepts this case.  Automatic low power
  switched off while the game is hidden leaves the game in low power (line 124).
* A loader without the lock may rename a good file away: it found the file
  broken, and a command repaired and saved it before the rename.  `DurableRecord`
  allows this after damage (`Forget`), and nothing older than the last save comes
  back.
* A read that fails is taken for a missing file, and the next save writes the
  defaults (`src/backend/settings.rs` 158).  The source does this on purpose.
* Two alert checks that overlap can announce an older version after a newer one.
  They are 6 hours apart, unless the user switches alerts off and on during a slow
  one: the first comes 8 seconds after switching on (`web/src/main.jsx` 2144).  The
  model has one at a time (`Alerters`).  A version noted as announced is not shown
  if the answer that carries it was overtaken (`web/src/main.jsx` 2041).
* A newer release with an unusable download address withdraws the pending update
  behind the page's offer; installing then reports that nothing is pending.
* `set_setting` asks for the present form of the autostart outside the operation
  lock (`src/tauri_commands.rs` 1495), and a task of the older version reads as
  none.  A user who switches the autostart on before or while that task is repaired
  gets the form with a window in place of the tray form (`KeepForm`).
* A registration that cannot be verified is deleted (`src/backend/autostart.rs`
  144), also if only the query failed.  The task that was there before is lost; if
  the repair did it, only the log says so.  `RepairSpares` allows it.
* That a shutdown is registered is verified by its existence only, and that one
  is cancelled by what the deletion reports (`src/backend/shutdown.rs` 126, 219).
  `AnswerStands` therefore promises less for a shutdown that somebody else changed
  meanwhile than for the autostart.
* If both ways to count the cores fail, a processor is taken to have two threads
  per core, and the high-performance mode of one that has not gets half its cores
  (`src/backend/process.rs` 126).  `CoresAsPromised` is about a processor whose
  cores were counted.  A failed detection is repeated at the next call
  (line 80), so that a mode set by the one may not be recognised by the other until
  the worker sets it again.
* The high-performance mode takes every second processor, or every n-th, of a processor
  with equal cores (`src/backend/process.rs` 271).  That is one thread of each core if
  the processors are numbered core by core, as Windows does it; on a machine that
  numbers the first threads of all cores first it would be both threads of some
  cores.  `CoresAsPromised` is about equal cores numbered in that order (`IsInOrder`);
  P- and E-cores may be numbered in any, as their masks come from Windows.
* Two modes may have the same mask: on a processor with one thread per core the
  normal mode and the high-performance mode differ by the priority class only.
  `ReadBackAgrees` allows for it.
* A next run that falls on a local time the clocks skip or repeat is shown as none,
  though a later one exists (`src/backend/shutdown.rs` 186, 334).
* Daylight saving: "yesterday" is 24 hours ago in the code
  (`src/backend/schedule.rs` 166).  The model's days all have the same length.
* A second start shows the window past the first instance's own code, and the
  label stays "open": the next toggle hides the window
  (`src/backend/singleton.rs` 96).  So does a window that is shown and cannot be
  focused (`src/tauri_lifecycle.rs` 565).  `LabelAgrees` excepts both by `unlabelled`.
* A second start during a minimised start shows a window that the page's load
  hides again, and one while the instance ends sees it go (README.md 89 promises
  the window without qualification).  A second start holds a handle of the mutex
  while it looks for the window, so a third one is turned away although the
  instance has ended meanwhile.  `StartIsSeen` excepts the three.
* If the mutex cannot be created the program goes on without it
  (`src/backend/singleton.rs` 73): two instances may run.  `OneInstance` is about
  starts that have a handle.
* A program that is killed between the creation of the suspended launcher and its
  resumption, or whose termination of it is refused, leaves a suspended process
  behind (`src/backend/launcher.rs` 109, 402).  `NoneLeftSuspended` is about the
  others.
* The claim on launching ends when the launcher is resumed: a click before the
  game's process exists starts the launcher again (`src/tauri_commands.rs` 1684), and
  a game that appears between the look for it and the resumption is not noticed.

## 7. What is not modelled

* A path for the launcher of more than 512 characters, which is answered before
  anything is done, and the order of the drive letters beyond the first.
* Checks that Windows decides: signatures, access-control lists, file identity,
  elevation.  They are answers to the program, and the models that use them take
  either answer.
* Resource sampling, logging, rendering, the payload normaliser of the page:
  values that are read and shown.  Each sample replaces the one before it; after a
  sample whose process could not be opened the next one is divided by the time
  since that sample (`src/backend/monitor.rs` 143-195).
* That the steps inside `spawn_verified_launcher` which run under its locks are
  told apart: others cannot write what is locked, so they are three steps.
* The installer, the build and the release scripts, which are outside the program.
* The counting of present events behind the FPS number; release notes and
  download progress; names and texts of rules; the toolhelp enumeration.

## 8. Plan

Done, in this order: `ModePolicy` and `ModeControl` (the purpose of the program,
and its only component with three concurrent kinds of writer), `GameMode`,
`FpsSession`, `UpdateFlow`, `ConfigStore` with `DurableRecord`, `ScheduleRules`,
`WeeklyRun` and `OsTasks`, `CpuAffinity` with `ModeOnCpu`, `WindowLife`,
`GameLaunch` and `Program`, and the proofs of section 4.

Left: whether the form of the autostart should survive a repair that overlaps with
switching it on, which is a question to the code (section 6) before it is one to the
model; and theorems like `ComesToRest` for `FpsSession` and `OsTasks`.
