# LapSphere: models, checks and proofs

TLA+ models of LapSphere, a hardware control daemon for Uniwill/Clevo laptops
and its GUI. The models are translated from the Rust source under `src/`;
`PROJECT.json` maps every definition to its lines, lists the runs, the mutants
that show what each property would catch, the hazards and the theorems.

## 1. The system

Two processes talk over D-Bus, and a third kind writes shared memory. The
**daemon** (root) owns the hardware. Its D-Bus methods run on a multithreaded
runtime, one task per call, beside one **scheduler** task that runs three poll
jobs (`hardware_monitor`, `fan_control`, `gpu_overclock`) one after the other.
Everything shared is a global behind a mutex, taken and released several times
in one operation. The **GUI** draws frames, has one D-Bus worker that sends its
commands one at a time, fetch tasks that put updates into a bounded channel
which a frame drains, and threads of its own for the panel's key, its window
state and the frame metrics. The **Vulkan layer** inside each game writes frame
times into a file the GUI maps.

| Component (source) | State | Operations | What is hard | What makes it correct |
|---|---|---|---|---|
| GPU control (`hardware_control.rs`, `main.rs`, `dbus_interface.rs`) | `GPU_DAEMON_STATE`, `PENDING_GPU_SETTINGS`, `LAST_APPLIED_PROFILE`, `GPU_APPLY_GEN`, `IDLE_OC_STATE`, ..., the adapter's registers, the runtime-PM gate | ApplyProfile, SetGpuCoreOffset, TakeDeferredGpuReport, the gpu_overclock tick | calls and tick interleave; the gate closes between two writes; the tick works on a copy | attempts do not interleave; no profile is lost; the "already applied" marker tells the truth; work gets its overclock back |
| Startup apply (`gui/src/app.rs`) | pending and reply of the apply, the banner | startup apply, reply, deferred report | reply and report come in either order | the banner ends, and says complete only when it is |
| Scheduler and poll settings (`polling_scheduler.rs`, `daemon_settings.rs`) | heap, command channel, `DAEMON_POLL_SETTINGS` | add, update interval, run due jobs, sync | slow jobs; difference, store and sends are separate | no job starves or spins; running intervals follow the stored ones |
| Fan control (`main.rs`, `hardware_control.rs`, `tuxedo_io.rs`) | `FAN_DAEMON_STATE`, process-wide caches, the embedded controller | the curves' tick, the fan calls, the exit | one word for all fans, made by a read and a write; the driver fails | no speed nobody asked for; disabled fans are the firmware's |
| CPU, keyboard, screen, battery, TDP (`hardware_control.rs`, `battery_control.rs`) | sysfs files, `CPU_LIMITS_MODIFIED` | the steps of a profile, single calls, restoration | a mode switch resets other files; a plan fails half-way | what was asked is there; the exit leaves what it found |
| Hardware detection (`hardware_detection.rs`) | poll states, learned numbering, metadata cache, driver sessions, samples | passes of jobs and calls | asking keeps an adapter awake; two numberings; samples out of order | sleepers are left alone; a status is its own; rates are real |
| D-Bus worker and refresh (`dbus_client.rs`, `gui/src/polling_scheduler.rs`, `app.rs`) | command queue, connection, in-flight set, update channel | tick, fetch, send, deliver, reconnect | full channel, hidden window, dead connection | one fetch each, no report lost, it reconnects |
| Gamepads (`gamepad_registry.rs`) | remembered rows | list, reconcile | reconnects with a weaker identity | rows do not pile up |
| Panel window (`panel/visibility.rs`, `window.rs`, `ewmh.rs`, `app.rs`) | hidden, mode, key threads, atom workers, the place | toggle, show, hide, change key, drag | no frame while hidden; two threads with a grab; slow window manager | it comes back; the newest request's state holds; it does not creep |
| Frame metrics (`panel/frames`, `vk-layer`) | shared-memory ring | write in the game, read in the panel | no lock between the processes; kills | no torn or stale frame is shown |
| Configuration (`tray_config.rs`, `panel/config.rs`, `app.rs`) | six files | load, migrate, save | kill or failed write between two steps; files edited by hand | a choice is never lost; what is loaded is usable |
| Tuning page and profiles (`pages/tuning.rs`, `pages/profiles.rs`, tray) | profiles, drafts, the worker's queue, the tray's menu | edit, slide, save, switch, create, delete, reset | page, sliders' tasks and tray meet | saving means what it says; names, menu and files agree |

## 2. Plan

Done: everything in the table above has a module (section 3). The core,
`GpuControl`, has the most thorough proofs; the others were modelled in the
order fans - frames - profile steps - detection - GUI requests - panel - files -
pages.

Every invariant that a run checks is proved (section 5). Left, in order:
1. an abstract "one profile, applied atomically" that `GpuControl` implements
   for static profiles;
2. the statistics over frame intervals (`stats.rs`) against a reference
   definition, the window's keyboard shortcuts, the name on the bus.

## 3. Modules

**`GpuControl`.** One action per step between two points where another thread
can come in. Threads are `Calls` (ApplyProfile calls in flight) and `Job` (the
gpu_overclock job); `pc`, `cfg`, `todo`, `bad` and `outcome` are their program
counters and locals. A call goes `check` - `cpu` - `gpu` - `ops` (static writes,
with the mutex of the pending slot held) - `rest`. A tick goes `pend` (the
pending step) - `decide` (idle decision) - `rel`, `restore`, `dyn` or the end,
on the copy of `GPU_DAEMON_STATE` it took first (`clear` comes between the write of an
offset of 0 and its recording). The adapter is two registers,
written one at a time; each write consults the gate, which flips at any moment.
`Unsupported` registers answer NotSupported, `Breakable` ones may fail. Dynamic
offsets come from curves over telemetry: the model picks any value.
`idle_since` is a three-valued clock; `IdleElapses` makes two timing
assumptions, written at it. `RetryElapses` is the 5 s retry timer.

**`StartupApply`** EXTENDS `GpuControl` with the GUI's side: `Call` puts the
reply into the oneshot, `PollReport` and `Deliver` are the two halves of the gpu
fetch, `Frame` is `handle_hardware_updates`: channel first, reply second. `overlap` remembers that an older apply's report
was still on its way when the startup apply's step was put off.

**`PollingScheduler`.** `left` is a job's time to `next_run`. `Command` and
`CollectDue` are the branches of the `select!`; `RunJob` runs one job for 0 to
`MaxRun`. `SyncDiff`, `SyncStore`, `SyncSend` are the steps of `sync_from`;
`UpdatePollingInterval` follows a sync as the tuning page does it.

**`FanControl`.** An action is the code between two accesses to an ioctl, an
atomic or a mutex. The tick copies the curves, reads each temperature, and
walks through `set_fan_speed` (mode, flag, read of the other fans, packed write,
record) or the Uniwill way (mode, clear, duty). `crossed` remembers that a tick
met a handing back (`FlagMeansManual` needs its absence), `raced` that a profile was
set between the two halves of clearing the bit beside it (`ProfileKept`).
The controller may forget at any time (resume), and answers or does not (`up`).

**`ProfileSteps`.** A call is a set of settings. `waiting` has those whose turn has not
come, `plan` the writes that are left of the one whose turn it is: they are found out at
that moment (`Turn`), because they depend on what is read then, and what is read of the
limits before a switch of the pstate mode becomes writes at its end (`PutBack`). `Guard`
is `guard_sysfs_write`, `Accepts` and `After` are the kernel behind it. A call may fail at
each write (`WriteFails`); `Exit` lets main restore the limits like a call of its own.

**`GpuPolling`, `GpuIdentity`, `GpuDriver`, `Readings`** are four sides of
hardware detection: the tiers that decide whether an adapter may be asked, the
pairing of the two numberings with the caches keyed by index, the sessions with
the resource manager and NVAPI with any step failing, and the differences of two
samples with threads in between.

**`FrameRing`, `FrameHistory`.** `FrameRing` is the layer and the panel's
worker, one store or load of shared memory per action (stores in program order,
as on x86). `FrameHistory` is what they promise, without shared memory: every
process appends to a history, and a poll publishes the newest intervals of one
process as that history was at one moment of the poll, or nothing.
`HistoryImplemented` is the refinement.

**`GuiRequests`, `PollSet`, `Gamepads`.** The coordinator's tick, its in-flight
set, the fetch task, the worker's one queue, the connection with its error
classification and count, the bounded channel, the frame and what asks for one.
A call may fail for a method's error or a lost reply as well as for the connection; a
report that the daemon gave away in a reply that was lost is `mislaid`. Then
the poll set with its commands; the rows of remembered pads.

**`Hotkey`, `Shell`.** `Hotkey` is the meaning of a written key (`Parsed`,
`Effective`) and the threads that grab it. `Shell` EXTENDS it with the window:
frames, the mode, hidden or away in the tray, and who asks for a frame.

**`PanelAtoms`, `PanelPlace`, `PanelConfig`.** The workers of `_NET_WM_STATE`
with the claim and the round lock, messages in flight and failing connections;
one axis of the panel's place with a window manager that rounds and delays;
`panel.json` normalised, edited, saved.

**`ConfigFiles`.** The directory file by file, each absent, torn, or of a
version with a value. Each write of a load or a save is a step or two (`.tmp`,
rename); a kill and a failed write come anywhere. `kept` is what the user may
count on, `lost` says that a load has already answered with defaults.

**`Tuning`, `Profiles`.** What showing the page writes into the profile, the
sliders' tasks against the worker's queue, Save with the values sent after the
profile, and what the daemon makes of it: it skips a profile that its marker names
(`ApplyProfile`; previews leave the marker alone), puts the GPU's step off while the gate
is closed and makes it later (`ApplyPending`), refuses single values (`SetValue`). The gate
is chosen anew for each call; that it closes within a step, and steps that fail half-way,
are `GpuControl`'s and `ProfileSteps`'s. `balked` is what the gate forbade since the last
profile, `strayed` that a preview or a switch of the mode followed it. The fan curve editor
has a sort that is a stable insertion (`PutIn`). The list of profiles with its page, drafts, the
file, and the tray's menu with clicks that wait.

**Compositions.** `MCStatic`, `MCLive`, `MCGui` and `MCDaemon` put parts that
share no state beside one another: `part`, chosen at the start, says which one
moves, the others stand still in one state, so that a run explores the sum of the
parts and not their product. Parts that do share state are composed for real:
`StartupApply` and `Shell` by `EXTENDS`. The fairness of each part is restated
there for the part that moves; in `MCGui`, where the checker would treat all of it at once,
that of the requests and of the idle release stands before what needs it (`RequestsRun`,
`GpuRuns`). `MCStatic` lets the gate of the tuning page begin to forbid only while
no fan has a curve of its own (`TuningStep`): no gate reads a curve. What is claimed of several parts stands in a
module between them and the run: `GuiParts` (D-Bus worker, poll set, gamepads),
`PageParts` (tuning page, profiles), `PanelParts` (atoms, place, panel.json and the
other configuration files), `WindowParts` (key and window) and `MachineParts`
(fan curve, profile steps, adapters, sessions, readings). The modules of proofs extend the same
modules, so that a theorem speaks of the very definition that a run checks. A part
whose constants would clash with another's has them renamed there (`CurveSettings`
for the curve's `Settings`). In `MCLive` the key's threads and the window are one
instance with two parts: in `key` any key may be written and owned by somebody
else; in `window` two keys are, nobody else owns one and all grabs of a thread are
answered alike.

Definitions marked "Mutant of" are faulty variants which show that a property
can fail. PROJECT.json names one for each property; where a property is a
conjunction, further ones break its other conjuncts.

## 4. Runs

| Run | Checks | Bounds | Result |
|---|---|---|---|
| `gpu_static` | GPU: `TypeOK`, `StaticWritesExclusive`, `MarkerClearedWhileDeferred`, `MarkerMeansHardware`; files: `SettingsSurvive`; atoms: `NewestRequestHolds`; panel file and place: `PanelRemembers`, `NothingMovesByItself` (with the files' second load); tuning: `TuningKeeps`; profiles: `ProfilesAgree` | 1 client, 3 applies, 2 static profiles, failing core writes and steps; 1 change, 1 kill, 1 failed write; 2 atom workers of 2 attempts, 1 failure; 2 edits of the panel's file; 1 drag, 2 changes of size or monitor; 2 edits of a profile; 4 of the list | holds |
| `gpu_live` | `NothingLost`, `DeferredEventuallyApplied`; panel: `PanelComesBack`, `PressAnswered` | 2 applies, direct offset calls, failing core writes; 5 written keys, a foreign grab, 1 change of key; 1 waiting tray event | holds |
| `scheduler` | `TypeOK`, `IntervalsAgree`, `LatenessBounded`, `EveryJobRuns` | 3 jobs, 2 syncs, rates 0 to 2, runs as long as the shortest interval | holds |
| `frames` | `ShownIsTrue`, `WriterHasItsName`, `HistoryImplemented`, `DeadGoesDark` | 2 processes with one pid, 2 instances that share a writer, 2 segments, a ring of 2 that wraps, 2 retries | holds |
| `daemon` | fans: `OnlyGivenSpeeds`, `ProfileKept`, `FlagMeansManual`, `FollowsCurve`; profile steps: `AppliedAsAsked`; detection: `SleepersLeftAlone`, `StatusIsItsOwn`, `AdapterFollowsWork` (with the types of every part); the curve in force and the readings: `NumbersAreReal` | 2 fans, 2 client calls, both interfaces, faults; every curve of up to 3 points at 39 to 62 degrees; 2 requests of the samples, 2 CPUs; 1 adapter with 2 threads, 2 adapters in both orders; 3 counts | holds |
| `gui` | startup: `CompleteIsTrue`, `StartupAnswered`; requests: `ReportsShown`, `WorkerRecovers`; `SurfaceIsPolled`; `RowsDoNotPile`; idle release: `NoSteeringWhileReleased`, `ReleasedIsCleared`, `WorkComesBack` | 2 applies of 2 static profiles, and of a released and steered one and one that is neither; 2 components, 1 slot, 1 order, 1 report; 3 components; 2 pads, 3 nodes | holds |
| `gpu_restore_race` | `MarkerNamesPending` | 3 applies, two profiles released when idle | violated |
| `gpu_steer_race` | `MarkerMeansHardware` | 3 applies, a steered and a static profile | violated |
| `startup_waiting` | `WaitingIsAnswered` | 1 apply | violated |
| `fan_exit` | `ExitLeavesAuto` | 1 client, SetAllFansAuto and the exit | violated |
| `two_adapters` | `SuspendedNotAsked` | 2 adapters, 1 client, 1 job | violated |
| `save_deferred` | `ManualOffResets` | 2 edits | violated |

**Why the bounds are enough.** The marker can only be wrong about the profile
before, so A, B, A (3 applies, 2 profiles) contains every pattern its comment
names; a second register makes half-done attempts possible; the gate and the
ticks are not bounded. In the scheduler a job that takes as long as the shortest
interval keeps all three due, the worst case for lateness, and the bound of
`LatenessBounded` is reached. A ring of two slots wraps with the third record;
two retries contain one that succeeds after one that failed; one pid for two
processes is the case in which a name can be mistaken (selection among several
candidates is exercised with one only). A kill and a failed write, once each and
anywhere, are the faults the comments of `tray_config.rs` speak of; the GUI loads
twice in a start, so a second load is always in a behaviour. Two workers are the
shortest overtaking; the proofs lift this one and the ring's bounds. `Limit = 1`
stands for the ten failures the D-Bus worker puts up with: only its being
reached matters. One slot fills the channel, which with 100 takes longer. In
`profiles` four changes cover create, switch, edit and delete of one name.

**What the properties leave out.** `NotAskedAlone` (in `SleepersLeftAlone`)
speaks of the status that a pass has read, and of adapters that are asked by
themselves: one that suspends in the middle of a pass can be woken, and one that
is asked together with another is the subject of `two_adapters`; so is one whose
identity has still to be learned, which is asked in the same loop.
`ConfirmedStays` assumes that the window manager took the older messages before
the newer worker looked: on separate connections the lock cannot order them.
`RateIsReal` assumes that `iw` answers each time (`IwFails = FALSE`): otherwise a
count of the association is compared with one of the interface, and the rate has
what was counted before joining. `StaysWhereLeft` assumes that a requested place is taken before
`POSITION_SETTLE`. `SaveMeansIt` excludes sliders' tasks that were overtaken by
a later one of the same slider and, for the adapter, Saves of which the gate forbade a
part (`save_deferred` shows what becomes of one); for the keyboard and the CPU a
profile that the daemon skips after a preview, which then stays
(`hardware_control.rs:839`). `TakenReportKept` excludes reports in a reply that was
lost. The key's claims (`PanelComesBack`) are about the thread that spoke last, not about
one that reports over a newer one. `TrayAgrees` the frame that took a tray click and
a page click, and the properties of names end when the tuning page has renamed a
profile. `ProfileSteps` is explored with one caller and the exit beside it.
`IntervalsAgree` and the marker's properties are about one client whose calls
follow one another, which is what the GUI's worker is; two syncs at once can leave a
job at the other's interval. `CompleteIsTrue` is about any number of applies, but for
`overlap`: a report carries no profile, so one of an older apply that is still on its
way when the startup apply's step is put off resolves the banner too early.

**What the violations show.**
- `gpu_restore_race`: the tick decides Restore for the profile it copied; an
  ApplyProfile of another completes and is marked; the tick then queues the old
  settings, which the next tick writes over the new profile.
- `gpu_steer_race`: the same copy makes `apply_gpu_overclocking` write a dynamic
  offset over a static profile that is marked as applied.
- `startup_waiting`: a deferred report drained in the frame that also reads the
  startup reply is not taken as its resolution, and the banner waits for ever.
- `fan_exit`: SetAllFansAuto leaves the curves in place, and a tick before the
  end takes the fans again.
- `two_adapters`: a pass that is let begin for the adapter that is awake takes the
  handle of every device to learn its address, though "a suspended adapter is never
  touched" and "taking a device handle is itself a touch"
  (`hardware_detection.rs:2833`, `:2856`); the fans are read the same way.
- `save_deferred`: manual control is turned off and saved while the gate is closed;
  the gate opens, the page's resets are written, and then the deferred step of the
  profile, which still has the old offset.

**Statements of the source that fail and have no run of their own.** They stand
as definitions beside the properties, and an invariant or property line with
them shows a short counterexample:
- `Shell!PressBringsBack`: a panel that was closed to the tray or started
  minimized is taken for a visible one, and the first press hides it.
- `Hotkey!OffIsNoRoute`: after the key was turned off, the old thread's late
  report makes it count as a way back.
- `GuiRequests!ServiceAbsentReconnects`: the text of an absent service is
  replaced on the way, and only the count of failures reconnects.
- `PollSet!EmptyPanelPollsNothing`: a panel without rows is sent as "everything".
- `Gamepads!ListedHaveRows`: a pad with an identity takes over the row of another
  one without, both being listed.
- `GpuIdentity!CompleteAfterGoodPass`: a cache entry is retried only for the
  fields the check looks at.
- `FanControl!HandedBackStays`: a tick that has copied the curves takes the fans after
  they have been handed back (README.md:47, "disabling custom curves sets the fans back
  to auto"), and nothing gives them back.
- `ProfileSteps!TdpAsAsked`: the position in the list, from 0, is given to a driver
  that counts from 1 (`hardware_control.rs:1264`), after one call.
- `StartupApply!CompleteIsTrue` without `~overlap`, and `Tuning!SaveMeansIt` without
  `~strayed`: see above.

**Fairness.** The job and a call that can go on do go on (the scheduler
reschedules after errors, the runtime runs its tasks), and a tick that sees a
high load happens again and again if it can (`SF`): the property it serves speaks
of work that comes back. Nothing is assumed of the gate. `StartupFairSpec` adds
frames, so it speaks of a window that is shown, and strong fairness for a call
that waits for a mutex the job takes again and again. In the scheduler the
`select!` picks its branch at random, hence `SF` for `Command`. The fans' threads
and the driver's calming down are weakly fair; `FollowsCurve` holds where the
driver answers from some moment on. The frames' worker is weakly fair, time
strongly, because a poll always ends. Hidden windows have no frames: `GuiRequests`
assumes none at all, `Shell` only those that were asked for (eframe paints after
`request_repaint`). Of the daemon's coming back nothing is assumed:
`WorkerRecovers` is about the connection. Adapters without work suspend in the
end if nobody asks them (the kernel's timer).

**Deadlock** is checked in `gpu_static`, `save_deferred`, `scheduler`, `frames`, `two_adapters`, `startup_waiting`
and the two GPU races. The other runs turn it off: fans and profile steps end with the daemon,
and the bounded parts stop when the user has done all that the bounds allow.

## 5. Proofs

All for every value of the constants, under the `ASSUME`s that TLC evaluates in
the runs and those in the theorems' statements.

- **`GpuProofs`**: `TypeCorrect` (with `JobLocals`: a restore needs
  settings, an attempt's origin becomes part of a report), `WritesExclusive`
  (the property is an equivalence, a thread writes exactly while it holds the
  mutex, and so inductive as it stands), `SteeringStops`; `ReleaseClears`, for
  any number of clients of which none sets an offset directly (`DirectOffsets =
  {}`; a release does not survive such a call): the release is followed from the
  decision, over its writes, to the state that records it, by the generation it
  has seen. For one client (`Calls = {c}`): `MarkerCleared` (`CleanOutcome`
  reaches over the gap between the mutex and the marker); `MarkerTruthful`,
  for profiles that hold still (`AllStill`; `gpu_steer_race` shows that this is
  needed): `Attempt` follows the call through its writes; `NothingIsLost`, where
  also registers fail for no reason but the gate (`~StepsMayFail`, no breakable
  register of a profile): an attempt that another reason stops is reported as
  failed and given up, which is what the code means.
  `StartupImplementsGpu` (the GUI only restricts the daemon, so that all of this
  holds with it) and `CompleteTellsTruth`, for one client: `OwnReport` says
  that a report on its way while the startup apply's step is pending has been noticed
  (`overlap`), `BannerInv` what the banner has been told.
- **`PollingProofs`**: `NoJobSpins`. `TypeOK` is inductive: no interval is zero
  whatever clients send, a job is in the heap or in the batch, once.
  `NobodyOvertakesTwice`: a job's lateness is bounded by the number of jobs that
  have run since it became due, which is bounded because the heap gives up the
  earliest first. `OneClientAgrees`, for `Calls = {c}` (two syncs that cross
  leave a job behind): what is to be sent, what is in the channel and what runs
  make up the stored interval, at every step of a sync.
- **`DaemonProofs`**, the fans: `SpeedsAreGiven` by `SpeedInv`: what a thread carries
  between its reading and its packed write was given to each fan by a curve, a
  client or the firmware. `ProfileSurvives`: what a
  thread has read of the mode is the profile that is set, until one is set in
  between (`PerfFollows`). `FlagIsTrue` by `HandInv`, which says where two threads
  may stand while nobody has met (`~crossed`). The
  machine: `SleeperNotAsked`, of any number of adapters: a pass that still has
  adapters to ask has read that one was awake (`AwakeWhenRead`). `NumberingIsSafe`, for any number of adapters: what
  has been learned of an index is the adapter it stands for (`LearnedInv`).
  `SessionsAreClosed`: NVAPI has been initialised as often as there are threads
  between its two calls (`SessionCount`); `SleepersAreLeft` puts the two beside one
  another. `DifferencesAreReal`: any two samples of
  the CPU's ticks are in some order (`CpuInv`), so it does not matter in which threads
  store them; a counter that can begin anew has one reader, whose samples come in the
  order in which they were taken (`RateInv`, `Later`). `TrueNumbers` adds the curve in
  force: points in any order, of any number, are sorted by insertion (`CurveSorted`), the
  speed rises or falls between the two beside the temperature (`NearestFits`,
  `BetweenFits`), rounding included. `CallsDoAsAsked`, the rest of the machine: a setting
  whose turn has come is written, or its write is in what is left of the plan, and nothing
  left there undoes it (`Settled`): the files of different settings are different, and the
  mode, which resets those of others, comes first (`BeforeMode`). A plan that names every
  CPU and has not failed has found them all online (`Counted`). Across a switch of the mode
  the limits are on the CPUs, in the plan's last element or in the writes that it becomes
  (`KeptAt`). Limits that are not those of the hardware have left the flag up, or it is at
  the end of a plan (`DirtyInv`), and main writes nothing that takes a CPU offline
  (`MainInv`).
- **`FrameRingProofs`**: `WriterIsFound`. A creation between its open and its
  header has the name and no writer yet; `NameInv` covers that gap.
  `RingIsHistory`, the refinement. `SegInv` is about
  writers: a segment with an even sequence is whole, and only its one holder
  makes it odd. `ReadInv` is about a copy under way: while the sequence is the
  one it began with, nothing it has copied has changed. Each step then maps to a
  step of `FrameHistory` or to a stutter. `ShownWasPresented`: what is shown is
  as old as the last poll found it and time has added (`Aging`), and a game that
  records has a last frame.
- **`PanelProofs`**, the key: `CaughtKeyFires`. Each mask of a key is in one
  place of its thread, held, still to be tried or with somebody else (`Sorted`),
  so that as many are held as were not lost; and the thread of the current grab
  has the key that is configured (`OwnKey`). The window: `WindowTellsTruth` and
  `PressShowsPanel`. What the settings window says of a key means the key that is
  grabbed (`EffectiveMeansTheSame`): the canonical names are gone through one by one
  (`AllNamed`), each means itself and none is ignored. `FlagsAgree` holds at every point of a frame, so each part of
  a frame has a lemma of its own (`ToggledFlags` to `CloseHandledFlags`);
  `WindowRests` holds only between frames. The atoms: `NewestRunsLast`,
  `RoundsAreExclusive`, `AtomTypes`.
  Neither the claim nor the lock gives the order alone: a worker that is
  overtaken keeps the lock until its round is over. `SentByOlder` says that
  nothing on its way is newer than the worker that may send, `LockIsClaimed`
  that the round is never newer than the newest
  claim. `NewestIsKept` proves `NewestRequestHolds`: from the moment the newest
  worker has looked and no older message is on its way, the properties move
  only towards what it asks for (`Toward`), and what it has seen stays. The place:
  `PanelStays`. A panel that was not dragged is near the stored place, or on its way
  there, or still to be sent there (`NotMoved`); that the window manager's rounding
  never adds up rests on places and the tolerance being whole points. `NothingMoves`
  adds that a second load writes no file (`ConfigProofs`). The panel's file:
  `PanelIsRemembered`, for any registry and any list of rows in the file: the rows that
  are kept are known and distinct and in the file's order, those that are missing follow
  in the registry's, and what a control changes is what the file has when it is saved.
- **`GuiProofs`**: `ReportsReachTheScreen`. Every command in the queue is
  of a task that waits for its reply, and of one per component (`FetchInv`); the
  report the daemon has handed out is the newest and in its task (`ReportInv`);
  the latch that holds a request back is up only while a frame is due
  (`ScreenInv`). `PollSetFollows`: the last command in the coordinator's channel,
  or the coordinator when there is none, has what the last frame sent;
  registrations come before. `PagesAndTrayAgree`: the names are distinct in the
  list and in the file (`Stands`), so an index found is the profile; an edit comes
  after its frame's tray part, so the menu can only be old when the number of
  profiles shows it (`MenuFollows`); the mark is where the last update or the last
  click put it (`MarkFollows`). `PageMeansWhatItSays`: a queue is read as what it will
  have given each part of the hardware when it is done (`ComesTo`), which the
  worker's steps keep and which is what the profile says after a Save; whatever else
  sends a command ends the claim (`SaveComesTrue`). A step that is put off is made before
  the claim is due, or the gate is known to have forbidden something (`balked`). What drawing has done once it need
  not do again (`CpuFine`, `GpuFine`, `FansFine`), so that a slider finds both ends of
  its range. A point put into a curve of any length goes between its points and leaves
  it valid (`PutInGoesIn`). `GamepadRowsDoNotPile`: the daemon's list has
  distinct identities, and `reconcile`, fold by fold, keeps the rows distinct; a row
  without an identity goes with its pad.
- **`ConfigProofs`**: `ChoicesAlwaysSurvive`, `SecondLoadStaysIdle`,
  `ConfigTypes`, for any values with 0 and 1 (what `Init` writes) and any number
  of changes, kills and failed writes. What is left of a step is known by how
  many operations follow it (`SettingsOp`, `ProfilesOp`, `MigrationOp`), which
  neither doing nor failing one changes, so that `ConfigInv` says for each place
  in a save what the files hold. While nothing is lost the tray's fields are
  where the load looks first (`Sound`); a failed step of the first load counts
  only if the second cannot make up for it (`Firm`); and torn profiles come
  after the settings (`SettingsFirst`), so that a document that cannot be parsed
  never undoes a conversion.

- **`DataLemmas`** has no theorem of a component, but the induction that the others
  need. The library's induction theorems take an operator, which no prover here can
  instantiate; instead the numbers that have a property are a set, and a set that has
  0 and with each number the next one has them all (`Induction`, `Climb`, `InTurn`).
  `FoldLeft` of the community modules is a fold over the set of indices: `FoldExists`
  shows that the function it chooses is there, and each module says of its own fold
  that it takes the elements in turn (`KeptInTurn`, `NamedInTurn`, ...). `Inserted` says what
  an insertion into a sorted list keeps.

Assumptions on constants that the components do not state themselves stand in the
theorems (`Bounds`, `KeyBounds`, `AtomBounds`, `PlaceBounds`, `ConfBounds`, `DiskBounds`,
`RowBounds`, `PadBounds`, `NameBounds`, `CurveBounds`, `CurvesGiven`, `NoneIsNone`,
`Numbering`, `Sampling`, `StepBounds`, `Timing`): counts are
naturals, sets of lock keys, adapters and threads are finite, the rows of the
panel need registered components and never the log
ring (`required_components` and its test), the user's calls are no component's,
places and `POSITION_MATCH_TOLERANCE` are whole points, temperatures and speeds of a
curve are unsigned, no value is none, a call has each setting once, and the first CPU is
no sibling that SMT turns off. That a switch of the mode keeps the limits is proved for a
kernel that refuses a minimum above the maximum (`Strict`): another could have them the
wrong way round, and `normalize_freq_limits` would then change one.

Only model-checked: all liveness (`DeferredEventuallyApplied`, `WorkComesBack`,
`StartupAnswered`, `EveryJobRuns`, `FollowsCurve`, `DeadGoesDark`,
`AdapterFollowsWork`, `WorkerRecovers`, the liveness in `PressAnswered`), which
is out of the prover's reach.

## 6. Not modelled

- Parsing of sysfs files, NVML and driver answers that keep no state, and ioctl
  numbers: no control a model would show more about than a test.
- Drawing, layout, statistics over frame intervals, theme and texts.
- The encoding of X11 requests, the size of the panel and a second monitor: the
  source places the panel on one monitor only.
- The window's keyboard shortcuts and the ownership of the bus name: events that
  are forwarded, no state.
- The NVIDIA adapters' own fan call (`set_gpu_fan_speed`), a write like the others
  of a static apply.
- Poisoned mutexes, logging, and the log-once flags.
