# A verification project for bazzite-k17

The repository builds an immutable Linux gaming image (Bazzite with its own
kernel patches, services and defaults for one small PC, one receiver and one
television) and carries experimental programs beside it, the largest of which
lets a Windows machine see a virtual Steam Controller that forwards to a real
one. Most of the repository is build scripts, patches to other projects and
measurements. What is modelled here are the parts with a protocol of their own:
state that several actors change, in orders nobody wrote a test for.

Source paths below are relative to `src/`. `driver.cpp` and the other Windows
files are in `experimental/steam-controller/windows-native/`.

## 1. Inventory

### Virtual Steam Controller driver (`driver.cpp`, `protocol.h`)

* **State** (the struct `context`): the VHF device handle `vhf`, the file object
  `owner` that created it, `stopping`, the flow-control flags `ready` and
  `pumping`, a table of 32 pending HID operations with `next_id`, a ring of 256
  input reports, the wait lock `lifetime` and an SRW lock.
* **Operations**: five ioctls on a sequential queue (start, stop, input, poll,
  reply), the VHF callbacks `get_feature`, `set_feature`, `write_report` and
  `ready`, a periodic timer `tick`, `file_cleanup` and the device's `release`.
* **Interactions**: the broker calls the ioctls; VHF calls the callbacks, from
  its own threads and also from inside `VhfReadReportSubmit`; the HID stack
  above VHF waits for `VhfAsyncOperationComplete`.
* **Hard**: the state is read under the SRW lock, which is dropped around every
  call out of the driver; `VhfDelete` waits for every callback and operation;
  an operation may be wanted by `reply`, `tick` and `destroy` at once; VHF uses
  the handles of completed operations again.
* **Correct if** every operation is completed exactly once and with an honest
  status, teardown never waits for itself, a dead broker frees the device,
  reports leave in order and only when VHF has asked.

### Native HID relay (`broker.cpp`, `gateway.py`, `relay.py`)

* **State**: the broker's `done` flag, its two threads and one synchronous
  handle; the text lines in two pipes; the relay's child processes.
* **Operations**: I (input), R (reply) and X (end) lines to the broker, Q
  (operation) lines from it; hidraw reads and feature ioctls in the gateway.
* **Hard**: a blocking feature read delays every later answer past the
  driver's two seconds; either side may end first.
* **Correct if** no request is carried out twice, a success that the HID stack
  is told of is the puck's, and the end of either side ends both and frees the
  virtual device.

### Suspend guard (`files/usr/libexec/steam-inhibitor-guard.py`)

* **State**: `busy`, `generation`, `resync`, `socket` of one main loop; inside
  Steam a window key with the blocker and its lease timer; in logind the
  inhibitors.
* **Operations**: `tick` and properties-changed call `sync`; an attempt goes
  through `targets`, `connected`, `message`, or ends in `timeout`; the script
  runs in Steam.
* **Hard**: attempts outlive their time-out, scripts sent by them run later
  than newer ones, the inhibitor changes after it was read, the guard or Steam
  restarts.
* **Correct if** Steam follows logind within a bounded time, blockers are
  neither leaked nor left behind, and the guard never hangs.

### HDMI FRL link training and recovery (`kernel-patches/0009`-`0053`)

* **State**: the link's `trained` flag, negotiated and capped rate, the sink's
  SCDC registers, the queued recovery work.
* **Operations**: `start_frl` with its link-training states, the rate cap, the
  reset on modeset retry, the link check every two seconds.
* **Hard**: the sink loses its state without a hotplug; commits by user space,
  by the modeset retry work and by recovery meet; each step may fail.
* **Correct if** the check goes on as long as the output is active, a sink that
  has lost its state is trained again, and a healthy link is left alone.

### First-boot application setup, performance and VRR defaults

* **Files**: `moonmachine-setup`, `moonmachine-performance-default`,
  `moonmachine-vrr-defaults` in `files/usr/libexec/`.
* **State**: files in the home directory and under `/etc`, the stamps and
  markers that say what was done.
* **Operations**: one pass per boot over streaming settings, plugin loader,
  plugin and unit; the performance profile once; the VRR properties at every
  change.
* **Hard**: power is lost between any two of the steps; images update in
  between; users edit the same files.
* **Correct if** a later boot completes what an earlier one began, and what the
  user has changed or installed is never overwritten.

### TV and receiver control (`examples/tv-control/`)

* **State**: power and input of the television and the receiver, each changed
  by people too; the wake's shared `status`.
* **Operations**: `guarded_off` (two snapshots, then standby for both);
  `wake` with three concurrent tasks and a supervisor.
* **Hard**: somebody switches inputs between a check and its command; devices
  answer late, or not.
* **Correct if** nothing is turned off that is showing something else, both
  devices are turned off or neither, a wake reports success only on a fresh
  reading, and neither keeps the PC from going on.

### Report codec and IMU clock (`triton.hpp`, `tester/imu_clock.py`)

Pure algorithms: report validation, the sequence gate with half-range serial
arithmetic, the timestamp normalisation. **Correct if** they agree with a
reference over the wrap of their 32 bits.

### Release channel (`.github/workflows/`, `scripts/join-moonmachine-channel.sh`)

* **State**: tags and the digests they point to, signatures, the machine's
  booted and staged image and its policy.
* **Hard**: a tag moves between the verification of its digest and its use.
* **Correct if** a machine never boots an image that was not signed and
  promoted.

### Candidate recovery (`experimental/bore-thinlto/`)

* **State**: the armed mark, the default deployment, the booted one.
* **Hard**: power is lost, or the candidate hangs, between two commands.
* **Correct if** a candidate that fails is left after one boot.

### Left out

| Component | Why |
| --- | --- |
| Xbox receiver association retry, Xbox trigger rumble | small patches to drivers that are not in the repository |
| Controller lab tester | drawing and HID input; its guide and tracker state machines are candidates for a later module |
| Image build and packaging | sequential scripts: a step that fails stops the build |
| Benchmarks, probes and tuning | measurements, with no protocol |
| Decky, Moonlight, Gamescope patches | changes inside programs that are not in the repository |

The hazards of every component, each at its line, are listed in `PROJECT.json`.

## 2. Plan

| # | Modules | Runs | Theorems worth proving | State |
| --- | --- | --- | --- | --- |
| 1 | `HidOperations` (abstract), `HidDriver`, `MCHidDriver`, `HidDriverProofs`, `HidSessionProofs` | 3 | every safety property its runs check, and the refinement | done |
| 2 | `SuspendGuard`, `MCSuspendGuard`, `SuspendGuardProofs` | 2 | every safety property, `LeaseOutlastsFailure` and `MirrorSettles` for all delays in the code's order | done |
| 3 | `FirstBoot`, `MCFirstBoot`, `FirstBootProofs`: a pass per boot, cut off after any step | 2 | everything its run checks | done |
| 4 | `AvDevices`, `AvWake`, `AvSleep`, composed by `AvControl`; `AvControlProofs` | 1 | types, both safety properties of the standby, settled only on a fresh reading | done |
| 5 | `NativeRelay`: broker, relay and gateway with the pipes between them; `NativeRelayProofs` | 1 | types and `HonestAnswers` | done |
| 6 | `FrlLink`: training, link check, probes and modesets against a sink; `FrlLinkProofs` | 2 | the check is never lost, training is never skipped | done |
| 7 | `ImuClock`, `ImuClockProofs` | 1 | everything its run checks | done |
| 8 | the VRR watcher, the release channel, the candidate's recovery | - | only promoted digests are booted | left |

The driver comes first because it is the code in the repository where an error
costs most (kernel-facing, with a lock dropped around calls that call back) and
where a test reaches least. `HidOperations` states its promise once;
`NativeRelay` is built on that promise (queued, polled, completed once) and not
on the driver. The television and the receiver come next because people act on
them at the same time and the answers are slow; the kernel patches after them
because a lost sink is noticed by the user first.

## 3. The driver: `HidDriver`

### State and actions

Variables keep the names of the fields of `context`. `pc[t]` says where each
thread is: `"ioctl"` (the sequential queue runs one ioctl at a time),
`"release"`, `"tick"`, `"ready"`, one cleanup per file and one callback per
operation handle. One action is one section under the SRW lock, or one call out
of the driver, or the wait for its return; between two actions of a thread any
other thread may run, which is what the code allows. `lifetime` is the wait
lock. `completing[t]` holds the operations that thread `t` has taken out of the
table and is about to complete.

| Code | Actions |
| --- | --- |
| `ioctl` entry and the ownership check | `Dispatch`, `IoctlAcquire`, `Start` |
| `create` | `Claim`, `VhfCreate`, `Publish`, `VhfStart`, `VhfStartReturns` |
| `destroy` | `DestroyStop`, `DestroyExpire`, `DestroyDelete`, `VhfDeleted`, `DestroyReset` |
| input, `pump`, `ready` | `Input`, `PumpEnter`, `PumpLeave`, `PumpTake`, `SubmitAccepted`, `SubmitFailed`, `SubmitReturns`, `PumpAbandon`, `VhfReady`, `Ready` |
| `get_feature`, `set_feature`, `write_report`, `enqueue` | `HidOperation`, `Accept`, `Refuse` |
| poll, reply | `NoMoreEntries`, `Deliver`, `Reply`, `ReplyNotFound`, `ReplyCompleted` |
| `tick`, `expire` | `DeadlinePasses`, `Tick`, `Complete` |
| `file_create`, `file_cleanup` | `FileCreate`, `FileClose`, `FileCleanup`, and `destroy`'s |
| `prepare`, `release` | `Prepare`, `ReleaseStopTimer`, `ReleaseTimerStopped`, `ReleaseAcquire`, `ReleaseClose`, and `destroy`'s |

What an operation asks for is abstracted to what the code tells apart: a read, a
permitted write, an unsafe write, an unsupported or a malformed report. A reply
is good, mismatched or an error. The deadline is a flag that a clock sets in the
order of the ids, as the deadlines are assigned in that order. Bytes are left
out; so are ioctls whose buffers have the wrong size, which the code refuses
before it looks at any state.

VHF, the HID stack and plug and play are external: they are modelled by the
calls they make and by what `driver.cpp` relies on. VHF asks once for each
report it wants, possibly before the submission that answers it has returned;
it may call before `VhfStart` has returned, and `VhfStart` may still fail then;
`VhfDelete` with waiting returns when every callback has returned and every
operation is completed. Handles come back as soon as they are completed.

### Runs

* **hid_operations** (`HidOps.cfg`, about 1.1 million states): two brokers whose
  starts may fail at every step, two operation handles, two table entries, two ids, all kinds of operation but the
  refused ones, all kinds of reply, brokers that close with a call in flight.
  Two of each are enough for every pair of threads to contend for an entry, for
  a handle to be used again, and for the ids to reach into a second session.
  It checks the types, `ExactlyOneHolder`, `NothingPendingAtDelete`,
  `HonestOutcome`, `OwnedCallStaysOwned` and `DeliveredOnceInOrder`.
* **hid_inputs** (`HidInputs.cfg`, about 82 000 states): a ring of two that
  three reports wrap around, submissions and starts that may fail, one
  operation beside them. It checks `RingHoldsBacklog`, `SingleSubmitter`,
  `SubmitOnlyWhenAsked` and, under fairness, `ReportsDrain`.
* **hid_progress** (`HidProgress.cfg`, about 41 000 states): two handles compete
  for one entry, so that `DEVICE_BUSY` happens, and starts may fail. It checks `OwnerIsLive`, the
  liveness properties `OperationsComplete` and `LifetimeReleased`, and that the
  driver implements `HidOperations` (`ImplementsOperations`).

`MaxId` and `MaxReport` bound how much is ever accepted; nothing else is
bounded. Sessions may follow each other without limit.

### Fairness

A thread that can take its next step takes it (weak fairness); the wait lock
does not starve a waiter (strong fairness for the three acquisitions); the clock
and the periodic timer go on; VHF asks for a report when it wants one. Nothing
obliges a broker to poll, to answer or to close, the HID stack to issue
anything, or plug and play to release the device: `OperationsComplete` holds
because the timer expires what a broker leaves lying.

### Observations

* `ReportsDrain` is conditional on no submission failing on a live session.
  `pump` leaves at line 85 with `pumping` cleared and does not look at `ready`
  again: if VHF asked once more while the failing call was in progress, the
  ready callback has already returned because `pumping` was set, and the
  reports stay in the ring until VHF asks again. Whether VHF would is not
  documented; hence a condition and not a finding.
* `OwnerIsLive` is conditional on brokers that make one call at a time, as
  `broker.cpp` does. With overlapped calls a `start` that waits for `lifetime`
  during the cleanup of its own file would claim the device for a file object
  that is gone, until the device is released.
* A reply that arrives after the deadline and before the next tick is still
  accepted: the two seconds are a lower bound.

## 4. The suspend guard: `SuspendGuard`

### State and actions

The guard is one thread: every action is one callback of its main loop. Time
passes in seconds (`Second`), which is the granularity of its timers. Of the
attempt under way the model keeps its `stage` and `age` (`busy` is
`stage # "none"`); of attempts that were given up it keeps what they may still
do in `late`: a websocket that will connect (`"ws"`), a script that will run
(`"block"`, `"release"`). The code tells the two apart by `generation`. Other
late callbacks return at once and are left out.

| Code | Actions |
| --- | --- |
| `tick`, properties-changed, `idle_add(sync)`, `sync` | `Tick`, `PropertiesChanged`, `IdleSync`, all through `Sync` |
| `timeout` | `Timeout` |
| `targets` | `Targets` |
| `connected`, with the read of logind in it | `ConnectFails`, `Connected`, `ConnectedLate`, then `SendScript` or `ReadFails` |
| `message`, a websocket's error | `Message`, `SocketError` |
| `finish` | `Finish`, in each of the above that ends an attempt |
| the script in Steam's page | `RunScript`, `RunLate`, with `Block`, `Unblock`, `Expire` |
| the unit's restarts | `GuardStops`, `GuardStarts` |
| logind, Steam | `InhibitorChanges`, `SteamStops`, `SteamStarts` |

### Abstractions and bounds

Two late scripts of the same kind count as one, as the second of them finds what
the first has left. `InhibitorChanges` fires only while no signal and no idle
call waits; more changes in one turn of the main loop are seen as one. The
callbacks of the main loop are not late, except while it waits in `blocked()`
for logind, which it does for a second at most. `calm` counts, up to `Settle`,
the seconds without a disturbance: a change, a restart, a failed attempt, a late
script.

### Runs

* **guard_mirror** (`GuardMirror.cfg`, about 1.1 million states): the delays of
  the code, 5, 4 and 15 seconds; inhibitors change at will; the guard and Steam
  come and go. Two objects suffice for a blocker and one that was leaked or
  replaced. It checks the types, `OneBlocker`, `NoSocketLeft`,
  `LeaseOutlastsFailure` and `MirrorSettles`: after `TickPeriod + AttemptTime +
  1` = 10 calm seconds Steam agrees with logind.
* **guard_ends** (`GuardEnds.cfg`, about 107 000 states): the delays scaled to
  2, 1 and 6 seconds, which keeps their order and `2 * TickPeriod + AttemptTime
  < Lease`. Under fairness `AttemptsEnd` and `BlockerEnds`.

### Fairness

Seconds pass (strong fairness: a second is disabled whenever a due callback
waits, so the callbacks cannot hold time up for ever). The main loop runs what is
due. An attempt whose connection neither succeeds nor fails is still ended: by
`timeout`, which is why `AttemptsEnd` needs no fairness of the connection. A
websocket that connects late does connect or fail in the end: Soup gives its
session three seconds of I/O timeout. Steam runs the script it was sent and its
timers. Nothing obliges Steam or the guard to be restarted.

### Observations

* A script of an attempt that was given up may undo a newer one: Steam then
  disagrees with logind until the next tick. `MirrorSettles` says for how long,
  not that it cannot happen.
* The lease of 15 seconds outlasts one failed attempt (2 * 5 + 4 = 14), and not
  two in a row: Steam may then sleep while sleep is inhibited.

## 5. The boot services: `FirstBoot`

`at` is the next step of `moonmachine-setup` and `tune` that of
`moonmachine-performance-default`; each step is one change on the disk, and a
write that first makes or truncates a file is two, and so is the removal of a
directory, which leaves a part of it when it is cut off. `Fail` ends one service
before its next step (an exception, or the thirty seconds of the unit) and the
boot goes on; `PowerLoss` ends both and the machine is off. What is written stays
written, in the order of the calls: the file system is assumed to keep it.

| Code | Actions |
| --- | --- |
| `seed_streaming` | `SeedConf` |
| `seed`, lines 40-81 | `FindLoader`, `InstallLoader` |
| `seed`, lines 82-103 | `CheckPlugin`, `Replace`, `Mark` |
| `seed`, lines 104-116, and `main` | `SeedSettings`, `EnableLoader` |
| `apply_default` | `ApplyDefault` |
| an image update, or none | `Boot` |
| the user, Decky | `UserEdits`, `UserChangesPlugin`, `UserRemovesLoader`, `UserChoosesProfile` |

The contents of a file are "none", "partial" or whole, and for the plugin which
version; a digest is the version it is the digest of. `cut` remembers in which
*gap* a service was ever cut off. Its values name the only places where that has
a lasting effect, which is what the properties show:

* `"loader"`: after `homebrew` is made and before Decky is enabled. Later boots
  take the directory for somebody else's, or find the unit and leave it disabled.
* `"marker"`: between the plugin's rename and its marker. The plugin is taken
  for a changed one.
* `"seed"`: while a configuration is written. It stays empty, or root's.
* `"profile"`: a failure of the selection, after which the user chooses and the
  next boot selects the default. A loss of power is harmless.

Run **first_boot** (`FirstBoot.cfg`, about 2.6 million states, no bound but the
two versions) checks that outside these gaps a boot that ends completes whatever
earlier ones began (`PluginCurrent`, `CompletedLater`, `ChoiceKept`) and that
within them, too, what is the user's is never changed (`UserContentSafe`).

Run **first_boot_updates** shows a divergence. `apps/README.md:46-47` says that
installations created by the image are updated at boot; one whose setup was cut
off in the `"marker"` gap is not, ever. See `findings` in `PROJECT.json`.

Two interrupted updates in a row can also lose the previous version: the first
ends between the two renames, and the second removes the backup, or a part of it,
and is cut off before it installs its copy. The image has the plugin, so the next boot installs
it, without the backup that the documentation mentions.

## 6. Television and receiver: `AvControl`

`AvDevices` is the room: two external devices that people switch whenever they
like, and that carry out a request at the moment of its answer, or perhaps when
it fails. `AvWake` is `direct_av.py`'s `wake`, `AvSleep` is `sleep_av.py`'s `run`,
and `AvControl` composes them the way the units of `docs/TV-CONTROL.md` do: the
sleep unit conflicts with the wake unit, so a suspend kills a wake in whatever it
awaits and then runs the standby; what the wake had sent may still be carried
out. Each of the scripts is also a specification of its own (`WakeAlone`,
`SleepAlone`).

| Code | Actions |
| --- | --- |
| `receiver`, `avr_state`, `avr_command` | `ReceiverAsks`, `ReceiverState`, `ReceiverCommand`, `ReceiverFails` |
| `television`, `LG` | `Connect`, `Registered`, `EarlySwitch`, `Poll`, `Power`, `App`, `Switch`, `TelevisionFails`, `TelevisionDies`, `TelevisionClosed` |
| `tv_wol` and its loop | `WakePacket`, `WakePacketFails`, `NoMorePackets` |
| the supervisor in `wake` | `Tick`, `Expire`, and the errors it raises in `TelevisionClosed`, `WakePacketFails` |
| `run`, `snapshot` | `SleepStart`, `SleepConnect`, `ReadPower`, `ReadApp`, `ReadState`, `Checked`, `SleepFails` |
| `guarded_off` after its checks, `asyncio.timeout`, the close in `finally` | `Request`, `Finish`, `OutOfTime`, `Closed` |
| the units | `StartWake`, `Suspend`, `FallAsleep`, `Resume` |
| people | `Person`; from `LeftAlone` on nobody interferes |

### Abstractions and bounds

A task is what it awaits and for how long. Time passes in ticks of half a second;
a request may be answered, or fail, at any point up to its time-out, and takes
effect on the device with its answer. `Tick` waits for whatever is due, as an
event loop does that is not overloaded. The supervisor looks ten times a second
and so sees every status that outlives a pause; it looks with each tick. Its
deadline of ninety seconds may come at any moment, which includes the moment the
code chooses. In the run the delays are scaled down (`AvControl.cfg`): five
seconds become four ticks, two and three seconds one and two, and the second that
a websocket may take to close two, as it really is; this keeps what matters, `TvPause + 2 * TvTime < StableTime`: another reading of the television
fits into the time for which the status must be right. That is the assumption
under which `SettledTelevision` is proved for all delays.

Run **av_control** (about 427 000 states) lets wakes and suspends follow each
other in any number.

* `SettledTelevision`: a wake reports success only if the television has been
  read again since the status came right, or its task is dying (see below).
* `StandbySpares`: a difference from the target that lasts from the end of the
  first check on, wherever it falls between the readings, keeps every
  standby request from being begun.
* `StandbyTogether`: what is asked of one device is asked of both, although the
  television fails its own request, or refuses the connection for it.
* `WakeEnds`, `SleepGoesOn`: below.

### Fairness

Each task goes on, with an answer or a time-out; ticks pass. The standby is owed
nothing but the end of its budget and of its close, so `SleepGoesOn` says that
no device can keep the PC awake. `WakeEnds` does not use the deadline: it says
that the tasks bring a chain in peace to the target by themselves.

### Observations

* The receiver's half of "both target inputs stable" does not hold in the sense
  of `SettledTelevision`. While a correction of the receiver (`SI`, `PWON`) is
  being answered, `status["avr"]` keeps its old value (it is cleared at line 136,
  after the answer), so a wake may settle while the receiver is known to be
  elsewhere.
* No wake packet is sent once the television has been seen active (line 146): one
  that somebody turns off after that is asked until the deadline. Hence the
  condition in `LeftAlone`.
* When the television closes its websocket with a message that is not text, the
  error is none of those the task catches: the supervisor ends the wake with it
  (`TelevisionDies`, `TelevisionClosed`), where any other failure is tried again.
  Until the socket is closed, for up to a second, the status keeps what the task
  has read last, and the wake may settle on it.
* A change after its own second reading goes unnoticed, and the chain is turned
  off in spite of it; `StandbySpares` is worded accordingly.

## 7. The relay of the native controller: `NativeRelay`

| Code | Actions |
| --- | --- |
| `driver.cpp`, as `HidOperations` promises it | `Ask`, `Deadline`, `EndSession`, `DeviceReleased` |
| `broker.cpp`, command thread | `BrokerInput`, `BrokerReply`, `BrokerStops`, `BrokerExits`, `BrokerDies` |
| `broker.cpp`, poller thread | `PollerPolls`, `PollerPrints`, `PollerFails` |
| `gateway.py` | `GatewayStarts`, `GatewayInput`, `GatewayReads`, `GatewayHandles`, `GatewayPrints`, `GatewayExits`, `GatewayEnds` |
| `run-lab.py`, `relay.py` | `Ready`, `Read`, `Forward`, `Disconnected`, `Interrupted`, `StopPeers`, `WriteX`, `PeerGone`, `Kill` |
| ssh, the network | `LinkLost` |

Four pipes connect them. A pipe holds `PipeLines` lines and its writer waits for
room; the relay is one thread and waits in one write while it reads from no one.
A line is what it asks or answers; the checks of a request's bytes in the gateway
are one choice, good or bad. An input report is a line that takes up room.

Run **native_relay** (`NativeRelay.cfg`, about 239 000 states): two operations
and pipes of one line, so that every pipe fills in every state the relay can be
in. `HonestAnswers` relates the driver's end to the puck's: success means that
the puck has carried the request out, and nothing is carried out twice.
`RelayEnds`: whatever was lost, the relay comes to its end and the virtual device
is gone. Deadlock is not checked, since the end is the end.

**Fairness**: the processes run, and the gateway is ended by `timeout`, which
`run-lab.py` puts in front of it on the Linux side.

### Observations

* Relay and gateway may come to wait for each other: the gateway in a print
  that nobody reads, the relay in a write to the gateway's full standard input.
  Nothing but the gateway's time limit resolves this, and `relay.py` starts the
  gateway without one. `RelayEnds` rests on `WF_vars(GatewayEnds)`.
* When plug and play releases the device, the broker's poller ends at its next
  poll and the command thread goes on. What fails from then on is only logged on
  the Windows side; the relay forwards inputs to nobody until it ends of itself.
* Writing `X` has no time-out; the ten seconds begin after it. The broker's
  poller is joined before its session is stopped, so that a poller which prints
  to a full pipe keeps the virtual device until the relay kills ssh.

## 8. The HDMI FRL link: `FrlLink`

The code is a series of patches; the model is what they make of the driver.
`commit` is the stage of a modeset's training, `trained` the source's flag,
`queued` the check that comes every two seconds, `sink` what SCDC shows.

| Code | Actions |
| --- | --- |
| a modeset, `UserModeset` or the check's | `Modeset`, `Disable`, `Enabled` |
| `intel_hdmi_start_frl` and its training states | `StartFrl`, `TrainLts3`, `CompleteLtsp`, `TrainingFails` |
| a probe: `intel_hdmi_set_edid` and what it resets | `Probe` |
| the link check of 0053 | `CheckWaits`, `CheckStops`, `CheckDropped`, `CheckRecovers` |
| the sink and what is behind it, suspend and resume | `SinkChanges`, `AccessChanges`, `Settle` |

Locks decide what may interleave: a commit of user space trains its link after
its locks are released, so probes and the check run meanwhile; the check's own
commit holds them, so a probe waits for it.

* **frl_link** (`FrlLink.cfg`, 6 865 states): `CheckGoesOn`, nothing that fails
  ends the checks of an enabled output, only one that comes due while the driver
  suspends, resumes or loads does, until the next modeset; `Recovers`, once the
  sink is ready and willing and no check has been lost in that way, the link is
  brought up, whatever the source's flag says. Fairness:
  training ends by its time-outs, and delayed work runs.
* **frl_healthy** (`FrlHealthy.cfg`) shows a divergence:
  `docs/DISPLAY-RECOVERY.md:13-14` says that a healthy link is checked without
  resetting it. The check asks for `frl.trained` besides the sink's state, and
  every probe of a connected connector resets that flag; the next check then
  makes a full modeset of a link that is up. See `findings`.

`access` is what `intel_display_driver_check_access` says; when it says no, the
check returns without coming back (0053, lines 142-143). A check that an output
enabled during resume has asked for is lost in this way if resume takes two
seconds longer. Recovery then waits for another modeset.

The state is finite, so nothing is bounded. Also seen: `rate_cap` is set by 0003
and lowered by 0016, but no patch reads it, so it is left out; the early return
of `start_frl` for a link that is trained already is never taken, which
`TrainingNeverSkipped` proves: every modeset of an enabled output clears the
flag first. `Recovers` says that the link comes up, not that it stays up: a
probe may reset the flag again, which is the finding.

## 9. The IMU clock: `ImuClock`

`normalize` moves the sensor time of a report so that no two in a row have the
same. Times wrap; `Minus`, `Successor` and `Half` are the code's arithmetic
modulo 2^32. Run **imu_clock** (`ImuClock.cfg`) explores every sequence of times
with a range of 64 and a slack of 5: the code compares distances with half the
range and with the slack only, so a range in which the two are well apart has all
of its cases, and the theorems hold for every range and slack. `odd` makes two
reports in a row two different states, so that `TimeAdvances`, an action
property, is asked of each.

The comment in `imu_clock.py` says that the next real timestamp is unchanged;
that holds for one that passes the lead, which is up to a millisecond
(`RealTimeKept` says so).

## 10. Proofs

Every safety invariant and every action property that a passing run checks is
also a theorem. TLAPS checks `HidDriverProofs` and `HidSessionProofs` for every
value of the constants that satisfies `HidAssumption`: any number of files,
handles, entries, reports. The assumption says that the names of threads, files
and handles do not coincide, that the ring has at least one entry, and that an
error is among the possible replies.

| Theorem | States | Argument |
| --- | --- | --- |
| `TypeCorrect` | `[]TypeOK` | inductive as it stands; the lemmas treat `pc`, the flags and the data in turn |
| `HoldersCorrect` | `[]ExactlyOneHolder` | by `Hands`, below |
| `CancelledBeforeDelete` | `[]NothingPendingAtDelete` | by `LockInv`, below |
| `OwnerActs` | `[]OwnedCallStaysOwned` | by `LockInv` |

`ExactlyOneHolder` is not inductive: that an operation is in one place now does
not say that the next step moves it to one place. `Hands` adds that the thread
which holds an operation is at a place of its code where it may hold one, that
an answering thread's handle is one it took from the table, and that nothing
else is at a VHF callback's handle while the callback is in progress. A quiet
step, which touches neither the table nor `completing` nor `op`, keeps it by one
lemma (`QuietStep`); each of the moving steps has a lemma of its own.

`NothingPendingAtDelete` and `OwnedCallStaysOwned` speak of different threads
and rest on one fact, `LockInv`: whoever is between taking `lifetime` and giving
it back is the one in `lifetime`, only that one changes `owner` or clears
`stopping`, and from the moment `destroy` has set `stopping` until it clears the
owner nobody can enter the table. The steps are split into those that take the
lock, those of its holder and those that leave it alone.

`HidSessionProofs` builds on these two and treats the parts of a session in turn.

| Theorem | States | Argument |
| --- | --- | --- |
| `OneSubmits` | `[]SingleSubmitter` | `FlowInv` |
| `SubmitsWhenAsked` | `[]SubmitOnlyWhenAsked` | `FlowInv` |
| `RingCorrect` | `[]RingHoldsBacklog` | inductive together with the types; the arithmetic of a ring of any size |
| `OwnerLives` | `[]OwnerIsLive` | `OwnerInv` |
| `PolledInOrder` | `DeliveredOnceInOrder` | `IdInv` |
| `OutcomesHonest` | `[]HonestOutcome` | `OutcomeInv` |
| `OperationsImplemented` | `ImplementsOperations` | step by step, below |

* `DeviceInv` says how far the VHF device is at each place of `create` and
  `destroy`. `vhf` is not the device: `destroy` has cleared it while the device
  still exists, and only whoever is in `lifetime` knows.
* `FlowInv` follows a request of VHF's through the ready callback, the `ready`
  flag and the thread that submits: it is in one of them, `pumping` is set while
  a thread is in the loop, and a flag outlives its request only until the end
  of `destroy`. `SubmitOnlyWhenAsked` alone does not exclude that a flag of the
  last session is spent in this one.
* `OwnerInv` adds to `OwnerIsLive` that the file of the call under way is open,
  which only holds while calls are not `Overlapped`.
* `IdInv` orders the table: what was given out has an id up to `lastPolled`,
  what waits has a greater one, none is above `next_id`, and no two are equal.
* `OutcomeInv` says that an entry carries the marshalled kind of the operation
  whose handle it holds, and that a read buffer is filled only for an operation
  that is about to be completed. It needs `ExactlyOneHolder`: with two holders
  the second could tell another outcome.

The refinement is proved for every step of the driver. `StageFacts` says what
the mapping (`StageOf`, `OutcomeOf`) makes of an operation in each of its
places, which is a function of the state because there is one holder; `OneMoves`
and `OthersHanded` reduce a step to the operation it moves and the others, which
keep their stage. Then each of `HidOperation`, `Refuse`, `Accept`, `Deliver`,
`Reply`, `Complete` and the expiry of entries is shown to be its abstract
action, and every other step a stutter.

`SuspendGuardProofs` holds for all periods, time-outs and leases and any set of
objects.

| Theorem | States | Argument |
| --- | --- | --- |
| `TypeCorrect` | `[]TypeOK` | by `GuardInv`, below |
| `SocketsClosed` | `[]NoSocketLeft` | by `GuardInv` |
| `BlockersCorrect` | `[]OneBlocker` | inductive together with the types |
| `MirrorCorrect` | `[]MirrorSettles` | `Mirror`, below, for delays that satisfy `Delays` |
| `LeaseOutlasts` | `LeaseOutlastsFailure` | `Mirror`, likewise |

`GuardInv` adds to the types and `NoSocketLeft` that there is no websocket before
the stage that opens one, and that only an attempt which has waited for logind
is past its time. Two lemmas say what `Finish` and `Sync` do to it; the callbacks
are cases over them.

`MirrorCorrect` and `LeaseOutlasts` are about time. `Delays` is their hypothesis:
an attempt is over before the next tick, and the lease is longer than two ticks
and an attempt. The code's 5, 4 and 15 seconds satisfy it, and 15 is tight: with
a lease of 14 TLC finds `LeaseOutlastsFailure` violated. `TimeInv`, a part of
`Mirror`, bounds every timer by the others: an attempt that is not to be repeated
has seen no tick since it began (`NoTickMissed`); what is left of the lease covers
the time until the next script at the latest, a period more for a failure
(`LeasesLast`); a failure, or a difference between Steam and logind, is no older
than a tick and the age of the attempt that will mend it (`MendedSoon`), and a
script has been out of date for no longer than its attempt is old
(`OutdatedYoung`). None of these holds without the others: the lease lasts because
an attempt comes in time, which it does because the one before it was given up
in time. The lemmas `FinishTime`, `SyncTime`, `RunScriptTime`, `RunLateTime`,
`ExpireTime` and `SecondTime` treat one callback each.

`FirstBootProofs` holds for any set of versions that does not contain the words
for other contents.

| Theorem | States | Argument |
| --- | --- | --- |
| `TypeCorrect` | `[]TypeOK` | `BootInv` |
| `ContentSafe` | `UserContentSafe` | `BootInv`: where the setup may be with what it has found |
| `PluginUpdated` | `[]PluginCurrent` | `BootInv`: the marker belongs to the plugin outside its gap |
| `BootCompletes` | `[]CompletedLater` | `BootInv`: the loader is complete outside its gap |
| `ChoiceSurvives` | `[]ChoiceKept` | `BootInv`: a selection that has ended without a failure has left the stamp |

`BootInv` has a conjunct for each of these lines. They are needed because a
service's later step acts on what an earlier step has seen (`at = "retire"`
implies that the plugin was found to be the setup's), and because what a later
boot finds depends on where the earlier one stopped.

`AvControlProofs` holds for all delays that satisfy `WakeAssumption` and
`SleepAssumption`: they are positive, and a pause and two readings of the
television take less than the stable time (`CloseAssumption`: a close takes time).

| Theorem | States | Argument |
| --- | --- | --- |
| `TypeCorrect` | `[]TypeOK` | `AvInv`: ages stay within their limits, a stable time that is full has settled |
| `TelevisionRead` | `[]SettledTelevision` | `AvInv`: how long the status has been right is at most the age of its reading |
| `ChainSpared` | `[]StandbySpares` | `AvInv`: a reading that fitted excludes what it would have shown |
| `BothOrNeither` | `[]StandbyTogether` | `AvInv`: a request that is no longer open was begun |

`AvInv` is the conjunction of an invariant of the wake, one of the standby, and
`Coupled`: a wake runs only while the PC is awake and a standby only while it is
suspending, so that neither changes the devices under the other. Each script's
steps are treated without the other's (`WakeStep`, `SleepStep`); a step of one
leaves the other untouched by `WakeUntouched` and `SleepUntouched`. The bound
`SinceReading` is what `SettledTelevision` lacks for induction: it grows with
each tick as `stable` does, and the television's time-outs keep it below the
stable time. A task that is dying is excepted (`FreshEnough`), as nothing bounds
its reading by the time that its socket takes to close.

`FrlLinkProofs` needs no assumption: `CheckNeverLost` (`[]CheckGoesOn`) and
`TypeCorrect` are inductive; `TrainingNeverSkipped` adds that a flag that is set
belongs to an output that is enabled with no commit under way.

`ImuClockProofs` holds for every even range and every slack below half of it:
`ClockBounded` (`[]NeverFarAhead`) is inductive, and `ReportsAdvance`
(`TimeAdvances`) and `ResetsFollowed` (`RealTimeKept`) say what one step does
from a state in which it holds. `LeadAndStep`, the arithmetic of a lead and a
step that wrap, carries them.

`NativeRelayProofs` holds for any set of operations and any size of the pipes.

| Theorem | States | Argument |
| --- | --- | --- |
| `TypeCorrect` | `[]TypeOK` | `RelayInv`: which lines go which way (`Ways`) |
| `AnswersHonest` | `[]HonestAnswers` | `RelayInv`: `Requested` and `ToldTrue` |

`HonestAnswers` looks at the two ends only; `RelayInv` says what may be on the
way between them. Requests go one way and replies the other (`Ways`). A request
is in one of five `Places` at a time (`OnePlace`) and once in it (`OnceEach`),
and it is nowhere before the driver has given it out nor after the puck has
carried it out (`NotYet`): that is why the gateway cannot meet it twice.
`ToldTrue` says that a good reply, wherever it is, belongs to an operation that
was carried out. "Once" is stated with positions, not with a count, so that the
proofs need no induction: `TailHolds` and `AppendHolds` say what taking a line
from a pipe and putting one into it do to what it holds, and `Moved` that a
request which leaves one place for another keeps all of it.

Not proved, and checked by TLC only, are the properties under fairness, which are
out of the prover's reach: `OperationsComplete`, `LifetimeReleased` and
`ReportsDrain` of the driver, `AttemptsEnd` and `BlockerEnds` of the guard,
`WakeEnds` and `SleepGoesOn` of television and receiver, `RelayEnds` and
`Recovers`. `ImplementsOperations` is a safety refinement; what the driver owes
beyond it, that every operation is settled in the end, is `OperationsComplete`.

## 11. What is not modelled

* **Release channel, candidate recovery, the VRR watcher**: protocols of their
  own, each of a few commands, and the next candidates. They come after the parts
  above because their steps are sequential and their environment (a registry,
  rpm-ostree, the X server) would be most of the model.
* **Xbox receiver, trigger rumble, Gamescope, Decky and Moonlight patches**: the
  drivers and programs that they change are not in the repository, so neither
  the callers nor the state could be translated from source.
* **Controller lab tester, benchmarks, image build**: drawing, measurements and
  sequential scripts.
* **Report codec** (`triton.hpp`): `sequence_gate` and `valid_output` are called
  by their test only.

Within the modelled parts the following is left out. In the boot services: the
two opt-out files, the choice of the account and of the profile that fits the
hardware, and the owner of the plugin's files. In the guard: its journal. In the
driver: the bytes of reports and their lengths, power management beyond prepare
and release, failures of WDF object creation at device add (the device then never
appears), and the wrap of the 64-bit id. In the control of television and
receiver: pairing, the status command, and the Home Assistant variant of the
documentation. In the relay: the installation of the driver and the haptic probe
of `relay.py`. In the link: the computation of modes and rates, TxFFE levels, and
the registers of the ports.
