# A TLA+ verification of emeet-pixyd

`emeet-pixyd` is a Linux daemon for the EMEET PIXY webcam. It keeps a *belief*
about the camera (mode, audio, gesture, presets), stores it in a state file,
drives the camera over a hidraw node and a V4L2 node, watches `/proc` for video
calls, and serves a CLI socket, a web panel, an SSE stream and an MJPEG stream.
Many goroutines share one `Daemon` structure under three mutexes, and the
hardware behind it can be unplugged, lose power, drop reports or ignore writes.

The modules here model that behaviour. Every definition is translated from the
Go source; the line ranges are in `PROJECT.json` under `map`. File names and line
numbers in this file are relative to the repository's root.

## 1. Inventory

### Shared state and locks

| lock | protects | held across |
|------|----------|-------------|
| `v4l2Mu` | moves of the V4L2 controls (pan, tilt, zoom) and the read of a preset save | `v4l2-ctl` subprocesses, uevent branch |
| `hidMu` | the *sequence* of HID reports | pauses between reports, queries with timeouts, whole reconciles and ticks |
| `mu` | every field of `Daemon` | nothing that blocks except the local save |

Order: `v4l2Mu`, then `hidMu`, then `mu`. Nothing acquires them the other way
round.

### Actors

* the **event loop** (`main.go`, one goroutine): tick (`autoManage`), uevent,
  SIGHUP, SIGTERM/SIGINT;
* the **uevent listener** goroutine, which forwards kernel events with a blocking
  send;
* the **startup reconcile** goroutine;
* the **accept loop**, which serves one CLI connection after the other, and one
  goroutine per **web request** (the same command dispatch in both), and one per
  open **SSE** page;
* one goroutine per scheduled **privacy-trap re-assert** and per delayed **PTZ
  readback**, and one for the daily **update check**;
* one **ffmpeg** process for the stream, killed by its request's context, by the
  first-frame timer or by the clean-up, whichever comes first;
* outside the process: the user, the kernel (nodes, uevents), the firmware
  (settings, staged settings, privacy trap), other programs opening the camera.

### Components

| component | source | state | operations | correct means |
|-----------|--------|-------|------------|---------------|
| HID control | `device.go`, `hid.go`, `motor.go`, `circuitbreaker.go` | `hidDev`, `hidFailCount`, believed mode/audio/gesture | set (config, pause, commit, mutate), query, sync, speeds, reconcile | a belief the daemon confirmed is what the firmware runs; an open breaker sends nothing |
| State file | `state.go` | file, `persistedIntent` | load, atomic save | what was saved comes back after any crash |
| Lifecycle | `main.go` | status, startup goroutine | start, listen, signals, drain, exit | no step of a shutdown loses intent |
| Probe, hotplug | `probe.go`, `uevent*.go` | `videoDev`, `hidDev` | sysfs walk, uevents | a present camera is found, and gets the user's mode |
| Auto-manage | `auto.go`, `process.go` | `InCall`, debounce counters, `autoMode`, `autoError` | tick, call start, call end, auto commands | calls are noticed and only calls; "off" means off |
| Privacy trap | `privacy_trap.go`, `ptz.go` | `trapArmedUntil`, `trapReasserts` | arm, schedule, re-assert, drain | every click lands; privacy is never undone |
| Panel broadcast | `sse.go`, `handlers.go` | subscriber channels | subscribe, broadcast, unsubscribe | every open page gets to the current state; no send on a closed channel |
| PTZ, presets, caches | `ptz.go`, `cache.go`, `commands.go` | PTZ cache, last frame, presets | moves, delayed readback, save/load/push/pull | a cached value is not older than the last command |
| CLI socket and client | `socket.go`, `degraded.go`, `internal/pixy/ipc.go` | consecutive accept failures, degraded reasons | dial, write, accept, serve, mark, clear | a command runs at most once; nobody waits for ever; health reflects the listener |
| Stream | `stream.go`, `cache.go` | the one place, ffmpeg process, last frame | take the place, launch, split into JPEG frames, send, store, clean up | frames are whole; the place comes free; at most one ffmpeg |
| Readings | `power.go`, `identity.go`, `hid.go`, `internal/pixy/v2head.go` | power cache | query, parse, cache, expire | a reading is the answer to its own question |
| Update checker | `update.go` | verdict | check, fetch, compare, announce | the verdict is right and reaches the pages |
| Codec, types, config | `internal/pixy/*` | none | encode, parse, validate | round trips |
| Peripheral | `waybar.go`, `metrics.go`, `ratelimit.go`, `errors.go`, templates | none that anything reads back | format | not about the camera's control |

### What is hard here

Reports are a two-step protocol (configure, commit) with a pause in which the
caller's context can end, the process can die, or power can go; probes replace
the device handles without taking the lock under which they are used; the same
"camera appeared" transition is looked for by three different pieces of code;
the re-assert of a dropped click is a delayed retry racing newer commands; a
broadcast sends on channels after unlocking the map that owns them; node events
before the netlink socket is bound are lost. A report carries no number, so an
answer that comes late is read by the next query; one CLI connection is served
after the other; the only stream place must come free however ffmpeg and its client
end. The complete list, with lines and
the properties that cover each, is `hazards` in `PROJECT.json`.

## 2. The modules

| module | models | abstract / proofs |
|--------|--------|-------------------|
| `PixyDaemon` | HID control, state file, lifecycle, probe and hotplug, the frame of a tick, against camera and kernel | refines `CameraIntent`; proofs in `PixyDaemonProofs` |
| `CameraIntent` | what the daemon promises about the camera mode: lens, memory, disk | – |
| `MCPixyDaemon` | two small cameras for TLC | – |
| `PtzMoves` | moves, preset commands and the two mutexes they nest | proofs in `PtzMovesProofs` |
| `MCPtzMoves` | a small camera with three slots for TLC | – |
| `PrivacyTrap` | the firmware's trap, arming, re-assert goroutines and their drain, in time | proofs in `PrivacyTrapProofs` |
| `AutoManage` | the tick's decision about calls: debounce, auto mode, call start and end, races with commands | proofs in `AutoManageProofs` |
| `Broadcaster` | `sse.go` and the SSE handler | proofs in `PanelProofs` |
| `Updates` | the update checker: what it fetches, how it compares, what it remembers | – |
| `Panel` | `Broadcaster` and `Updates` composed: the verdict on the open pages | refines `Broadcaster`; proofs in `PanelProofs` |
| `MCPanel` | four releases and four builds for TLC | – |
| `HidExchange` | queries over hidraw, their answers in order of arrival, and the jobs that make them | proofs in `HidExchangeProofs` |
| `MCHidExchange` | a small camera for TLC | – |
| `Streams` | the stream request, ffmpeg, the frame scanner, the last frame | proofs in `StreamsProofs` |
| `MCStreams` | two small pictures and noise for TLC | – |
| `CliSocket` | the client, the accept loop, the degraded reasons | proofs in `CliSocketProofs` |

### PixyDaemon

Who owns `hidMu` is `holder`; the owner's locals are `pc`, `cont` (what follows
its writes), `todo` (writes left, the current one first), `unread` and `seen`
(its queries and answers). Goroutines waiting for the mutex have no state, so
"taking `hidMu`" is one action per entry point. Everything done under one
`d.mu` section is one action: `ApplyMutator` resets the strikes, changes the
belief and saves; `StartUevent` consumes an event, probes and, if the video node
appeared, takes `hidMu` before the loop can do anything else. `ProbeCommand`,
`SaveCommand`, signals and the hardware interleave with the owner's steps.

`setDeviceState` (device.go:21-77) is `GuardWrite`, `SendConfig`,
`CancelBeforeCommit`, `SendCommit`, `ApplyMutator` and their failures;
`reconcileOnDeviceAppear` is `Reconcile`, `Verify`, the speed reports and the
queries of the secondary interfaces; `syncState` is `StartSync`, the queries and
`Adopt`. A failed report counts a strike and re-probes until the breaker
opens. A query on a nil handle panics: in a web request `net/http` recovers it,
elsewhere it ends the process.

What the hardware may do to the daemon is three constants. `LateAnswers`: a query takes
the late report of an earlier one for its answer (`Answer`); what comes of that in detail
is `HidExchange`. `Droppable`: modes whose commit the firmware acknowledges and drops
(`SendCommitDropped`); when it does so is `PrivacyTrap`. `Faults`: a report, a save or a
broadcast fails for no visible reason, and the listener loses an event. A report that
fails may have been carried out, the first of a write as the second. A broadcast that
sends to a page just gone panics (`BroadcastPanics`): in a web command the mutex is then
kept (`pc = "lost"`), because handleCommand does not unlock it in a `defer`; a preset push
(`cont` is `"positions"`, then `"pushed"`) unlocks it; in any other goroutine the process
ends, which is `Crash`.

`known`, `fresh` and `saveFailed` are history variables; no guard reads them.
`known` holds the interfaces whose belief was confirmed by a commit or a true answer and
that nothing has outdated which the daemon cannot see: a power loss, a commit that was
carried out and reported an error, one that was dropped, a late report taken for an
answer. `fresh` holds what the owner's present work has committed or was truly answered.

### PtzMoves

Every goroutine has its own `pc`, `op`, `goal`, `todo` and sweep counters, because
here several are under way at once: two clients that move the head, recall, save,
push or pull, and the event loop. `Dispatch` is the routing of
commands.go:59-129, `LockV4l2` and `LockHid` are the acquisitions, `Finish` is the
answer together with the deferred unlocks. A recall or a centring is `Aim`, the
speeds under `hidMu` (`Speeds`), one `Send` per axis and `SendLast`; a push is the
same without `v4l2Mu` and ends with `Keep`. A pull is one `Slot...` step per slot,
since saves and deletes come in between (`admitReading` takes `d.mu` per slot), and
`Summary`. A delete takes only `d.mu` and is one step.

That the camera may be missing or a transfer may fail is a choice in every step,
so `Refuse` and `SendFails` need no device state. `astray` and `excuse` are history
variables; no guard reads them. What the head is doing when it is away from where
it was sent (travel, and what the panel shows meanwhile) is not in this module.

### PrivacyTrap

The head moves into the bottom zone, the firmware's transition starts on
arrival, drops `tracking` and `idle` writes it acknowledges, and from then on
drops `tracking` until an `idle` write clears it. The daemon arms a window at
the PTZ command or at a readback, and a mode command inside the window
schedules a re-assert, which looks at the belief when its timer fires, waits for
`hidMu`, bounces through idle if needed and writes again. `Tick` is one unit of
time; a due timer must fire before the next unit. A report that fails, a command's or a
re-assert's, may have reached the camera (`CommandFails`, `ReassertFails`).

`intent`, `overtaken`, `excused` and `disowned` are history variables; no guard reads
them. `disowned` says that a command reached the camera and reported an error all the
same, and that no command or re-assert has succeeded since.

### AutoManage

The tick (auto.go:97-187) is the sequence `StartTick`, `Scan` or `Overlook` (one process
per step, process.go:79-131; what cannot be read passes for a process without the camera)
or `LookFails` (`/proc` cannot be listed), `Decide` (the section under `d.mu` that counts the look
and reads the settings again), `CallStart`/`Track`/`Extras` or `CallEnd`/`Shut`, and
`Report`. Its locals are `stage`, `mode`, `scanned`, `inUse` and `errs`. Programs open
and close the camera between any two steps, also between two processes of one
scan. A camera-mode command is one step between ticks, because the tick holds
`hidMu` from its first to its last step; auto commands take only `d.mu` and come
at any time. `Restart` takes any settings: what the file holds is `PixyDaemon`'s
business. `Unplug` empties `users`, because the descriptor links of a deleted node
end in "(deleted)" and match nothing.

`steady`, `touched`, `quiet`, `busy`, `veto`, `switched` and `shut` are history
variables; no guard reads them. `steady` holds the programs that have had the camera since
the look began and were not overlooked. `veto` holds those of the call in which the user
chose privacy; a full run of quiet looks empties it, since the code then has reason to
think the call over, rightly or because it could not read.

### Broadcaster

Publishers change state, take the snapshot of subscriber channels under the read
lock, send after releasing it, dropping when a buffer is full. A page's handler
renders, subscribes, waits, renders again per wake-up, and unsubscribes when its
request ends. Not every change is followed by a broadcast (`ChangeSilently`): a quiet tick
clears the error of the last, marks of degradation come and go, a reconcile that changed
nothing sets the time of the last sync. `version` counts all changes; `announced`, a
history variable, is the last of them that somebody broadcasts.

### Updates and Panel

`Updates` is `checkForUpdate` (update.go:299-331) as `Check`, `Fetch` or
`CheckFails`, `Compare` and `SetVerdict`, which announces only a verdict that differs
from the last (`updateState.set`). A tag is what `parseReleaseTag` finds in it: its
numbers, and whether a pre-release suffix follows. `IsNewerRelease` compares as the
code does, number by number; a commit build asks the feed for its history instead.

`Panel` EXTENDS `Broadcaster` and INSTANCEs `Updates`: the checker is one of the
publishers. `SetVerdict` changes the page's contents and starts a broadcast only
when the verdict changed, `Announce` is its snapshot, `Render` copies the verdict
under `d.mu`, and the sends, drops and subscriptions are `Broadcaster`'s own.

### HidExchange

One goroutine's `SendRecv` (hid.go:176-233) is `Ask` (open the node, write the
query), then `Accept` (the first report that arrives, whatever it answers) or
`TimeOut`; `AskFails` is the guard, the open or the write. `wire` holds the answers
under way in the order of their queries. `Close` marks what is still to come for a
query that was given up, `Drop` loses what arrives while nobody has the node open.
A goroutine's `job` says which queries it makes (`todo`), what they yielded (`got`),
and whether it keeps `hidMu` from first to last (`sync`, `reconcile`, `pull`) or
takes it per query (`power`, `identity`, through `v2Read`).

`ParseSetting` is `parseHIDResponse`, which goes by the report's own interface byte
(its tests are nested `IF`s in the order of the code's, since each assumes that the
ones before it failed);
`ParseV2` is `v2EchoMatches` and the parsers of `v2head.go`. `Adopt`, `Verify`,
`StorePower`, `Admit` and `Finish` are what the jobs make of the values. Payload
bytes are cells, one per field.

### Streams

`stage` is where a request's handler is: `Request` takes the place or is refused
(stream.go:116-130), `CheckDevice`, `Launch` and `SetupFails` are `setupStream`,
`ReadByte` feeds the scanner, `FirstFrame` throws the first picture away,
`NextFrame`, `ExtractFrame`, `StoreFrame` and `WriteFrame` are a turn of
`writeFrames`, `Release` the deferred receive. `Terminate`, `KillAfterTimeout`, `Reap` and
`WaitForEver` are `cleanupFFmpeg`: after the timeout two `cmd.Wait` run side by side, the
context's watcher answers one of them, and if that is the goroutine's, the handler waits
for ever (`stage` is `"stuck"`). `ScanByte` is `extractJPEGFrame` (stream.go:358-425) on one byte: `Hunt`
before SOI, `Collect` inside a picture, `DropOversized` at the buffer's limit,
`NextTurn` at the loop's. Of the bytes only FF, D8, D9 and "other" are told apart.
ffmpeg is a process of its own that writes, hangs or ends at any time; when it ends,
its last picture may be cut. `FirstFrameKiller`, `KillAfterTimeout` and
`KillOnCancel` are the timers and the context that kill it. A camera comes and goes
(`Plug`), and a `Probe` that finds it gone clears the last frame.

### CliSocket

`Dial`, `WriteCommand` and `GiveUp` are `SendCommand` (ipc.go:24-62), the rest is
`acceptUnixLoop` and `serveUnixConn`: `Accept` takes the oldest connection and
clears the mark if a failure was counted before it, `AcceptFails` counts, marks at the
ceiling and starts again, `ReadCommand`, `RunCommand` and `Answer` serve the
connection, `ReadFails` is its deadline or an early close. What a command does is
in the other modules: here it counts as having run. `MarkDegraded` and
`ClearDegraded` keep the set of reasons, which the web server's death and missing
helpers share. `ran` and `streak` are history variables; no guard but the bound on
failures reads them.

## 3. Runs

| run | configuration | what it shows |
|-----|---------------|---------------|
| `pixy_daemon` | two modes and two audio settings, breaker 3 (the code's), 2 pending events, no spontaneous failures, late answers, commits of one mode that may be dropped | types; a confirmed belief is true (`SyncedBeliefAccurate`); replugs and reconciles keep the mode (`ConnectivityKeepsMode`) |
| `pixy_daemon_live` | one interface, breaker 2, 1 pending event, reports, saves, broadcasts and uevents fail at will, late answers, commits of one mode that may be dropped, fairness | intent is durable; an open breaker holds; `CameraIntent` is implemented; `hidMu` is released unless the broadcast of a web command panics; a powered camera is noticed |
| `privacy_trap` | the code's delays in units of 1.5 s: delay 2, window 4, readback 1; two re-asserts | every protected click lands, privacy stands, exit keeps the intent, with the exceptions the properties list |
| `broadcaster` | two pages, two publishers, three changes, buffer 1 | dropping wake-ups loses no change that was broadcast; each open page catches up with it |
| `auto_manage` | two programs, which a look may fail to read, the default debounce of 3, fairness | calls are noticed and ended, and only by full runs of looks; auto commands and privacy chosen in a call are respected |
| `ptz_moves` | two clients and the event loop, two axes with two places, three slots and names, room for one preset, a sweep that gives up after two failures | no deadlock of the two mutexes; recalls are whole; presets stay within the limit, are changed by their users only, and are saved |
| `panel` | one page, the checker and one other publisher, releases that move on from one tag to the next, builds from three tags and a commit, six changes, fairness | the verdict is right for every pair of build and release; a page that waits shows it; the newest release is finally noticed |
| `hid_exchange` | a client and the event loop, two slots, answers that are missing, late, cut off or padded, one late answer beyond the one read, fairness | exchanges are not mixed up, V2 readings are their own and the cached battery level is the battery's, every job ends |
| `streams` | two viewers, a picture that fits and one that outgrows the buffer, noise, the camera unplugged at will, fairness | frames are whole, one ffmpeg at most, the place comes free unless the handler's second wait blocks |
| `cli_socket` | three connections, ceiling 2, failures up to twice the ceiling, shutdown, crash and restart, fairness | a command runs at most once, a storm is reported, nobody waits for ever |
| `mode_reapplied`, `stale_frame` | as `pixy_daemon`, with one interface and neither late answers nor dropped commits, and as `streams` | disagreements of code and documentation, see section 6 |

**Bounds.** Counters that grow without limit in the code are capped: `MaxUevents`
(events not yet consumed; one more changes nothing but how often the loop
probes), `MaxChanges` (panel versions; three let a page miss one while another
is announced), the re-assert slots of `PrivacyTrap` (two, so that one can
overtake the other). Strikes and trap timers are bounded by the code itself.
Two values per setting suffice because the code only compares settings for equality;
the camera mode has a third value where it matters (`idle`, in `PrivacyTrap`).
`Droppable` is one of the two modes (a write of privacy is never dropped), and
with two settings an answer is the firmware's or not. The bound on `version` counts
announced and silent changes together.
`AutoManage`'s counters are capped by the code at `DebounceCount`; two programs
suffice for one to take the camera over from the other during a scan.

`PtzMoves` needs two clients for a move to meet a move, and the event loop for a
goroutine that takes both mutexes; one preset fills the collection, so that a free
name, a taken name and a full collection all meet a sweep; with three slots a sweep
can add a preset and then give up.

`HidExchange` needs two goroutines, one that keeps `hidMu` across its queries and
one that may take it for each; `MaxLate` = 1 lets the next query meet an answer of
the one before it, and answers are told apart by the query that caused them. The
camera's settings are what the program writes or one other state. The firmware
version's low byte is chosen to equal the byte of privacy mode, the serial number
is cut off, and slot 2 reports its mode alone, so that the parsers' cases all
happen. `Slots` = 2 and `MaxFailures` = 2 let a sweep give up and let the answer of
one slot meet the query of the next.

In `Streams` the buffer (`MaxBuffer` = 5) and the scan (`MaxScan` = 8) are a few
bytes instead of megabytes and millions of turns, with one picture on each side of the
buffer's limit; what the code does at a limit depends only on being past it. The pipe
holds one write at a time (`MaxUnread` = 0). Two viewers compete for one place.

In `CliSocket` three connections make a queue behind the one that is served; the
failures of one storm are bounded by twice `Ceiling`, which reaches the reset of the
counter and what comes after it. In `Panel` the versions of the other publisher are
bounded by `MaxOther` and all of them by `MaxChanges`; the tags have a pre-release
before its final, ten after six in the second number, a missing third number and a
tag that is no version.

**Deadlock** is checked in `PixyDaemon`, `AutoManage`, `PtzMoves`, `HidExchange`,
`Streams` and `CliSocket`. It is off for `PrivacyTrap`, `Broadcaster` and `Panel`,
where the process ends.

The type invariants of `HidExchange`, `CliSocket` and `Panel` (which contains that of
`Updates`) are stated in the modules and proved, but are not in a run; those of the
others are both.

## 4. Fairness

* `WF_vars(JobStep)`: the owner of `hidMu` always gets on. Reports are single
  `write(2)` calls, queries have a deadline (hid.go), pauses are timers, saves are
  local files.
* `WF_vars(NodeUp(n))`: udev creates the nodes of a powered camera; that the event of a
  node reaches the daemon is not assumed.
* `SF_vars(StartUevent)`, `SF_vars(StartTick)`: they need `hidMu`, which commands
  keep taking in between, so weak fairness would not do. `sync.Mutex` hands the
  lock to a waiter after 1 ms of starvation, and Go's `select` chooses at random
  among ready cases. A mutex that was lost with a panic comes back for nobody:
  `VideoNoticed` supposes that it was not.
* `Broadcaster`: weak fairness of the steps of a publisher that is sending and
  of each page's handler; nothing is assumed of state changes or disconnects.

* `WF_vars(Tick)` in `AutoManage`: the poll ticker keeps firing, a tick that waits for
  `hidMu` gets it (see above), and the scan is finite. That a look can read what it looks at
  is not fairness but a premise of `CallNoticed` (`CanRead`), since the code promises
  nothing without it; `ReleaseNoticed` needs no such premise.

* `HidExchange`: strong fairness of `Lock` (as above), weak fairness of asking, of the
  response timeout, and of what a job does when its queries are over. The camera
  owes no answer.
* `Streams`: weak fairness of the handler's own steps, of the first-frame timer, of the
  kill after the shutdown timeout and of the kill on a cancelled context, and of the end of a
  wait, which after that timeout may be the goroutine's and not the handler's. Neither
  ffmpeg nor a client owes anything, so `WriteFrame` has none.
* `CliSocket`: strong fairness of `Accept` (accepting does not fail for ever while
  somebody waits), weak fairness of the pause and of serving: commands return,
  because every exchange ends (`JobsEnd`), and reads have a deadline. Clients have
  none.
* `Panel`: weak fairness of the checker's timer and steps, of each broadcast and of
  each page; strong fairness of a successful `Fetch` and `Compare`: requests made
  once a day do not fail for ever.

No fairness is assumed of commands, crashes, restarts, power or failures.

## 5. What is proved

Every safety invariant, action property and refinement that a passing run checks is
also a theorem: the run shows it on a small instance, the theorem for every value of
the constants that meets the `ASSUME`s at the head of the module. Each proof module
defines an inductive invariant `IInv`, a conjunction of named parts; TLC checked it
on the module's run before it was proved. The proofs speak of `Spec`, without fairness.

| module | theorem | property |
|--------|---------|----------|
| `PixyDaemonProofs` | `TypeCorrect`, `BeliefIsAccurate`, `BeliefSurvivesCrash`, `ModeIsIntent`, `BreakerIsKept`, `DaemonImplementsIntent` | `TypeOK`, `SyncedBeliefAccurate`, `IntentIsDurable`, `ConnectivityKeepsMode`, `BreakerHolds`, `ImplementsIntent` |
| `PrivacyTrapProofs` | `TypeCorrect`, `EveryClickLands`, `PrivacyHolds`, `ExitIsIntent` | `TypeOK`, `ClickLands`, `PrivacyStands`, `ExitKeepsIntent` |
| `AutoManageProofs` | `TypeCorrect`, `OnlyRealCalls`, `PrivacyOutlivesLooks`, `AutoModeIsRespected` | `TypeOK`, `CallsAreReal`, `VetoStands`, `AutoModeRespected` |
| `PtzMovesProofs` | `TypeCorrect`, `MutexesNest`, `RecallsAreWhole`, `PresetsAreTheUsers`, `PresetsReachFile` | `TypeOK`, `LocksNest`, `LoadIsWhole`, `OnlyUsersChangePresets`, `PresetsSaved` |
| `PanelProofs` | `TypeCorrect`, `DroppingLosesNothing`, `CheckerIsAPublisher`, `TheVerdictIsRight`, `SilenceLosesNothing` | `TypeOK`, `WaitingIsCurrent`, `PanelSpec => Spec`, `VerdictIsRight`, `NoticeIsCurrent` |
| `HidExchangeProofs` | `TypeCorrect`, `AnswersAreNotMixed`, `V2ReadingsAreOwn` | `TypeOK`, `AnswersMatch`, `ReadingsAreOwn` |
| `StreamsProofs` | `TypeCorrect`, `OnlyWholePictures`, `OneFfmpeg` | `TypeOK`, `FramesAreWhole`, `FfmpegHoldsStream` |
| `CliSocketProofs` | `CommandsRunAtMostOnce`, `StormsAreReported` | `RunsAtMostOnce`, `StormIsReported` |

`PixyDaemonProofs` proves for *every* set of interfaces and settings, every
threshold and event bound, from the `ASSUME`s at the head of `PixyDaemon`
(settings are drawn from their interface's set; the threshold is positive):

* `TypeCorrect`: `Spec => []TypeOK`. The breaker's bound `strikes <= Threshold`
  is not inductive. `WellFormed` adds that between guard and mutator the breaker
  is still closed (`GuardStillHolds`): only the owner of `hidMu` sends, so
  nobody else can add a strike in between. It also relates the owner's step to
  its locals (`JobShape`) and says that a dead process has none.
* `BeliefIsAccurate`: `Spec => []SyncedBeliefAccurate`, with late answers and dropped
  commits. The strengthening `Truth` says that a setting to be committed is the one the
  owner staged, or staging was lost with power (`CommitsOwnConfig`), that a commit that was
  not dropped is in the firmware and that until the mutator nobody claims to know it
  (`WrittenIsTrue`), and that a true answer still holds, while for a false one nobody claims
  to know the interface (`SeenIsTrue`).
* `BeliefSurvivesCrash`: `Spec => []IntentIsDurable`.
* `ModeIsIntent`: `Spec => ConnectivityKeepsMode`, with `SecondaryOnly`: a
  reconcile with saved intent never has the mode among its queries.
* `BreakerIsKept`: `Spec => BreakerHolds`.

The same module proves from these `DaemonImplementsIntent`:
`Spec => ImplementsIntent`. A commit report maps to `Actuate`, a mutator and an
adopting query to `Remember`, a reconcile that finds the camera as believed to
`Confirm`, a power loss to `PowerCut`, a save to `Persist`, the end of a process to
`Stop` and a new one to `Start`, a dropped commit and a misread answer to `Doubt`, which only
ends the agreement of lens and memory; every other step is a stutter. `Remember` may claim
that lens and memory agree only when they do, which is `SyncedBeliefAccurate` of the
next state, and a mode is never mistaken for "nothing stored" because of
`SettingAssumption`.

`PrivacyTrapProofs` proves for any number of re-asserts and for any delays with
`MaxTransition <= Delay` and `MaxTravel + MaxTransition <= Window`, which is what the
code's constants were chosen for (`TimingAssumption`):

* `EveryClickLands`, `PrivacyHolds`, `ExitIsIntent`. A write the firmware drops is made
  inside the window, and then a re-assert is on its way (`ClickIsCovered`). That the
  window is open while writes are dropped is `WindowCovers`; that the transition is over
  when a re-assert looks at the belief is `TransitionEnds`; that the way through idle
  has cleared the poison is `BounceCures`. `BeliefTrails` and `WritersAreCurrent` say that
  the belief is the intent or the idle of a bounce, and that whoever is past its look at
  the belief writes one of the two; `BounceIsBrief` and `DrainedStays` give the exit.
  The excuses of the properties are in the parts: a re-assert that failed, a command after
  the drain (`excused`), a re-assert that was overtaken while it waited (`overtaken`), a
  command that reached the camera and reported an error (`disowned`). The last two are all
  that `PrivacyHolds` allows for (`PrivacyAtOnce`).
  These proofs show that the two inequalities on the delays are all the timing needed.

`PanelProofs` proves for any number of pages, publishers and any buffer, and for any
releases and builds:

* `TypeCorrect`: no channel holds more than its buffer.
* `DroppingLosesNothing`: a waiting page no wake-up or broadcast in flight will
  reach shows the last change that was broadcast, or a later state. `IInv` adds that a
  served page is subscribed, that only sending publishers have targets and that what was
  announced has happened (`AnnouncedHasHappened`).
* `CheckerIsAPublisher`: `PanelSpec => Spec`, every step of the composed panel is one of
  `Broadcaster` or a stutter, so `Broadcaster`'s theorems hold of it. `CheckerPhase` says
  that the checker's own steps leave its publisher idle until the verdict is announced.
* `TheVerdictIsRight`: the lemmas `FirstDifferenceCounts` and `NewerIsOutdated` say that
  the code's comparison by the first number that differs is the lexicographic order, with
  a final release above its pre-releases; `InHand` carries a release and its comparison
  from `Fetch` over `Compare` to `SetVerdict`.
* `SilenceLosesNothing`: a repeated verdict is not announced, and no page misses
  anything, since a page that shows the current version shows the current verdict
  (`NoticeFollows`).

`HidExchangeProofs` proves for any number of goroutines, any number of late answers and
any payloads the camera may answer with:

* `TypeCorrect`: through every parser and store.
* `AnswersAreNotMixed`: who has the node open holds `hidMu` (`AskerHolds`), so one
  goroutine at most waits, and an answer that is not late has somebody who waits for it
  (`AnswersAreAwaited`).
* `V2ReadingsAreOwn`: that a V2 parser takes answers to its own command alone follows
  from its comparison of the echo. That the level in the power cache is one the battery
  had needs more (`PowerInv`): every answer of the battery under way is such a level
  (`BatterySpeaks`), and of the two values of a power reading the first is the
  battery's (`BatteryFirst`).

`StreamsProofs` proves for any number of viewers, any well-formed pictures (`WellFormed`:
SOI, EOI, and after an FF in between none of FF, D8 and D9, as in the pictures ffmpeg's
MJPEG encoder writes), any noise without D8, any buffer and any scan limit:

* `OnlyWholePictures`. `ScanFollows` is a fact about bytes that is local: wherever FF D8
  stands in what the scanner holds and what is still in the pipe, a picture stands
  there, whole as long as ffmpeg lives, possibly cut by its last byte afterwards.
  Reading moves a byte from the one to the other, and a scan that starts again has no
  memory, so nothing need be said of how the pipe is made up of pictures.
* `OneFfmpeg`: `PlaceIsHeld` says that a handler has the place from the request to the
  release, and that a process lives from its launch to the end of the wait.
* `TypeCorrect` with `BufferIsBounded`: the buffer exceeds its limit by two bytes at most,
  because it is looked at before a byte and not between FF and the next.

`CliSocketProofs` proves for any number of connections and any ceiling:

* `CommandsRunAtMostOnce`: a connection is in one place at a time, with its client
  (`UndialledIsUnseen`), in the backlog, once (`BacklogIsFresh`), or being served, and
  its command runs between being read and being answered (`ServedRunsOnce`).
* `StormsAreReported`: below the ceiling every failure in a row was counted
  (`StormIsCounted`), and a mark goes only with an accepted connection or the process.

`AutoManageProofs` proves for any number of programs and any debounce:

* `TypeCorrect`, `PrivacyOutlivesLooks` (`VetoStands`), `OnlyRealCalls`
  (`CallsAreReal`) and `AutoModeIsRespected` (`AutoModeRespected`). `IInv` adds what a
  look can be trusted for (`LookIsHonest`: a program that held the camera since
  the look began and could be read has not been passed over, so a look that found nobody
  leaves nobody it could read who sat through it), that the counters never exceed the runs of looks
  they stand for (`CountsAreEarned`), that a pending transition has a full run
  behind it (`VerdictIsEarned`), and that a transition finds no veto left, since a full
  run of quiet looks has emptied it (`VetoHolds`).

`PtzMovesProofs` proves for any number of clients, axes, places, slots and names:

* `TypeCorrect`: with `Room`, that a name is added only while there is room
  (`WriteTakes`, from the library's facts on finite sets).
* `MutexesNest` (`LocksNest`): `Holders` says that a goroutine has a mutex exactly
  at the steps that need it, from `Shape`, which says what may be done at a step.
* `RecallsAreWhole` (`LoadIsWhole`): `Whole` says that the axes a recall has sent are
  where it sent them; only a mover that holds `v4l2Mu` sends others (`OneMover`).
* `PresetsAreTheUsers` (`OnlyUsersChangePresets`) and `PresetsReachFile`
  (`PresetsSaved`), from the list of steps that change the collection
  (`PresetSteps`).

**Only model-checked:** the liveness properties, which need `ENABLED` and are out of the
prover's reach: `HidMuReleased` and `VideoNoticed` (`PixyDaemon`), `PageCatchesUp`
(`Broadcaster`), `CallNoticed` and `ReleaseNoticed` (`AutoManage`), `JobsEnd`
(`HidExchange`), `FirstFrameIsBounded` and `LeaverFreesStream` (`Streams`),
`EveryoneIsServed` (`CliSocket`) and `NewestIsNoticed` (`Panel`). The refutations of
section 6 are runs, or TLC's, by their nature.

## 6. Disagreements found

Two have a run that TLC refutes and an entry under `findings`:

* **`ModeReapplied`** (`mode_reapplied`): the README's "survives replugs and power
  cycles" needs the uevent branch to see the camera appear; if a probe command or a
  failing write saw it first, nobody reconciles.
* **`NoStaleSnapshot`** (`stale_frame`): a picture in ffmpeg's pipe or in the handler's
  hands is stored after the probe that found the camera gone has cleared the last
  frame, and stays there until the next stream (stream.go:291, against cache.go:35-36).

The following are defined in their modules with the line they come from; TLC refutes
each as an `INVARIANT` or `PROPERTY` of the module's configuration, under `Spec`:

* **`ReconcileNotFatal`** (`PixyDaemon`): a probe during a reconcile can take the
  handle away; the next query dereferences nil and ends the process, though
  device.go:414-415 says nothing there is fatal.
* **`NobodyKeepsHidMu`** (`PixyDaemon`): handleCommand unlocks `hidMu` after the command and
  not in a `defer` (commands.go:79-81). If the command's broadcast sends to a page that has
  just gone, it panics, `net/http` recovers, and the mutex stays locked: ticks, events and
  mode commands wait for ever.
* **`FanOutIsSafe`** (`Broadcaster`): a broadcast can send on a channel that was
  closed since the snapshot (sse.go:64, against its lines 11-13).
* **`WaitingShowsAll`** (`Broadcaster`): a waiting page may be stale, because some changes
  are not broadcast: the error of a failed tick that the next one clears (auto.go:178-182),
  marks of degradation (degraded.go:41-71), the time of a sync that found no change
  (device.go:350-362).
* **`ReassertIsCurrent`** (`PrivacyTrap`): a re-assert compares the belief before it
  waits for `hidMu`, so it can write an outdated mode over a newer one
  (privacy_trap.go:77, against 56-59).
* **`SlotHoldsPreset`** (`PtzMoves`): a push moves the head and stores where the head
  is, under `hidMu` alone. A move under `v4l2Mu` can come in between, and the slot keeps
  that place (commands.go:632, against 630-631).
* **`FailureChangesNothing`** (`PrivacyTrap`): a tracking command whose commit report is
  carried out and reports an error (device.go:48-60, hid.go:130-135) opens the lens, while
  the daemon still believes in privacy and says that the command failed.
* **`CallNoticedAnyway`** (`AutoManage`): what a look cannot read passes for no call
  (process.go:74-77, 105-122). A program it can never read is never noticed, and a run of
  failing looks ends a call that goes on.
* **`LensShutAfterCall`** (`AutoManage`): README.md:57 promises "a guaranteed physical
  lens block whenever no call is active". A privacy write that fails at the end of a
  call is not tried again, because `InCall` is already false; the next tick clears
  the error, and the notification (auto.go:85) has claimed success.
* **`SettingsAsReported`** (`HidExchange`): `parseHIDResponse` goes by the report's own
  interface byte, so a report of another interface that comes late is accepted with
  `Got` set, and the asked setting gets its default. The response's own comment
  (device.go:290-292) names the danger and relies on `hidMu`, which does not keep late
  answers away.
* **`PulledIsOfItsSlot`** (`HidExchange`): a sweep compares the echoed head and not the
  slot of a reading (commands.go:825-862), so slot 1's late answer is stored as `hw-2`.
* **`PlaceComesFree`** (`Streams`): an ffmpeg that outlives the shutdown timeout is waited
  for twice at a time (stream.go:95-113). The context's watcher reports its end to one wait;
  if that is the goroutine's, the handler waits for ever and keeps the only place.
* **`HealthyAcceptClears`** (`CliSocket`): the failure count is reset at the ceiling, so
  after a storm of exactly a multiple of it the next healthy accept sees no failures
  and does not clear the mark, against socket.go:68-70. The test
  (degraded_test.go:157-158) uses two more than the ceiling.

Observed while modelling, without a run of their own: FEATURES.md:147 promises a
re-scan after three consecutive failures, and the code re-scans after each failure but
the third (circuitbreaker.go:36-43, as DESIGN.md:111 says); a preset that moves the head
into the trap zone does not arm the protection, so a click before the readback is
dropped for good (commands.go:561); a push racing a recall mixes their axes; a pull whose
camera goes away leaves the presets it added unsaved and unannounced
(commands.go:828-830); a push takes slot and position before it waits for `hidMu`
(commands.go:605-628); SIGHUP on a fresh install
saves the defaults, which then count as persisted intent; a SIGTERM between
commit and mutator saves the previous mode; `parseUevent` splits a message at newlines
(uevent.go:28), whereas the kernel separates the fields of a uevent with NUL, and a message
that is not recognised is lost, so that only the tick finds the camera (`NodeEvent`
and `VideoNoticed` allow for that); a hidraw node that appears alone before the netlink socket is
bound is never noticed (the tick re-probes only while the *video* node is
missing); a poison left by a click on tracking that was followed by privacy
outlives the window; a re-assert whose second write fails leaves `idle` saved;
`InCall` stays true while auto mode is off, if it was switched off during a call;
a restart during a call starts the call again and opens a lens the user had shut;
an auto command during a transition does not stop it (FEATURES.md:54 "Disables all
automatic actions"); a failed `v4l2-ctl` read yields zeros that become the base of a
relative move (ptz.go:109-146), a saved preset (commands.go:504) or the cache; an
answer about a slot that gives the mode alone, padded to a report's length, reads as
an empty slot; a power reading stored after the cache was invalidated stays for up to
a minute; after the first frame neither a hanging ffmpeg nor a client that stops
reading has a timeout, so the stream's place is held until that client leaves; a
CLI client gives up after two seconds while its command is queued, and the command
runs later all the same; cancelling the context does not close the listener by itself
(socket.go:71-86).

## 7. Not modelled, and the plan

Left out for good: HTML templates, formatting, logging, metrics, Waybar output, the
warning limiter, error families, sysfs name matching, and the parsing and validation
of domain types and flags. They hold no state that what is modelled depends on.

Left out of modelled parts, and why:

* the PTZ cache and its delayed readback (ptz.go:241): a stored reading lives two
  seconds and nothing orders the stores, so the code promises nothing to check;
* `TTL` caches keep no clock: an entry of the power cache may expire at any time;
* payloads of set reports in the V2 dialect: `PtzMoves` and `PixyDaemon` send them
  as a setting;
* the daemon's own children: `AutoManage` takes it for granted that a look tells them from
  other programs (`isDescendantOf`, whose read of a process's `stat` may fail too);
* HTTP headers, the answers' wording, and the cut of a command at 256 bytes and of a
  response at 4096.

Next:

1. The hazards without a property of their own: a position read back late (ptz.go:241)
   and a preset that moves the head into the trap zone (commands.go:561) would need
   `PtzMoves` and `PrivacyTrap` on one head.
2. Theorems across modules: that `HidExchange`'s jobs are the queries of `PixyDaemon`'s
   owner.
