# Dragon Daemon in TLA+

A verification development of the daemon in `src/`: TLA+ modules of its parts,
TLC runs over small instances, and TLAPS proofs for every value of the
constants. Paths below are relative to `src/`.

## The system

The daemon connects to IP cameras, records what they show while their weekly
schedule says "on", cuts the footage into clips and writes the clips to disk.

| Part | State it keeps | Operations | Talks to |
|---|---|---|---|
| camera pipeline, `pkg/dragon/process` | frames and clips channels, clip in progress, on/off flags, cancellations | Setup, Start, Stop, Wait; four goroutines | broadcaster, camera, writer, schedule |
| broadcaster, `pkg/broadcast` | mutex, listeners by id, closed | Send, Listen, Close, Listener.Close | monitor sends; stream and generator listen |
| server, `pkg/dragon/server*.go` | tracked cameras, processes, mutex | Connect, SetupProcesses, RunProcesses, Shutdown | startup goroutine, main goroutine |
| schedule, `pkg/config/schedule` | week stamped with dates, TODAY | NewSchedule, IsOn | asked by the monitor every second |
| clips, `pkg/video/videoclip`, `videobackend` | clip, files | AppendFrame, FileName, Write | generator, persister |
| delete process, `delete_clips_process.go` | time of the last run | delete | the files of the clips |
| camera connection, `pkg/camera`, `videobackend` | two nested mutexes, flags, capture | Read, IsOpen, Close | stream goroutine, Shutdown |
| configuration, `internal/config`, `pkg/configdef` | `config.json` | Create, Resolve, validate | server |
| database, `pkg/database` | `dd.db`, root user | Setup, Destroy | command line |
| runtime statistics, `server_processes.go` | one generic process (`process.go`) | set up, run, stop | server |
| JWT, user look-ups, logging, RPC data, `xis` | - | - | not modelled, see below |

What makes it hard: one camera has four goroutines joined by two bounded
channels and a broadcaster that sends synchronously while it holds a mutex;
stopping runs through the consumers before the producers; startup and shutdown
run in different goroutines and share the process map without a lock; cameras
are closed while the stream goroutine may still read them; a daemon runs past
midnight, and dates its UTC entries by the local day; setup leaves files behind when it fails half-way.

What must hold, part by part:

- pipeline: no frame or clip is duplicated, reordered or unaccounted for;
  channels stay within capacity; off means no frames; Stop ends, and then
  nothing moves;
- broadcaster: everybody hears the same log, joined at some point;
- connection: the capture bears one call at a time and is released once; to
  its users it is a camera whose calls are atomic;
- server: every camera is answered for; the cameras are closed together, after
  every Stop has returned (not after the goroutines have ended: nobody waits
  for those);
- schedule: the last switch that has passed decides;
- clips: what was saved stays while it is young, and only a short clip can lose
  its file to the next;
- configuration: what is loaded is the file with the missing formats filled in,
  and describes clips that can be made;
- database: at most one root user, and one after a successful setup.

`PROJECT.json` lists the hazards line by line.

## Modules

| Module | Models | Abstract specification or use |
|---|---|---|
| `CameraPipeline` | `core.go`, `process.go`, `stream_conn_process.go`, `generate_clip_process.go`, `persist_clips_process.go`, the pipeline's use of the broadcaster and the end of the program | implements `ClipRecorder` |
| `CameraPipelineProofs` | theorems about it | |
| `ClipRecorder` | one queue of frames from the camera to clips on disk | abstract |
| `CameraConnection`, `CameraConnectionProofs` | `connect.go` of `pkg/camera`, the connections of `opencv_backend.go` and `mock_video_backend.go` | implements `Camera` |
| `Camera` | a camera whose calls take effect at once, as `CameraPipeline` uses it | abstract |
| `Broadcast`, `BroadcastProofs` | `broadcast.go` in general: any senders, listeners and capacity | implements `BroadcastLog` |
| `BroadcastLog` | one log, listeners that join, leave and read on | abstract |
| `ServerLifecycle`, `ServerLifecycleProofs` | `server.go`, `server_processes.go`, `startupServer`, the signal | a camera's Start and Stop are single steps, detailed in `CameraPipeline` |
| `Process` | the generic `process.go` around a function that loops until cancelled | instantiated by `ServerLifecycle` as the statistics process |
| `Schedule`, `ScheduleProofs` | `schedule.go` and the clock | `LastSwitchIsOn` is the reference definition |
| `ClipStore`, `ClipStoreProofs` | clip names, the writer, the delete process | consumes what `CameraPipeline` calls a written clip |
| `ConfigLoad`, `ConfigLoadProofs` | `load.go`, `configdef.go` | establishes the constants' assumptions of the others |
| `DatabaseSetup`, `DatabaseSetupProofs` | `db.go`, `create.go`, the setup commands of `main.go` | |

Actions carry the names of the functions or of the step inside one. A goroutine
is a program counter; each action is what the goroutine does between two points
where another goroutine can be noticed: a channel operation, a mutex, a select.
A critical section that cannot block is one action. Definitions marked
`\* mutant` are plausible bugs in the definition right below them; no
behaviour uses them. They serve to show that every property can fail.

### CameraPipeline

The monitor asks the schedule at every tick and sends an event when the answer
changes (`MonitorTick`). Send takes the mutex (`SendLock`) and hands the event
to the two listeners in turn (`SendNext`); each handover is a rendezvous with
the stream goroutine (`StreamReceive`) or the generator (`GenerateReceive`).
The stream goroutine polls its cancellation and its listener, reads a frame and
either queues or closes it (`StreamRead`, `StreamSend`). The generator builds a
clip until a frame beyond the last arrives or OFF comes (`GenerateFrame`), and
blocks until the clips channel has room (`GeneratePut`). The persister polls,
takes and writes (`PersistTake`, `PersistWrite`). `Shutdown` runs `Stop`: it
cancels the monitor if the monitor's goroutine has got as far as to set its
canceller, then stops persister, generator and stream, and a waiter closes the
returned channel. `CloseCamera` and `Exit` are what the server does after that.
The schedule is arbitrary here: any answer at any tick. The backend is OpenCV's.

`IsARecorder` maps the state to a `ClipRecorder`: what is in flight is, in this
order, the clip being written, the clips channel, the clip in progress, the
frames channel and the frame the stream goroutine holds. A frame lost anywhere
is a Drop, so the specification leaves open which frames are lost, but not
their order, the size of a clip, or that nothing moves after the end. The frame
that reveals a full clip is one of them: the generator has received it and
makes no use of it. It is counted in `lost["swallowed"]`.

### CameraConnection

A call locks the outer mutex, then the inner one (`LockInner`), enters the
capture and leaves it, and unlocks both (`Return`). OpenCV's Close holds the
inner mutex for its flag only (`MarkClosed`) and releases the capture outside
it; `IsOpen` looks at the flag, `Read` does not. The mock connection has no
mutex, is open after its Close, and still reads. The capture is external: it
can lose its stream at any moment. Calling it after its release is undefined
(gocv passes a null pointer on): it answers no, or the program goes down. The
history variable `touches` counts such calls.

### ServerLifecycle

One goroutine per camera connects, with another one behind it that opens the
capture and may never return. The mutex is held while results are received.
The write of the process map while Shutdown ranges over it is a data race:
the model lets the runtime abort, or the range see or miss the new entry. The
flag and interface of the statistics process are written and read without a
lock too (`StopStatistics`). A camera's Stop may hang (`StopHangs`), as
`CameraPipeline` shows it can.

Stop and Wait do not wait for a process: `process.go:77` and `core.go:78` to 80
drop the channel they should receive from, and shutdownProcesses calls just
these two (`server_processes.go:105` to 108). `StopReturns` therefore leaves a
process that ran "cancelled", and its goroutines end some time later
(`WorkersEnd`), before or after its camera is closed. `OrderlyShutdown` is what
is left of the order: all Stops have returned before any camera is closed.
`signalAt` remembers how far the startup was when the signal came (`Progress`).
A signal before the end of SetupProcesses may abort the program, so
`OrderlyShutdown` speaks of signals from then on, which includes those that
come before or while RunProcesses starts what shutdown is stopping.

### Schedule

An instant counts ticks; a day has `DayLen`, a week `WeekLen` days. Entries are
stamped with the dates of the week that ends on TODAY, the day of the start.
`Restart` is the only action that renews TODAY. Instants and entries are in
UTC, as JSON entries are parsed; TODAY and its weekday are those of a local
zone that is `offset` ahead of it. The properties read the entries in UTC: what
the code does not do is to read them in local time. The key
`everyday` is parsed and ignored by the code, and not modelled.

### Broadcast

The iteration of a Go map has any order: `SendNext` picks an id. `Quit` is a
listener whose goroutine stops receiving, as cancelled goroutines of the
pipeline do. History variables `log`, `from`, `until` and `got` are those of
`BroadcastLog`; the refinement mapping only computes `member`. `ListenerClose`
removes whichever listener has the id by then, which need not be the one that
is closed when it is closed a second time: `KeptUntilClosed` says that this is
the only way to lose a registration.

### ClipStore

A clip is stamped when it is begun. Its file is the second, its directory the
day. At most `MaxRate` frames reach makeClip in a second, those it finds queued
included. `Remove` may fail half-way. Frames still queued at a switch are left
to `CameraPipeline`.

`VideoWriterFile` of gocv gives no error for a file it cannot open, its `Write`
returns nil for every frame, and the code never asks `IsOpened`
(`opencv_backend.go:75` to 83, 113 to 126). So `opened` is a fact about the
writer that nothing in the code depends on: without it Write goes through all
frames and returns nil all the same. Where OpenCV or the disk is the cause the
clip is in the history variable `failed`, and `SavedClipsKept` excepts it. The
delete process is no such excuse: a directory removed between MkdirAll and the
file must not cost a young clip.

Names are local time; the delete process parses the name of a directory as a
day in UTC (`clip.go:79`, `delete_clips_process.go:58` and 82). `Behind` is how
many seconds local time is behind UTC, and `Old` compares across it. The
properties promise what is left of `max_clip_age_days` then (`SafeTime`): a day
less, because a directory goes by its midnight, and the offset less west of UTC.
The clocks that are compared are finer than the model's seconds, so `<=` in
`Old` stands for Before, and a run may begin at the very instant the interval
ends. The offset is constant: summer time is not modelled.

### ConfigLoad and DatabaseSetup

A camera of `ConfigLoad` has its validated fields only. load makes sure that
titles differ, but not that directories do: `connect.go:78` joins location and
title with a "/", which two cameras can share ("a/b" below "clips", "b" below
"clips/a"). No property speaks of directories. A step of `DatabaseSetup` on
disk may fail, the path of the database may not be found (`StatDB`), a prompt
may be aborted, the process may be killed at any step (`Kill`); files survive.
`Migrate` succeeds or fails; the wrapper hands its variadic slice on as one
argument (`gorm_wrapper.go:30`), which gorm, outside this repository, may well
refuse every time. The model then has more behaviours than the program. An insertion that fails looks like one that succeeded,
because the gorm wrapper drops its result (`gorm_wrapper.go:33`). Passwords are
compared, not hashed. One command runs
at a time.

## Runs

All runs state `CHECK_DEADLOCK FALSE`: the program exits, a command ends, the
clocks and counters are bounded, and one hang is real (`pipeline_hang`).

| Run | Shows |
|---|---|
| `pipeline_safety` | the pipeline is a `ClipRecorder` (order, sizes of clips, nothing after the end); accounting, on/off and quiet after Stop, with both channels full at times, failing writes and a camera that drops |
| `pipeline_live` | events are delivered and clips persisted until a shutdown begins; then Stop returns and cancelled goroutines end, outside the named blocking situations |
| `server` | two cameras, any subset disabled, with and without statistics, a signal at any moment: answers; from SetupProcesses on no abort, and no camera closed before every Stop has returned; all cameras closed or none; Shutdown returns and the statistics process ends |
| `connection` | two pollers and a closer over either backend: a `Camera`; one call of the capture at a time, none after the first that finds it released; every call returns |
| `schedule_rules` | every week of three days with three ticks, every start, zones from a tick behind UTC to a tick ahead |
| `broadcast` | two senders, two listeners each closed up to twice, unbuffered (as the program uses it) and buffered: refines the log, Send returns, the end reaches every reader |
| `clips` | writes that fail with and without a word, a delete process beside the writer, a zone west of UTC: saved clips are on disk while young, no young file is deleted, only short clips lose their file to another |
| `config` | every configuration of up to three cameras: load fills in the missing formats and changes nothing else |
| `setup` | three commands with failures and kills, each of which ends |

Runs that end in a violation, each a disagreement with a quoted line
(`PROJECT.json`, findings):

- `pipeline_hang`: Stop can hang on the broadcaster's mutex;
- `schedule_midnight`: after midnight IsOn answers from the day of the start;
- `setup_root`: a setup that broke off makes the next one report success
  without a root user.

The models also behave as the code does in these corners. The properties are
stated so as to make room for them, and no run states the opposite:

- frames queued before an OFF begin a clip that the next on period completes,
  and that clip carries the time of the switch (`generate_clip_process.go:68`);
- `process.Wait` drops the channel it should wait on, so Stop does not wait for
  the monitor and cameras are closed under a reading stream (`process.go:77`,
  `core.go:79`); `QuietWhenStopDone` is about footage only;
- a camera tracked after an early Shutdown stays open: `AllClosedOrNone`;
- before the first entry of the day of the start IsOn ignores the Off of an
  earlier day: `FollowedOnFirstDay` asks for an entry that has passed;
- an id of `Broadcaster` is used again, so a second `Listener.Close` removes
  another listener (the program closes each once): `KeptUntilClosed`;
- a Read may touch a capture that is released: `ReleasedTouchedOnce`;
- one camera's Stop that hangs keeps all cameras open: `ShutdownEnds`;
- consecutive clips are not contiguous: between two of them the frame is lost
  that revealed the first to be full (`generate_clip_process.go:87`);
- two clips of one second share a file: `SharedFilesAreShort` bounds the loss;
- Write returns nil with nothing on disk: `failed` in `SavedClipsKept`;
- a clip is deleted up to a day before it is `max_clip_age_days` old, and earlier
  west of UTC, with a maximum of one day on the day it is made: `SafeTime`;
- distinct titles are not distinct directories (`connect.go:78`);
- defaultPersistLocToDot sets the location of copies of the cameras
  (`configdef.go:54`), so a missing location fails the validation instead of
  getting its default: `DefaultPersistLoc`;
- an empty `config.json` counts as existing, and a removal that fails is
  reported as done;
- the example in `README.md:9` has no `max_clip_age_days`, which is required.

### Bounds, and why they are enough

- pipeline: capacity 1 for both channels makes "full" and "empty" adjacent and
  reaches every blocking; clips of two frames have a first and a last; three
  frames fill one clip and reach the frame lost after it. The program has
  capacity 3: the proofs cover every capacity. The liveness run uses one frame
  in all: every program counter still reaches every value.
- server: two cameras are the smallest number with two connectors racing, one
  process stopped while another starts, and one camera left out.
- schedule: three days of three ticks have an empty day, a day before and a day
  after the deciding one, and a tick before, between and after two entries.
- broadcast: two listeners, two senders and three messages give every order of
  two concurrent Sends, a sender's second message after another's, and a
  listener that joins between them; two closes of each listener reach the reuse
  of an id.
- connection: one poller more than the program has, so that pollers contend
  with each other as well as with the closer. Each reads any number of times.
- clips: two clips, one on disk or being written while the other is made, in
  the same second, on the same day or on another; days of two ticks, a maximum
  age of two days and a zone half a day behind UTC leave a clip young for one
  tick, and the directory becomes old well before the clock stops.
- configuration: three cameras are three goroutines, or two and a camera that
  needs none.
- setup: three commands are a broken one, a removal and one more.

### Fairness

- Goroutines that are not blocked run: weak fairness of each.
- A select takes a random one of its ready cases, so a case that is ready again
  and again is taken in the end: strong fairness of the generator's receive and
  abandon cases, and of the cancellation cases of stream and monitor. The
  generator's frames case and the monitor's tick compete with them for ever.
- A goroutine that waits for the connection's mutex gets it in the end, however
  often pollers lock it: strong fairness of the lock, which is Go's starvation
  mode (a waiter of a millisecond is handed the mutex). Calls of the capture
  are assumed to return.
- Nothing else is assumed of the environment: a signal, a switch, a capture that
  opens, a failing disk or a reader that stays may or may not happen.
- In `DatabaseSetup` a prompt is answered or aborted in the end, anyhow.

## Proofs

`CameraPipelineProofs` proves for all capacities and clip lengths: `TypeCorrect`
(types, and both channels within capacity), `StreamFollows`, `SendHarmless`,
`NoFramesWhenOff` and `QuietAfterStop`. These are not inductive. Their
inductive invariant has three parts. `ControlOK` types the program counters and
variables. `ShutInv` says which goroutines are cancelled or gone at each step
of Stop. `FollowInv` relates the monitor's last announcement, the event in
flight and the listeners yet to be served to the stream's flag: without the
event in flight the flag may lag, so the flag alone proves nothing. Each is
preserved by every action (one step per action), and the type invariant is
split into control and data because few actions touch both.

`AllFramesAccountedFor` needs to know where frames are: `PlaceInv` maps each of
ten places (disk, persister, clips channel, clip in progress, frames channel,
the stream's hand, and the four causes of loss) to its frames, and says that the
frames read so far are divided among them. A step takes frames from one place
to another (`Moves`), which keeps the division (`Moved`); what remains per
action is which frames of a sequence move, and so that a sequence holds each
frame once (`NoRepeats`, `Apart`).

`ImplementsRecorder` is the refinement to `ClipRecorder`, step by step:
`StreamRecords`, `GenerateRecords` and `PersistRecords` show that each action of
a goroutine is a Capture, a Record, a Drop or no step of one queue. The queue
contains the clips channel flattened, a recursive function; `FlatIs`,
`FlattenAppend` and `FlattenTail` say what it does with a clip that is appended
or taken. They are proved by induction up to the length of the channel, from
the least counterexample (`UpTo`). A handover is a stutter because
concatenation is associative; a loss is a Drop because of `Cut`, what SubSeq
makes of a concatenation, and `ShortInv`, that no clip is longer than
`FramesPerClip`.

`BroadcastProofs` proves, for any number of senders, listeners and messages and
any capacity, `TypeCorrect`, `Kept`, `AllHeard` and `Implements`. `IdsInv` says
that ids are given out from the highest one on, which is why Listen always finds
a free one and why an id in use belongs to one listener. `HeardInv` is stronger
than `EveryListenerHearsAll`: also during a Send, what a listener has read and
has waiting is the log from where it joined to the message before the current
one or to the current one, depending on whether the Send has still to serve it
(`Sent`); and after it has left, to where it left. In the refinement a Send
takes effect when it locks the mutex; handing over is a stutter.

`ClipStoreProofs` proves `TypeCorrect`, `SavedStay`, `SharedStayShort` and
`YoungStay` for every length of a day, zone, clip length, queue and interval.
That a saved clip is truncated by a later one at most rests on `OrderInv`: clips
are finished, queued, written and saved in the order in which they were begun,
so whoever opens an existing file is later than its clip. `WriteInv` follows
one Write: the directory of a young clip is there when its file is opened
(`DirKept`), the frames in the file and those yet to be written are the clip
unless some were lost (`FileGrows`), and a young clip's writer can be without a
file only where OpenCV or the disk has failed (`FileKept`). That the delete
process is never the cause, at whatever step it comes between, is the
arithmetic of days and zone (`OldMeansOld`), from which `YoungStay` follows too.
`StampInv` says that clips are begun in turn and that one begun in this second
has only frames of this second, which is why shared files are short.

`ScheduleProofs` proves, for every length of day and week, that a day's verdict
is the last-switch rule over the day (`DayVerdict`) and that on the day of the
start, once an entry has passed, IsOn follows the whole week (`FirstDay`), for
every offset of the zone: an
entry that has passed today is later than all entries of earlier days. On any
day, `DayDecides` and `ChangesAtEntries` say that one day rules, and that the
answer changes at its entries only. They rest on the existence of that day,
the least element of a set of naturals (`Least`).

`DatabaseSetupProofs` proves `OneRoot`, `Confirmed` and `Kept` for any number
of commands. The invariant adds what a setup past createFile knows: the file
is its own and has no user; and that the pairs typed are one more than the
failed attempts while the second prompt is open.

`CameraConnectionProofs` proves, for any set of pollers, `OneCall`, `Agree` and
`TouchedOnce`, and that the connection implements `Camera` (`Implements`). Its
invariant says who holds which mutex at each program counter, which makes calls
exclusive, and what a goroutine past the check of the flag may still rely on.
In the refinement a call takes effect when it leaves the capture or finds the
flag set; every other step is a stutter.

`ServerLifecycleProofs` proves all four safety properties for any number of
cameras. `StartInv` follows each connector from spawned to done and says what
is settled about its camera at each point, and who holds the mutex when: that
`cameras` does not grow while they are closed rests on the mutex alone.
`EndInv` is about the processes: `ToldInv` says when a process can have been
told to end, and that it takes a signal before the end of RunProcesses to leave
an orphan; `ShutdownInv`, that once all processes are set up their set is
fixed, so after a later signal (`Late`) the WaitGroup holds exactly the
processes yet to be stopped (`CountDown`) and never goes below zero, also while
they are still being started. After an earlier signal none of that holds, and
`OrderlyShutdown` does not claim it.

`ConfigLoadProofs` proves `Filling` and `Possible` for files of any number of
cameras. The checks are made before the formats are filled in, so the invariant
carries them over: filling leaves the limits alone.

Assumptions: those named in the modules, on the constants only. TLC evaluates
them in each run.

Every safety invariant, action property and refinement that a run checks is
also a theorem. Model-checked only: liveness (`EventsDelivered`,
`ClipsPersisted`, `ShutdownReturnsUnlessStuck`, `CancelledWorkersEnd`,
`ShutdownEnds`, `StatisticsEnd`, `SendReturnsUnlessDeserted`,
`EndReachesReaders`, `CommandEnds`, `CallsReturn`), because fairness and ENABLED
are out of the prover's reach; and the violations, which are behaviours of
a small instance.

## Not modelled

- JWT, user look-ups, `xis`, RPC data: pure, or called by nothing.
- What the mock backend draws, and other test doubles.
- install, start, stop and status: forwarded to a library.
- The figures the statistics process logs.
- OpenCV's matrices, codecs and network; JSON and date parsing.
- Concurrent setup commands: what SQLite makes of a file that another process
  truncates is not in this repository.
- The Mat of a frame that could not be read (`connect.go:62`): `Read` drops it
  without closing it, and whether its memory comes back is gocv's finalizers'
  matter.
- `CameraPipeline` as an instance of `Broadcast`: `Broadcast` keeps the log of
  all messages, which an unbounded pipeline would make infinite; the pipeline
  has the two-listener, unbuffered case inlined.

## Plan

Done: the core in the order pipeline, schedule, server, broadcaster, setup,
clips, configuration; then the connection, the abstract recorder and camera, the
statistics process, the zone of the schedule, and the second close of a
listener; then the proofs about the connection, the server, the
configuration and the rest of the schedule; then those about where frames are,
the refinement to `ClipRecorder`, the broadcaster and its refinement, and the
clips on disk. What is left:

1. An abstract specification of the clips on disk, one that knows neither queue
   nor writer, and the refinement to it.
2. Safety facts that the liveness of `CameraPipeline` rests on, as invariants:
   who can be blocked on whom at each step of Stop.
