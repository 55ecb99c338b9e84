# Formal models of openpilot's tools and car interface

This directory holds TLA+ models of parts of the repository beside it, the TLC
configurations that check them on small instances, and theorems about them with
proofs checked by TLAPS. Paths below are relative to the repository's root.

The repository is the part of openpilot that lives in `tools/` (the log player
`replay`, the CAN analyser `cabana`, the Python log library, the simulator
bridge) and in `selfdrive/car/` (what a car is, how it is recognised, what is
sent to it). The other daemons (`controlsd`, `pandad`, `manager`), `cereal`,
`panda` and `opendbc` are not in it; where a model needs one of them it models
only the side the code here relies on, and marks it external.

    tlc  -workers 2 -config ReplaySafety.cfg MCReplay.tla     # check a run
    tlapm ReplayProofs.tla                                    # check a proof

`PROJECT.json` lists the components, the runs with their properties, for each
property a mutation of the model that violates it, the source lines behind
every definition, the disagreements found, the hazards and the theorems.


## 1. Inventory

### 1.1 What is modelled

**replay, the player** (`tools/replay/replay.cc`).
State: `segments_` (a map from number to `Segment`), `merged_segments_` with
`events_`, the cursor `cur_mono_time_`/`current_segment_`/`seeking_to_`, and the
flags `paused_`, `user_paused_`, `events_ready_`, `exit_` under `stream_lock_`.
Operations: `start`, `seekTo`, `pause`, `stop`; the slots `segmentLoadFinished`
and the queued `updateSegmentsCache`; the stream thread's `streamThread` and
`publishEvents`. Three kinds of threads share the object: the Qt main thread,
the stream thread and the loader workers. What is hard: merged events point into
logs that the main thread frees; a condition variable whose predicate is changed
partly outside the lock; seeks, pauses, failed loads and merges that arrive while
another one is half done; calls that are posted and run later. It is correct when
nothing dangling is read, events come out in order, a pause is a pause, memory is
bounded, and seeks and playback end.

**replay, segment loading** (`route.cc`, `filereader.cc`, `framereader.cc`,
`logreader.cc`). State: `loading_`, `abort_`, the workers, the download cache.
Operations: the constructor (one worker per file), `loadFile`, the destructor.
What is hard: the counter may touch zero before the last worker has started, a
failing file aborts the others, downloads are retried, and the owner connects
after the workers have started and destroys the segment while they run. It is
correct when `isLoaded()` is true exactly of complete segments and stays true,
and nobody is told anything after the destruction.

**replay, camera server** (`camera.cc`). State: a queue and a thread per camera,
`publishing_`, the VisionIPC server with its ring of buffers, `cached_buf`.
Operations: `pushFrame`, `waitForSent`, `cameraThread` (send and prefetch),
`startVipcServer`, the destructor. What is hard: the counter is what entitles
others to free the segments and to replace the server; buffers are reused while
the cache still names them. It is correct when nobody holds a reader or the
server when it is freed, and the picture sent is the picture asked for.

**car, steering torque** (`selfdrive/car/__init__.py`, used by `CarController`s).
State: the torque of the last frame, the request bit, the frame counter. One
operation, the frame. What is hard: sign changes, a limit that can invert, an
off-by-one in a counter, over arbitrary sequences of frames. It is correct when
the torque is bounded, ramps up slowly, yields to the driver and never trips the
fault of the steering unit.

**car, fingerprinting** (`car_helpers.py`, `fw_versions.py`, `fingerprints.py`,
`vin.py`, `ecu_addrs.py`). State: the parameters `ObdMultiplexingEnabled`,
`ObdMultiplexingChanged`, `FirmwareQueryDone` and `CarParamsCache`, the answers,
the candidate sets and the frame counter. Operations: `set_obd_multiplexing`,
the VIN query, the scan, the firmware queries ordered by brand, the match, the
CAN fingerprint, the decision. It interacts with pandad through the parameters
and with ECUs that may be silent. It is correct when every query finds the bus
wired the way it needs, when an exact match is the real car, and when startup
ends.

**car, card and its events** (`card.py`, `interfaces.py`). State:
`initialized_prev`, `CC_prev`, `CS_prev`, the messages last read, the flags
behind the steering alerts. Operations: the step at 100 Hz (`state_update`,
`state_publish`, `controls_update`), `create_common_events`. Beside it runs
controlsd, which may be slow, silent or restarted. It is correct when `CI.init`
comes once and before the first command, no command is stale, and alerts follow
what the driver did.

**car, ISO-TP queries** (`isotp_parallel_query.py`, `disable_ecu.py`). State:
buffers by address, a request counter, a deadline and a done flag per ECU.
Operations: an iteration of `get_data`, the retries of `disable_ecu`. What is
hard: ECUs that share an address, late answers, answers of several frames,
response-pending, two timeouts. It is correct when answers go where they belong,
no ECU is given up too early, and the query ends.

**car, the ports** (`body`, `chrysler`, `ford`, `gm`, `honda`, `hyundai`,
`mazda`, `nissan`, `subaru`, `tesla`, `toyota`, `volkswagen`). Each has a
`get_params` that tells variants of a car apart, a `CarState` that reads the
messages its parsers are told of, and a `CarController` that keeps counters,
timers and limiters from frame to frame and packs messages. What is hard: what
is remembered meets carControl that comes and goes, counters of the stock
messages, and combinations of flags that no test car has. A port is correct when
the bus is at rest with control off, nothing is sent that the panda would drop,
counters follow one another, timers of the steering rack do not run out, and
every message that is read is parsed.

### 1.2 What is not modelled

| component | state and operations | why not |
|---|---|---|
| `route.cc` Route, `replay.cc` timeline and `find`, `framereader.cc` decoder | ranges of engagement, shared decoders | arithmetic and FFmpeg around the parts that are modelled; possible later |
| `cabana/streams`, `cabana/dbc`, `commands.cc` | message snapshot between two threads; undo stack over shared files | Qt code with state of its own; the next candidates |
| `tools/lib` | chunk cache of remote files, GOP cache, log iteration | file and network I/O; the chunk cache is a candidate |
| `tools/sim` | queues between bridge and simulator | little shared state |
| `mock` port | a GPS speed, no commands | nothing happens in it |
| `fingerprints.py` of the ports, docs, `torque_data` | tables | data without behaviour; the models in `values.py` are in the ports by what their flags change |
| radar interfaces | tracks as floating-point data | pure translation |
| byte layout and checksums of CAN messages | pure functions over bytes | only what is requested, asked for and counted is modelled |
| Qt views and charts, ncurses console, HTTP, decompression, scripts, build | input, drawing and I/O | out of TLC's reach |


## 2. Modules

| module | models | role |
|---|---|---|
| `Replay` | `tools/replay/replay.cc` | main, stream and loader threads |
| `MCReplay` | | routes of two and four segments |
| `ReplayProofs` | | theorems about `Replay` |
| `Segment` | `route.cc` Segment with its readers | owner and workers |
| `SegmentLoad` | what `Replay` relies on | abstract specification, implemented by `Segment` |
| `SegmentProofs` | | theorems, the refinement included |
| `CameraServer`, `MCCameraServer` | `camera.cc`, `Replay::publishFrame` | caller and camera threads |
| `CameraServerProofs` | | theorems about `CameraServer` |
| `SteerTorque`, `MCSteerTorque` | `car/__init__.py` in the loops of the hyundai and toyota controllers | one action, a frame |
| `SteerTorqueProofs` | | theorems about `SteerTorque` |
| `FwMatch` | `match_fw_to_car` and below | pure operators |
| `CanFingerprint` | `can_fingerprint` | state of the CAN search, a packet |
| `Fingerprint` | `fingerprint`, `get_car`, the queries, pandad's half of the handshake | composes the two above |
| `MCFingerprint`, `FingerprintProofs` | | instance; theorems |
| `CarInterface` | `create_common_events`, `create_button_events` | pure operators |
| `Card`, `MCCard` | `card.py`, controlsd as its environment | the step in three parts |
| `CardProofs` | | theorems about `Card` |
| `IsoTpQuery`, `MCIsoTpQuery` | `isotp_parallel_query.py`, `disable_ecu.py` | a query and the job that runs it |
| `IsoTpQueryProofs` | | theorems about `IsoTpQuery` |
| `Port` | what the ports share: variables, messages, `common_fault_avoidance` | extended by each port |
| `BodyPort`, `ChryslerPort`, `FordPort`, `GmPort`, `HondaPort`, `HyundaiPort`, `MazdaPort`, `NissanPort`, `SubaruPort`, `TeslaPort`, `ToyotaPort`, `VolkswagenPort` | `selfdrive/car/<brand>` | `Params`, `Decode`, `Apply` of a port |
| `CarLoop`, `MCCarLoop` | card's loop around a port | composes the ports by `INSTANCE`, with what the bus and the driver see |
| `CarLoopProofs` | | theorems about `CarLoop`, port by port |

`Replay` sees a segment as `null`, `loading`, `loaded`, `failed` or `erased` and
the end of a load as one step, which posts the result if `loadFinished` is
connected by then and tells nobody if not. `SegmentLoad` states the view for one
segment (it promises no delivery), and `Segment` is shown to implement it
(`KeepsPromise`, checked and proved): the mapping is `Status`. `CameraServer`
takes the stream thread's and the destructor's calls as its environment and
shows what the player needs of it (`ReadersReleased`).

### 2.1 How state and actions correspond to the code

**Replay.** `mpc` is the main thread's position: `idle` in the event loop,
`pause`/`apply` in `updateEvents` (raise `paused_` without the lock; run the
lambda under it), `check` in `checkSeekProgress`, `cache`/`merge`/`free` in
`updateSegmentsCache`. The lambda that runs is `upd`. The stream thread's `spc`
separates the evaluation of the wait's predicate (`lock`) from blocking
(`block`, `waiting`), since `stop()` does not take the lock, and the search, the
turn before the sleep (`publish`) and the publishing after it (`emit`), since
`paused_` is read twice. `q` is the queue of calls posted to the main thread; a
result whose segment is destroyed before its slot runs becomes an `orphan`. `seg`
is the map; `cur` is relative to `route_start_ts_`. An event is its time; `Which`
gives its place among the services, for the search by (time, service). `Load`
creates a segment; the workers start in its constructor, before the connect, and
may be through by then: the result is lost, and `unheard` remembers the segment.
`disturbed` remembers that a failed load or an invalid seek was handled while a
seek is pending. Both are history variables that only properties read.

**Segment.** `worker[f]` walks through fetch (local, cached or download, with
retries), parse, mark (`abort_`), count (`--loading_`), emit. `main` walks
through the constructor's loop, `connect` and the destructor's three statements.

**CameraServer.** `cpc` is the caller (stream thread, then destructor); each
camera thread pops, sends, prefetches and counts. `StartVipcServer` gives a thread
to each camera that has a size and none yet. A buffer of the ring holds a
frame id and a picture, so that a stale label is a difference between the two.

**SteerTorque.** `Update` is a frame: limit, rate-limit, `common_fault_avoidance`
and the last values kept. `age`, `capped`, `pushed`, `exposed` and `cut` are
history counters the properties speak of; no assignment of the code's state reads
them.

**Fingerprint.** `pc` is card's position; `remove`, `put` and `block` are the
three statements of `set_obd_multiplexing`, `ret` is where it returns to.
`PandaSwitch` and `PandaReport` are pandad's side, in two steps. `at` is the
position in the loops over address groups and requests. `cache` is the part of
`CarParamsCache` that the next drive uses.

**Card.** `pc` is the part of the step that is next; `InitCar` is `CI.init`, which
may block for frames (`lag`, and `took` over the last steps). `held` is the carControl
last read and `wire` the one under way, both as the age in frames of the
carState they answer; `quiet` counts frames for `all_alive`, as `sm.update` saw it
at the start of the step. `ControlsAnswers` and `ControlsTurns` are controlsd,
which goes on while card is in `CI.init` and answers the carState from before it.

**IsoTpQuery.** `Iterate`, `QueryEnds` and the four actions of `disable_ecu`
are an iteration of `get_data`'s loop that goes on, ends, or ends in one of the
ways `disable_ecu` tells apart; `EcuSends` and `Tick` are the world.

**Ports.** `Params` is the set of all `CarParams` that `_get_params` can return,
by the flags that any handler looks at. `Decode` is `CarInterface._update` with
`CarState.update`: it picks the signals, updates `cs` and publishes `out`.
`Apply` is `CarController.update`: it updates `ctl` and collects the messages in
`sent`. A message is a record of its kind, name, request bit, the value asked
for, and its rolling counter. A controller that passes `actuators.accel` on without
asking `longActive` (toyota, tesla, ford, hyundai CAN) does so in the model
(`Accel`); hyundai's CAN FD message keeps `accel_last` and its gas override.
GM's `cs.flying` is the queue of our steering messages that the panda has and
that have not come back, `cs.back` those whose loopback is read in this frame.
`Parsed` and `Reads` are the messages of the
parsers and those `update` looks into, by bus. `CarLoop` runs one port:
`Decode`, then `Apply` or a frame in which card applies nothing.


## 3. Runs

Passing runs. Deadlock is not checked where the system stops on its own: a user
who has called all he wants and a route that is at its end, a destroyed segment,
a deleted server, a car that is recognised. `SteerTorque` never stops and is
checked for deadlock.

| run | properties | states |
|---|---|---|
| `replay_safety` | `MergedAlive`, `InOrder`, `CacheBounded`, `PausedIsQuiet` | 14.7 M |
| `replay_live` | `CacheSettles`, `NotStalled`, `SeekCompletes`, `PlaysToTheEnd` | 819 k |
| `segment_loads` | `LoadedIsComplete`, `LoadedIsStable`, `DestroyIsFinal`, `LoadEnds`, `KeepsPromise` | 271 k |
| `camera_sends` | `ReadersReleased`, `SentRight`, `ServerReplacedIdle`, `WaitsEnd`, `DestroyEnds` | 444 k |
| `steer_driver` | `SoftStart`, `DriverWins`, `FaultAvoided` | 1 k |
| `fingerprint` | `ModeRight`, `ExactIsReal`, `CanSound`, `StartupEnds` | 108 k |
| `card` | `InitOncePerStart`, `FreshCommand`, `OverrideSoftens` | 2.04 M |
| `isotp` | `AnswersRouted`, `PatientEnough`, `JobEnds` | 326 k |
| `cars` | `ActuatorsRest`, `PandaAgrees`, `ReadsAreParsed`, `TorqueMoves`, `LkasRests`, `AnsweredOnce`, `CountersFollow`, `ButtonsAlternate` | 1.12 M |

The type invariants are proved where there are proofs and are not run.

What the less obvious ones say:

- `MergedAlive`: as long as the stream thread may walk `events_`, every merged
  segment is in memory.
- `CacheSettles`: when nothing is queued or loading, what is loaded is merged and
  in the window around the current segment; and it is the whole window, unless
  the result of a load was lost before the connect (`unheard`). One load is
  started per call of `updateSegmentsCache`, so this is about every path having
  its follow-up call.
- `NotStalled`: `events_ready_` is up when there is something to play, also when
  results are lost, unless the pending seek is `disturbed`. `SeekCompletes` and
  `PlaysToTheEnd` make the same two exceptions: what is lost is noticed by the
  next call of `updateSegmentsCache`, and nothing makes one come.
- `LoadedIsStable`: what the main thread has merged is not marked aborted by a
  worker that is late.
- `WaitsEnd`: each `waitForSent` returns, so no frame is counted for a camera
  without a thread.
- `SentRight`: whatever is prefetched, skipped, overwritten or not decodable, the
  picture sent for a frame is that frame's.
- `DriverWins`: a driver who pushes with all that the allowance leaves gets rid
  of the torque at `STEER_DELTA_DOWN` a frame. `FaultAvoided`: both frame limits
  of `common_fault_avoidance`, for every pattern of conditions.
- `ModeRight`: whatever acknowledgement an earlier switch has left in
  `ObdMultiplexingChanged`, each query finds bus 1 wired as it needs, and the
  harness has it back when `FirmwareQueryDone` is raised. `ExactIsReal`: however
  many ECUs stay silent, in this drive or in the cached one, an exact match is the
  real car, provided the database distinguishes it (`RealDistinct`).
- `InitOncePerStart`: however `onroadEvents` arrives and controlsd restarts, a
  command goes out only after exactly one `CI.init` since controls were last seen
  initializing; a passive car gets neither. `FreshCommand`: a command answers a
  carState at most `AliveFrames + 1` frames old, plus the frames `CI.init` took in
  this step and the `AliveFrames + 1` before it. It bounds the age and nothing
  else: what a controlsd computed before a quick restart may still be applied.
  `OverrideSoftens`: once the driver has steered during a fault its harsh alert
  stays away.
- `AnswersRouted`: ECUs that share an address get their own answers, and those to
  the last request. `PatientEnough`: an ECU is given up only after the silence it
  is entitled to.
- `ActuatorsRest`: with lateral, longitudinal or all control off, no message asks
  for anything, whatever the controller remembers of the frames before. The
  acceleration of toyota, tesla, ford and hyundai CAN is the exception: their
  controllers pass on what the carControl asks for, and rely on controlsd to ask
  for nothing. CAN FD hyundais gate theirs by `enabled` and the gas override,
  which is enough as controlsd overrides whenever it is enabled without
  longitudinal control (`ControlsAssumption`, external). `PandaAgrees`: what is
  sent is what `safetyParam` and `pcmCruise` allow, on each variant.
  `ReadsAreParsed`: no variant reads a message its parsers do not have.
- `TorqueMoves`: Volkswagen's rack never gets one torque for too long.
  `LkasRests`: Chrysler's control bit rests between two uses, and torque comes
  only behind it. `AnsweredOnce`: a stock message is answered by at most one of
  ours. `CountersFollow`: two of GM's steering messages in a row on the bus carry
  counters in a row, however loopbacks are late and the message rate changes,
  if neither was sent while another was underway and the first was counted before
  the second was sent. The code repeats
  a counter when a frame that read the loopback is skipped, and when two messages
  overlap; both are left out of the property. So is the hand-over: our first
  message is not compared with the camera's last.
  `ButtonsAlternate`: presses and releases alternate, so that an engagement on a
  release is one the driver began.

### 3.1 Runs that are violated

Each checks one statement of a comment, a document or a test against the code.

| run | statement | what happens |
|---|---|---|
| `replay_stop` | `replay.h:130`: `exit_`, `paused_` are protected with `stream_lock_` | `stop()` sets both and notifies without the lock; between the predicate and the wait of the stream thread the wakeup is lost and `stop()` joins for ever |
| `replay_seek_failed` | `replay.cc:349`: wake up the stream thread if the current segment is loaded or invalid | the segment sought fails to load and is erased; `seeking_to_` is never reset, so every merge returns false and the thread sleeps on events it could play |
| `honda_cancel` | `honda/carcontroller.py:99`: on the falling edge, send the cancel message | `frame` is never advanced, `frame % 2 == 0` always holds, and the `elif` is never reached: the servo gets no cancel |

Three more statements fail in the models, and are kept here instead of in runs:
after the last event `cur_which` is stale and the search finds that event again
(`replay.cc:471`, against `--no-loop`); a pause or a merge during the sleep
before an event drops it (`replay.cc:517`); and a segment's workers may finish
before `loadFinished` is connected (`route.cc:183`, `test_replay.cc`), after which
the window stays incomplete and a seek may stay pending until something else
calls `updateSegmentsCache`.

In `replay_live`, `stop()` is not among the user's calls: `SeekCompletes` and
`PlaysToTheEnd` are about a replay that goes on, and `replay_stop` shows what
`stop()` may run into. Segments may fail there, the one that is sought included.

### 3.2 Bounds, and why they are enough

- *Replay*: four segments and a cache limit of three, so that the window slides,
  is cut at both ends of the route and leaves a segment out; an event in the
  middle of each segment, so that a target falls before, on and behind events; two
  user calls out of an absolute seek, a relative one, pause and stop, so that every
  pair overlaps (a third call meets a state that some pair leaves); the last
  segment may fail, in `replay_live` also the one in the middle that is sought,
  and any load may end before the connect. The main thread's queue holds four calls; who would post a
  fifth waits. The queue does fill up (a route that loops while the main thread is
  busy), and then holds every kind of call at once; a longer queue only repeats
  cache updates and seeks to the start. The proofs leave the bounds, like all other
  constants, arbitrary.
- *Segment*: four files: a local video, a cached one, and two logs whose download
  may fail, two retries. Two files would show every race of counter and flag;
  four show the kinds together.
- *CameraServer*: two cameras, two segments of two frames, four frames pushed and
  three buffers: enough to reuse a buffer that is still labelled. The ids skip a
  value, so that a prefetch is wrong; a camera appears in the second segment, and
  the other changes its size there, so that the server is restarted.
- *SteerTorque*: all torques between and beyond the limits of a car with
  `STEER_MAX` 8, deltas of 2 and 3, and limits of 3 and 2 frames. `MaxCount` stops
  the history counters when they can no longer matter, which is an assumption
  checked on every run.
- *Fingerprint*: two brands with an address in common, three cars, an ECU behind
  each kind of wiring, a request for a panda that is not there, one for logging,
  and a custom fuzzy match; three legacy cars whose messages overlap; two drives,
  so that the second one uses the cache. Frame limits of 1 and 3 stand for 100 and
  200.
- *Card*: ages are counted to `MaxAge` 6, one more than the largest age that the
  property allows; carControl is dead after `AliveFrames` 2 frames; `CI.init` takes
  up to `InitFrames` 2 frames, as long as `AliveFrames`, within any
  `AliveFrames + 2` steps; an override counts as recent
  for `OverrideFrames` 2. Thirteen carStates: pedals, faults with and without the
  driver's hand, buttons; a car with stock cruise control, one without, and a
  dashcam.
- *IsoTpQuery*: two ECUs behind one address, two requests, four frames on the bus
  per query, timeouts of 1, 2 and 3 ticks, two attempts: enough for a late answer
  to the last request to overtake the first, and for each timeout to come first.
- *Ports*: `Slow` (4) stands for every period and delay of five frames and more
  and frames are counted modulo a multiple of the periods. Torques are amounts: zero or not, and a small range for
  Volkswagen. Tesla's queue holds 3 of 32. All variants that `get_params` can
  tell apart are generated and run until they have sent their first messages,
  which come in frame 0 in every period; `Few`, one of each kind the controllers
  tell apart (of toyota three models), run on without a bound on the number of frames. Signals depart from
  rest one at a time, and the port's memory brings them together. `focus` is
  one bound across handlers: the driver presses buttons while the controller
  is not run, or leaves them alone while it is. The other is GM's
  `CancelsOrHears`: a behaviour goes on with its cancel presses or with its
  loopback. At most two of GM's messages are in flight: none is left when the
  next but one is sent; the theorem keeps that bound.

### 3.3 Fairness

Threads are scheduled: weak fairness of the main thread's steps, of the stream
thread's own steps, of the workers, of each camera thread, of card and of pandad.
Nothing makes a user call, a spurious wakeup come or an owner destroy a segment.
One strong fairness is assumed, of `Replay`'s `Apply`, which takes
`stream_lock_`: only an endless row of spurious wakeups could keep the stream
thread retaking the lock ahead of the waiting main thread. Downloads and ISO-TP
queries end because the code gives them timeouts; their failure is an outcome.
In `IsoTpQuery` the loop runs and time passes, and no ECU need ever send.
Card and the ports have safety properties only: they are a loop that never ends.


## 4. Proofs

| theorem | states | argument |
|---|---|---|
| `ReplayProofs!TypeCorrect` | `TypeOK` | inductive |
| `ReplayProofs!NoDanglingEvents` | `MergedAlive` | `AliveInv`: besides the property, that what the main thread is about to merge is loaded and in the window, that after the swap the merged segments are in the window (so freeing the rest is harmless), and that a posted failure, or an erase under way, is about a segment that has failed and is not merged |
| `ReplayProofs!PauseHolds` | `PausedIsQuiet` | inductive with the lock's positions |
| `ReplayProofs!PublishedInOrder` | `InOrder` | `OrderInv`: the cursor bounds what was published, and a search starts at the cursor (`UpperBoundAhead`) |
| `ReplayProofs!CacheWithinLimit` | `CacheBounded` | `BoundInv`: during a call of `updateSegmentsCache` what is in the window is within the limit, between two calls what is resident; the window is an interval of ranks, and a rank names one key |
| `ReplayProofs!CacheHasSettled` | `CacheSettles` | `FailedInv`: a failed segment still has its result posted, or being handled, or nobody heard of it. `SettleInv`: what a call has established at each of its steps (window, load, merge, free), unless something posted since will redo it |
| `ReplayProofs!NeverStalled` | `NotStalled` | `ReadyInv`: `events_ready_` is up while `events_` is walked; when it is down there is a reason that another step removes. `SeekInv`: until an undisturbed seek is complete the stream thread stays out of its loop, so that `current_segment_` is the segment waited for |
| `SegmentProofs!CounterIsExact` | `TypeOK`, `CountsRunning` | `IInv`: `loading_` is the cardinality of the workers that still have to report, workers start in order, a failure is marked before it is counted |
| `SegmentProofs!LoadedMeansComplete`, `LoadedForGood`, `DestructionIsFinal` | `LoadedIsComplete`, `LoadedIsStable`, `DestroyIsFinal` | from `IInv`: with a zero counter every worker has reported, and a failed one has set `abort_` before |
| `SegmentProofs!SegmentKeepsPromise` | `KeepsPromise` | every step maps to a step of `SegmentLoad` or a stutter under `Status` |
| `CameraServerProofs!FramesReturned` | `ReadersReleased` | `ShapeInv` and `CountInv`: `publishing_` is the number of frames queued, in a camera thread's hands, or about to be queued |
| `CameraServerProofs!ReplacedIdle` | `ServerReplacedIdle` | the server is replaced behind `waitForSent`, so by `CountInv` with idle cameras |
| `CameraServerProofs!RightPicture` | `SentRight` | `PictureInv`: a buffer of the server that is labelled with a frame's id holds that frame's picture, through prefetch, reuse and failed decodes |
| `CameraServerProofs!ServerTyped` | `TypeOK` | inductive; `publishing_` above zero from `CountInv` |
| `SteerTorqueProofs!SteerTyped`, `TorqueRampsUp`, `DriverTakesOver`, `RequestWithinLimits` | `TypeOK`, `SoftStart`, `DriverWins`, `FaultAvoided` | one invariant with `CounterInv`, which ties the code's one counter to the two histories; lemmas on clip and rate limit, and on when a limit is zero (`AgainstLimits`) |
| `FingerprintProofs!ModeIsRight` | `ModeRight` | `ModeInv`: the switch is at rest except while card blocks; what card can see then is the answer to its own request (`Handshake`); a call remembers why it was made (`CallOK`) |
| `FingerprintProofs!ExactMatchIsReal` | `ExactIsReal` | all answers, also those in the cache, are versions the car has; on such answers no other car passes (`OnlyRealMatches`) |
| `FingerprintProofs!CanAnswerSound` | `CanSound` | the candidates of a bus are the cars that could have sent all that was heard on it |
| `CardProofs!InitOnce` | `InitOncePerStart` | `StartInv`: CI.init has run once exactly when a car that is not passive saw onroadEvents ready in the previous step |
| `CardProofs!Fresh` | `FreshCommand` | `AgeInv`: a carControl on the wire waits at most a frame, and what `CI.init` takes, to be read, and one in hand ages with the count of silent frames |
| `CardProofs!OverrideSoftened` | `OverrideSoftens` | `WarnInv`: a driver who has steered during the fault is excused with his hand on the wheel in the last frame, or the alert is already silent; it needs an override to count for more than one frame (`OverrideAssumption`) |
| `IsoTpQueryProofs!QueryTyped`, `QueryInv` | `TypeOK`, the buffers | `InboxInv`: what is buffered for an ECU has come from it, which is where sub-addresses matter |
| `IsoTpQueryProofs!ResultsOfTheEcu` | `AnswersRouted` | `AnswerInv`: the property and the phases of a firmware query, over `InboxInv`: the first whole message in a buffer is the ECU's own |
| `IsoTpQueryProofs!GivenUpInTime` | `PatientEnough` | `DeadlineInv`: a deadline is the last sign of the ECU plus the timeout it is entitled to, the longer one after a response-pending |
| `CarLoopProofs!SendsAlways` | what every port sends | `SendsInv`: each message is proper for the variant; it needs, for each port, a lemma that says which combinations of flags its `get_params` returns |
| `CarLoopProofs!NothingUnasked`, `PandaLetsThrough`, `ParserIsTold` | `ActuatorsRest`, `PandaAgrees`, `ReadsAreParsed` | from `SendsInv` and the lemmas on variants |
| `CarLoopProofs!RackIsNotTired` | `TorqueMoves` | `RackInv`: the controller counts two (`STEER_STEP`) for each message that repeats the torque, so its count bounds how many there are in a row |
| `CarLoopProofs!SteeringRests` | `LkasRests` | `BitInv`: the control bit on the bus is the one remembered, and the frames since it fell are those the controller counts |
| `CarLoopProofs!OneAnswerEach` | `AnsweredOnce` | `StockInv`: what has been answered is remembered as such, or, of Tesla, is no longer in the queue |
| `CarLoopProofs!ButtonsAreConsistent` | `ButtonsAlternate` | `HeldInv`: the buttons that the events leave pressed are those the `CarState` remembers as down |
| `CarLoopProofs!CountersAreFollowed` | `CountersFollow` | `CounterInv`: while sends are apart (`apart`), at most one message is in flight and carries the controller's counter; with none in flight that counter, once the loopback just read is counted, is one after what was last on the bus; after two such sends what is in flight is one after it |

They hold for every value of the constants under the assumptions the modules name
(`ASSUME ...Assumption`): finite routes, a database over its own ECUs and
versions, a request table without an empty brand, and the like. `SteerTorque` is
proved for cars limited by the driver's torque and for cars limited by the
motor's; only the first kind is also model-checked.

Three assumptions deserve a word. `IsoTpQuery!QueryAssumption`: ECUs that share
an address for their answers have sub-addresses, and different ones. The firmware
queries satisfy it, as `get_fw_versions` asks an ECU with a sub-address alone
(`fw_versions.py:287`); without it `AnswersRouted` is false.
`Port!SlowAssumption`: `Slow` is a multiple of four.
The model counts frames modulo a multiple of `Slow` where the code's frame
never wraps, and the counters told from the frame, modulo four at most, have to
come round with it. `CarLoop!ControlsAssumption`: controlsd, which is not in the
repository, overrides whenever it is enabled without longitudinal control; hyundai's
CAN FD message needs it to rest.

The type invariants are parts of the inductive invariants. The bounds of the
models, `MaxUserOps`, `MaxPosts`, `MaxPushes` and `MaxFrames`, are arbitrary in the
theorems, so that none of these rests on the small numbers of a run; `MaxCount` is
as large as `SteerTorque!CountAssumption` says.

Only model-checked: the liveness properties `SeekCompletes`, `PlaysToTheEnd`,
`LoadEnds`, `DestroyEnds`, `StartupEnds` and `JobEnds` (the prover has no
fairness or `ENABLED`). `FuzzyMatches` is a recursive function; the proofs treat
it as an unknown set, and need nothing more.


## 5. Abstractions

- *Replay*: after the connect `loadFinished` is posted in the same step that makes
  `isLoaded()` true (in the code the post follows; `Segment` has the two apart).
  A worker that brought `loading_` to zero before the constructor started the next
  one, and emits only after the connect, is left out: it posts a result too
  early, of a segment that is still loading. The length of
  sleeps and the speed are left out, as are the timeline, event filters and the
  publishing of services. `publishFrame` is in `CameraServer`.
- *Segment*: the order in which a thread pool picks workers is arbitrary. A
  download succeeds, fails or sees the abort; its chunks are left out. Parsing
  succeeds if the file is good and it was not aborted.
- *CameraServer*: `setSpeed` may change between any two frames, so that a frame
  is or is not preceded by a wait, nondeterministically. Pictures are frame
  numbers; decoding succeeds or fails.
- *SteerTorque*: torques are integers. A measured torque that is not (Toyota scales
  its motor torque) is taken as rounded before it is used, where the code rounds
  the result. CAN messages and longitudinal control are left out.
- *Fingerprint*: an answer arrives or does not (`IsoTpQuery` has the query
  itself); versions come from the car's ECUs. An
  exception in a query counts as silence, as in the code. Left out: receive
  offsets and their aliases, chunks of 128 addresses, the messages of the VIN
  query, card being killed in the middle. All scans of one mode are one step. In
  the CAN search an address with another length is another message. The cached
  VIN is accepted whatever it is: `cached_params.carVin is not VIN_UNKNOWN`
  (`car_helpers.py:129`) compares identities and always holds. A malformed VIN can
  still take part in a fuzzy match in the first drive and not in the second, where
  the cache has "unknown"; nothing in the code says which is meant.
- *Card*: cumulative CAN errors, the logging of carParams and the REPLAY clock are
  left out. `all_alive` is a count of frames since the last carControl.
- *IsoTpQuery*: the loop drains the socket before it looks at the ECUs, so a frame
  is in its inbox when it is sent. Reassembly is panda's; a message is its last
  frame. Exceptions other than `recv`'s are left out, so that a job that fails in
  `send` is a retry not seen here.
- *Ports*: only what the properties tell apart: which message, its request bit,
  whether it asks for anything, its counter. Values that a limiter or a lookup
  computes are an amount, zero when nothing is asked for. Left out: HUD contents,
  Hyundai's ADAS messages beyond those listed, GM's LKA icon, Subaru's angle
  controlled cars beyond `get_params`, Volkswagen's display fields, the honda
  port's stepper override and angle planner, the radar interfaces.
  `BODY`'s balance loop is its filters only. The torque limiters are in
  `SteerTorque`.
- Behaviour that is modelled but has no property: an orphaned `loadFinished(false)`
  dereferences a null sender (`replay.cc:264`, `mpc = "crashed"`); without a file
  cache no remote video loads (`framereader.cc:72`); an invalid seek target during
  a pending seek wakes the stream thread (`replay.cc:113`).


## 6. Plan

1. Proofs: every safety property of the runs is stated by a theorem. What is
   left are the step-by-step halves of the liveness properties (that a measure
   never grows under the steps that are not fair), and what the fuzzy match
   promises when it names a car.
2. `Timeline`: `find`, `seekToFlag`, the ranges, over bounded inputs against a
   reference definition. `FrameDecoder`: readers that share a decoder.
3. `CabanaStream` and `DbcEditing`: the snapshot of messages between two threads;
   undo and redo over shared files.
4. `UrlFile`: ranges over cached chunks against the bytes of the file (the last
   chunk when it has one byte, `url_file.py:129`, is a case to look at), with an
   interrupted write; the GOP cache of `tools/lib/framereader.py`.
