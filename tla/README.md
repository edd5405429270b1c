# A TLA+ development of the video detection engine

The Go program under `src/go_client` pulls RTSP streams with ffmpeg, samples
their frames, has an AI service detect objects in them, pushes the annotated
stream to an RTMP server, records segments on demand and publishes what it
found on Redis. Clients steer it over HTTP and gRPC. All of its own logic is in
`engine/`: a registry of sessions, and for each session a handful of goroutines
that share the fields of one `Session` object, which comes from an object pool
and goes back to it.

This directory holds TLA+ modules translated from that code, the TLC
configurations that check them on small instances, and the theorems that TLAPS
proves for instances of every size. Paths below are relative to
`src/go_client/engine/` unless they say otherwise.

## 1. Inventory

### Session registry (`session_manager.go`, `pkg/map_utils/map.go`)

- *State*: `sessions`, a `sync.Map` from id to `*Session`; `sessionPool`, a
  `sync.Pool` of `*Session`; `closeCh`, a channel of 128 ids; a context that is
  the parent of every session's.
- *Operations*: `CreateSession`, `RemoveSession`, `StartSessionDetect`,
  `StopSessionDetect`, `StartSessionRecord`, `StopSessionRecord`, two reading
  ones, `Close`; and two loops of its own: `closeChRecv`, which takes down the
  sessions whose id arrives on `closeCh`, and `checkHealthySession`, which on
  every tick takes down the sessions that are not running or that nobody
  detects on or records. (`StopSessionRun` has no caller.)
- *Interaction*: called by handlers, concurrently; starts `Session.Run`; hears of
  its end through `closeCh`.
- *Hard*: no lock covers two accesses. Four ways to take a session down overlap
  with each other and with creation, and tear down what they loaded earlier.
- *Correct when*: a session whose Run ended leaves the map; an object in the
  pool is not in the map; a Run that nobody has stopped can be found by its id;
  ffmpeg processes always have an owner that will end them.

### Session life cycle (`session.go` `Run`, `Reset`, `SendIDToCloseCh`; `session_lock_fc.go`)

- *State*: id, context, the flags `runningStatus`, `detectStatus`,
  `recordStatus`, `handledClose`, the puller's and the pusher's process and pipe,
  two channels of new addresses.
- *Operations*: `PreparePuller`, `PreParePusher`, the loop of `Run`, its deferred
  cleanup, `Reset`.
- *Hard*: `Reset` and recycling do not wait for the goroutines of the session;
  the loop blocks in a pipe read where it sees no flag and no context.
- *Correct when*: `Run` ends once its session was reset, removed or cancelled,
  cleans up what it started, and reports its end exactly as often as someone
  must act on it.

### Stream restart (`session.go` 311-333, 441-466, 751-767, 807-849; `eof_restart.go`, `pkg/*_utils`)

- *State*: `lastResetAt`, a retry counter in Run and one in each recorder,
  `rtspURL`, the pulling process and its pipe, the address channels.
- *Operations*: at the end of a stream Run and the recorders each ask the camera
  platform for a new address and call `ResetRtspURL`, which is throttled to one
  reset in five seconds, opens the stream again and tells both loops of it.
- *Hard*: two goroutines reset at once; the broadcast comes back to the one that
  sent it; the throttle looks like success; the session may be gone by the time
  the answer comes.
- *Correct when*: no live ffmpeg is lost; Run ends up with the last address; the
  retries end; nothing pulls once the session is over.

### Detection pipeline (`session.go` 466-556, 581-675; `detect.go`)

- *State*: a queue of 8 frames that drops, the result cache, the label cache of
  five minutes, `detectEndTimestamp`.
- *Operations*: Run samples a frame every 200 ms, clears the results, enqueues,
  draws the latest results and pushes; `asyncDetectLoop` takes a frame, calls the
  AI service, stores new labels' pictures and replaces the results.
- *Hard*: results that arrive after the next frame was taken, or after a stop;
  label checks by concurrent goroutines.
- *Correct when*: frames are detected in order and at most once; results on show
  are recent; a picture of a new label is published; the loop ends with its session.

### Recorder (`session.go` 677-805)

- *State*: `recordStatus`, `recordEndTimestamp`, one goroutine per start.
- *Operations*: record a segment, publish it, go on until stopped, expired or
  cancelled; on failure renew the address.
- *Hard*: stop and start during a segment; a reset of the puller after the
  session is gone.
- *Correct when*: one recorder per session; the flag says whether it runs.

### Request handlers (`engine_http.go`, `engine_grpc.go`, `dto.go`)

- *Operations*: authenticate, bind and validate; admit by the load of the AI
  host (`CheckDetectHostServiceResources`); find or create; set a flag.
- *Hard*: find, create and use are separate accesses, and use looks the id up
  again; the limit has a default and a range of its own.
- *Correct when*: a request is let in only by a host with room for it; a flag
  lands on the session the request named or created.

### Engine (`engine.go`, `cmd/main.go`)

- *State*: main's place, a channel of one signal, the two servers, the manager.
- *Operations*: build, run both servers, wait for a signal or the loss of a
  server, and close the gRPC server, the HTTP server and the manager.
- *Hard*: signals and two servers share the channel; handlers are at work
  while the engine closes.
- *Correct when*: it ends when it is told to or has lost a server, and leaves
  no session, request or server behind.

### The rest

`detect_store.go` (Redis publishing), `ffmpeg_utils.go` (command lines),
`pkg/hk_utils` and `pkg/wvp_utils` (HTTP requests for camera addresses),
`ai_service/main.py`, configuration, logging, middleware, response helpers and
the generated `pb/` hold no state that sessions share. Of these the models have
what a call may return: an ffmpeg starts or not and ends at any time, an address
service answers with any of the responses its two clients tell apart, the AI
service answers, fails or stays silent.

## 2. Modules

| module | what |
|---|---|
| `SessionManager` | registry, life cycle, all interleavings of teardown and creation |
| `SessionRegistry` | abstract: what the registry promises of its map |
| `SessionManagerHistory` | the same as `SessionManager` with a history of entries taken over |
| `SessionManagerRefinement` | the mapping from `SessionManager` to `SessionRegistry` |
| `Stream` | one session's stream: resets, retries, broadcast, recorders, teardown |
| `StreamHistory` | the same with a history of its two races |
| `DetectPipeline` | one session's detection: queue, results, label cache, start and expiry |
| `FrameFeed` | abstract: what detection promises of frames and results |
| `DetectPipelineRefinement` | the mapping from `DetectPipeline` to `FrameFeed` |
| `Engine` | the process: main, servers, requests with their admission, shutdown |
| `SessionManagerProofs`, `SessionManagerSafety`, `SessionManagerOwners`, `SessionManagerRefinementProofs`, `StreamProofs`, `DetectPipelineProofs`, `DetectPipelineLabels`, `EngineProofs` | theorems |
| `MC...` | instances for TLC |

`SessionManager` composes the components for many sessions, each reduced to what
the others see of it. `Stream` and `DetectPipeline` take one session apart, with
the registry reduced to the teardown it may do at any moment, and `Engine`
surrounds the registry, reduced to the set of its ids. They use the same names
for the fields they share.

## 3. `SessionManager`

### State

| variable | code |
|---|---|
| `sessions` | `SessionManager.sessions`; `NoObj` means absent |
| `pool` | `sessionPool`: how often each object was Put and not yet got |
| `idOf`, `ctxOf` | `Session.id`; `Session.ctx` with `cancelFunc` |
| `wired` | the object came out of `sessionPool` once (`closeCh` was injected) |
| `running`, `detect`, `record`, `handled` | the four atomic flags |
| `update` | `rtspUpdateChRun` holds an address |
| `procs` | which of the pulling and pushing ffmpeg the session holds |
| `rec` | the recorder: absent, at its head, in a segment, asking for an address |
| `cancelled` | contexts that are done |
| `closeCh` | the ids waiting for `closeChRecv` |
| `run` | for every context: where its `Run` is, its object, the id it was started for and the id it is about to send |
| `th` | for every handler and manager goroutine: where it is, the request, the id, the object it loaded, its context, and the keys a `Range` has left |
| `up` | serving, closing, down |

A `Session` object and a session are different things here as in the code: an
object (`Objs`) is filled in by `Acquire` and may be filled in again, a context
(`Gens`) belongs to one `CreateSession` for good, and its `Run` is named by it.
`Run` holds the object and reads `ctx`, `id` and the flags from it at each
step, as the code does through `s.`.

### Actions

A step is what one goroutine does between two points where another can
interfere.

| code | actions |
|---|---|
| handlers, `engine_http.go` 163-362 | `Request`, `LookupSession`, `FindByID`, `SetFlag` |
| `CreateSession` 138-201 | `CheckAbsent`, `Acquire`, `StoreSession`, `OpenPuller` or `PullerFails`, `OpenPusher` or `PusherFails` |
| `RemoveSession` 286-298 | `Drop`, `DeleteEntry`, `ResetFlags`, `ResetFields`, `PutBack` |
| `closeChRecv` 82-106 | `Receive`, `CancelSession`, `DeleteEntry`, `ResetFlags`, `ResetFields`, `PutBack`, `StopLoop` |
| `checkHealthySession` 109-136 | `Tick`, `Skip` or `Visit`, `Claim`, `CancelSession`, `DeleteEntry`, `PutBack` (no Reset), `EndTick`, `StopLoop` |
| `Close` 67-79, `engine.go` 161-171 | `StartClose`, `Skip` or `Visit`, the same teardown as `closeChRecv`, `EndClose` |
| `Session.Run` 354-560 | `RunStart` or `RunCannotStart`, `RunHead`, `RunStops`, `RunUpdates`, `RunFrame`, `RunEOF`, `RunFails`, `RunReopens`, then `RunClean` |
| `SendIDToCloseCh` 274-286 | `RunMark`, `RunName`, `RunSend` |
| the recorder 687-796 | `RecorderHead`, `RecorderEnds`, `RecorderSegment`, `RecorderFails`, `RecorderAsks`, `RecorderReopens` |

Operators whose comment begins with "Mutated" or "Mutant" are altered copies of the action
below them, each with one mistake a programmer could make. No behaviour of the
model uses them: they exist to confirm that each checked property notices a
change of the code it is about.

### What is abstracted

- *Time*. Detection and recording may expire at any frame or segment, the tick
  may come at any moment, a reset may always be too recent for the throttle.
- *Retries*. `AutoRestart` says whether sessions restart their stream; the
  counter that ends it is a free choice between `RunReopens` and `RunFails`.
- *Frames, results, addresses, segments*. Only that a frame or an end arrived,
  or that an address is pending.
- *Merged steps*. `PreparePuller` clears and starts in one step (`Stream` takes it
  apart); a failing one
  clears and deletes the entry in one step; the deferred cleanup of `Run` up to
  `SendIDToCloseCh` is one step; `Reset` is two, at the border between the flags
  and the processes. `Idle` reads three flags at once, where the code reads
  them one after another. Each merge removes interleavings of writes to
  one object, and no access to the map, to the pool, to `closeCh` or to
  `handledClose`, which `Reset` clears together with the other flags.
- *Recorders*. `rec` stands for every recorder of an object: overlapping ones
  are left to `Stream`.
- *sync.Map.Range* visits each of `Ids` at most once, in any order, and sees an
  entry stored during the Range if its turn is to come. Go allows that and also
  allows the Range to miss such an entry; missing it is covered by the next tick.
- *Not modelled*: the crash of the whole process when the recorder or
  `asyncDetectLoop` calls `Done` on a nil context (for the latter see
  `DetectPipeline`); the goroutine of the end notice; gRPC handlers that are still at work when `Close` ranges over the map
  (`Shutdown` waits for HTTP ones only); the GET requests, which change nothing.
  `closeCh` and the loops go on after the engine is down only as far as the code
  lets them before the process exits.

### Constants and bounds

`Objs` bounds allocations and `Gens` bounds creations: a run with two of each
has every life of one session followed by another of the same id, or two
racing ones. `CreationsLeft` keeps clients from asking for more than that.
`Ids` has one member: sessions of different ids meet only in
`closeCh` and in the sequential loops of the manager, and there a full channel
of capacity 1 with two sessions in turn gives the same waits; the theorems have
any number of ids.
`CloseChanCap` is 1 where the code has 128, so that a send does find the
channel full. `Recycle` says whether `sessionPool.Get` may return what was Put,
which a `sync.Pool` may or may not do; `PushMayFail` whether the pusher may
fail to start; `MayClose` whether the engine may be shut down.

Deadlock is not checked: creations are bounded and the engine may be shut down
for good, so the model stops where the program would wait for clients.

### Races on the map

Nothing in the code keeps two goroutines from working on one id: a creation
tests for the entry (139) and stores it later (168), and every teardown deletes by
id what it loaded earlier. So a goroutine may store over, or delete, the entry of
a session that it does not work on; the Run of that session can then be found by
nobody. `stale_teardown` shows one way. `SessionManagerHistory` records that it has
happened (`raced`, set by `TakesOver`) and changes no behaviour, and
`OnlyRacesHideRuns` says that nothing else hides a Run that nobody has stopped.
In particular these do not: two teardowns of one session, each with its own
cancel, Reset and Put in any order with the other's; the tick's look at a session
that is still being made; a Run that starts after its session was removed; a
pusher that fails; a shutdown.

### What it implements

`SessionRegistry` knows only the map: which session each id has, which sessions
were ever in it, for which ids a creation is in progress, which ids are leaving,
and how far a shutdown is. It promises that a session enters the map once in its
life and under an id that is being created, that an entry goes only when its id
is leaving, when a creation for it fails, or in a shutdown, that what is leaving
goes, and that a shutdown leaves nothing. `SessionManagerRefinement` computes
these from the code's state: `creating` from where the handlers are, `leaving`
from `closeCh`, `handledClose` and the goroutines on their way to a `Delete`.
`ImplementsRegistry` is `Registry!FairSpec`, its fairness included.

That leaving belongs to the id and not to the session is the weakest point of
this promise, and the code does no better: a notice carries an id, so one that
waits while its id is removed and created again takes the new session down.

## 4. `DetectPipeline`

One session, with its Run, its `asyncDetectLoop`, the goroutines that store
results, a client, and whoever takes the session down.

| variable | code |
|---|---|
| `clock` | `time.Now().Unix()` |
| `detect`, `endAt` | `detectStatus`, `detectEndTimestamp` |
| `client` | a handler between its two stores (`engine_http.go` 280-281, `session_manager.go` 238-250) |
| `life` | `Session.ctx`: live, cancelled, or nil after `Reset` |
| `runPc` | Run between two frames: read, test, expire, sample, offer, draw |
| `queue`, `accepted` | `frameForDetection`, and how many frames it took so far, which names them |
| `results` | the frame whose results `resultCache` holds |
| `loop` | `asyncDetectLoop` and its frame |
| `cached`, `storer`, `published` | `localCache`, the goroutine of each frame's results, what reached Redis |

| code (`session.go`) | actions |
|---|---|
| Run 439-482 | `RunRead`, `RunTest`, `RunExpire`, `RunStops` |
| Run 484-556 | `RunSample` (forgets the results), `RunOffer`, `RunDraw` |
| `asyncDetectLoop` 581-601, 665-672 | `LoopHead`, `LoopEnds`, `LoopTakes`, `LoopFails`, `LoopAnswers` |
| its storing goroutine 604-663 | `StoreGet`, `StoreAdd`, `StoreDecide`, `StoreSave` |
| handlers | `StartDetect`, `StoreEnd`, `StopDetect` |
| teardown | `Cancel`, `Reset` |

Frames that `skipFrames` passes over or that no queue accepted have no name,
since nothing is known of them later. The interval of 200 ms has passed or not
at each frame. Pictures are abstract; so are the labels, of which a set of
values is enough, because a result's second object with the same label finds
it cached by the first. `published` is about pictures. The message that goes with
one has a field for labels (`detect_store.go` 58), but the list it is given
(`session.go` 607, 653) is never filled: a label is told by the picture, in
which it is drawn, and by nothing else. `StoreMayFail` stands for every step of
`StoreSave` that may fail: decoding, writing and publishing (658-661). Labels do not expire: a run of the model is shorter
than five minutes. When `LoopHead` meets a nil context the process ends
(`panicked`); the other goroutines' later steps are of no account, and leaving
them in the model makes no property easier. One session is modelled:
what a recycled object does to the next one is the matter of `SessionManager`.

Bounds: `QueueCap` is 1 for 8, so that it is full; `MaxFrames` 4, so that a frame
can be more than `QueueCap + 1` accepted frames old; `Showing` lets two frames
show something, so that two storing goroutines meet; the end time 1, which
passes when the clock gets there, after 0, which has passed from the start and
is what `ContinueDetect` asks for.

### What it implements

`FrameFeed` counts frames: how many were accepted, how many of them were taken
for detection, which one's results are on show. It promises that they are taken
one after the other and answered at most once, that none is accepted while the
results on show lag `Cap` frames behind, that detection ends with the session
only, and, fairly scheduled, that every accepted frame has its turn until then.
Fairness is of taking and of ending: no answer is owed, as none is in the code.
`DetectPipelineRefinement` maps the loop's frame to the last one taken, which is
right because of `InOrder`, and the results to those on show. `ImplementsFeed`
is `Feed!FairSpec`. A loop that stopped when it had nothing to do, say, would
pass every other property of the module.

## 5. `Stream`

One session from the moment `CreateSession` has started its Run.

| variable | code |
|---|---|
| `url` | `rtspURL` |
| `recent`, `due` | `lastResetAt` is less than five seconds back; the clock has reached `recordEndTimestamp` |
| `record`, `running`, `life` | `recordStatus`, `runningStatus`, `ctx` (live, cancelled, nil) |
| `toRun` | `rtspUpdateChRun` holds an address |
| `puller`, `proc` | `pullFFmpegCmd` with its pipe; the pulling processes, whether each is up and at which address |
| `reading` | the process whose pipe Run is blocked on |
| `at` | where Run and every recorder is, its count of ends, the address it got, the process it has in hand |
| `client`, `down` | a handler within `StartSessionRecord`; how far the teardown is |

| code | actions |
|---|---|
| `ResetRtspURL` 807-849 with `PreparePuller` 311-333 | `ResetThrottled` or `ResetAllowed`, `ResetClears`, `PullerClears`, `PullerStarts` or `PullerDoesNotStart`, `SetPuller`, `MarkRunning` (with the broadcast) |
| `eof_restart.go`, `start_play.go`, `start_play_url.go` | `ReGetRtspURL` of a `Response` |
| Run 425-477, 354-374 | `RunStops`, `RunUpdates`, `RunReads`, `RunFrame`, `RunCannotPush`, `RunEOF`, `Refused`, `RunCleans` |
| `StartRecording` 676-799 | `RecorderPanics`, `RecorderLeaves`, `RecorderStarts`, `RecorderCompletes`, `RecorderFails`, `RecorderRetries`, `RecorderGivesUp`, `RecorderEnds`, `RecorderZeroes` |
| handlers | `StartSessionRecord`, `RenewEnd`, `StartRecording`, `MkdirFails`, `StopSessionRecord` |
| teardown | `TickReaps` (no Reset), `RemoveSession`, `CloseNotice`, `CloseManager`, `Reset` |
| time and the camera | `FiveSecondsPass`, `RecordingExpires`, `ProcessEnds` |

`PreparePuller` takes `pullMu` twice, to clear the puller (315) and to set the new
one (329), and starts ffmpeg in between without it (324): these are three steps,
and the throttle's Load and Store are two. So two goroutines may be *opening* at
once (`IsOpening`, between the ClearPuller and the SetPuller), and one may set its
process after the other has cleared and before the other starts or sets its own.
Two histories say what happened meanwhile: `crossed`, on a goroutine, and
`outdated`, on a process. `ResetRtspURL`'s own ClearPuller (816) and its store of the
address are one step, since what another sets between them and the ClearPuller of
`PreparePuller` is killed there; a deferred ClearPuller after a failed start is one
step with it.
`SetRecorder` has no caller, so the recorder's command is never set,
`ClearRecorder` does nothing, and what is broadcast to the recorder has no
effect; both are left out. A recorder's own ffmpeg is part of its segment. It
dies with the context, at the latest when the segment's `Wait` returns.

Bounds. `MaxPids` 2: one process to be replaced and one to replace it; with
three in hand at once nothing new is said of a pair. `RetryTimes` 1, so that a
first end is retried and a second is not. One recorder: together with Run, two
openers. The theorems have any number of each. Two addresses in the safety run,
for the last one to differ from the one before; one in the liveness run, where
addresses do not matter and where symmetry may not be used.

## 6. `Engine`

| variable | code |
|---|---|
| `main` | where main is, `Close` included; `killed` by a signal before `signal.Notify`, `crashed` by a panic |
| `endCh` | how many signals `ch` holds |
| `server` | the goroutine of each server, and whether the server was closed |
| `sessions`, `todo` | the ids of the registry; the keys that Close's Range has left |
| `at` | every request: where it is, what it asks for, its id and its limit |

| code | actions |
|---|---|
| `main.go` | `NewDetectEngine` or `NewStoreFails`, `RunEngine`, `Notify`, `Signal`, `Wake` |
| `DetectionEngine.Run` 124-158 | `RunEngine`, `ServerListens`, `ServerFails`, `ServerReturns`, `ServerTells` |
| `DetectionEngine.Close` 161-171 | `StopPeer`, `Shutdown`, `Drained`, `CloseSession`, `CloseEnds` |
| HTTP handlers | `Arrive`, `Auth`, `Bind`, `Check`, `AIAnswers`, `LoadSession`, `CreateSession`, `UseSession`, `RemoveSession` |
| gRPC handlers | `PeerArrive`, `PeerCreateSession`, `PeerOther`, `RemoveSession` |
| sessions that go by themselves | `SessionEnds` |

`Check` takes what the host may report and decides with `Enough`, the code's own
arithmetic. `Room` says what it is for, in other words. The gRPC service is
built without its configuration (`engine.go` 100), and its `CreateSession` looks
into it: the process ends (`crashed`). Handlers that gRPC's `Stop` leaves at
work may go on while the engine closes; they make no session, for the only one
that would crashes.

Bounds: one HTTP request and one gRPC request at a time. They meet only in the
set of sessions, where the properties look at each id by itself; a shutdown
waits for one handler as it does for more. `EngineProofs` has any number.
Limits and loads are taken on both sides of each comparison.

## 7. What TLC checks

Properties, in `SessionManager.tla`:

- `NoZombie`: an entry whose Run has returned is on its way out, that is, its
  notice is in `closeCh` or a goroutine has it in hand.
- `PooledUnregistered`: what is in the pool is not in the map. It is a conjunct of
  `Inv`, since it holds while nothing is recycled, and fails in `double_put`, where
  pooled objects are got again.
- `NoStrayProcess`: processes of a session that is out of the map have an owner.
- `LiveRunIsFound`: a Run that nobody has stopped can be stopped: it is that of
  the entry under its id, or the teardown that has deleted the entry is about to
  Reset its session. It fails where a goroutine takes out, or stores over, an
  entry that is not of the session it works on.
- `OnlyRacesHideRuns` (`SessionManagerHistory`): it fails nowhere else.
- `RegisteredIsUsed`: an entry that stays for ever is used again and again.
- `ResetEndsRun`: the Run of a session that was Reset ends, unless it waits for an
  address service for ever.
- `ImplementsRegistry`: the refinement of section 3.
- `TypeOK`, and `Inv`, the inductive invariant.

In `DetectPipeline.tla`:

- `ResultsAreRecent`: at most `QueueCap + 1` frames were accepted since the one
  whose results are drawn. Neither the queue nor the clearing alone ensures it:
  without the clearing before each offer, an AI service that fails again and
  again leaves results of any age.
- `InOrder`: no accepted frame is lost or overtaken.
- `LabelIsPictured`: of a cached label a picture was published, or is about to be.
- `LoopEndsWithSession`: `asyncDetectLoop` does not outlive its session, unless it
  waits for the AI service for ever.
- `ImplementsFeed`: the refinement of section 4.
- `NoPanic`: taking a session down does not end the process.

In `Stream.tla`:

- `NoLostProcess`: `SetPuller` overwrites a live ffmpeg only if two goroutines were
  opening at once.
- `LastAddressWins`: when all resets are through, Run reads the stream of the
  last address, or has been told to open it again.
- `RecordingIsReal`: a session that says it records has a recorder.
- `StreamsOrEnds`: Run reads a live stream again and again or returns.
- `ExpiredRecordingEnds`: a recording whose end has come is turned off.
- `NothingPullsAtTheEnd`: when Run and the recorders are gone no ffmpeg pulls.
  This fails; what holds is the next one.
- `OnlyRacesLeavePullers`: one that does was left by one of two races: two
  goroutines were opening at once, or a recorder had a new process in hand when
  Run was gone. `StreamHistory` adds the history that says so (`raced`) and leaves
  the behaviours of `Stream` as they are.

In `Engine.tla`:

- `NothingLeft`: main returns only when registry, requests and servers are gone.
- `RoomWhenLetIn`: what admission lets in has room on the host.
- `EndsWhenTold`: a signal or the loss of a server ends the process, unless an HTTP
  request is held for ever (`Held`).

The last three modules have a `TypeOK` each.

| run | instance | shows |
|---|---|---|
| `manager_safety` | 1 client, 2 sessions, requests that detect, shutdown, restarts; nothing recycled, pusher starts | `TypeOK`, `NoZombie`, `NoStrayProcess`, `OnlyRacesHideRuns` (2.4 million states) |
| `manager_liveness` | 1 client, all requests, 1 session, pusher may fail, fair | `Inv`, `RegisteredIsUsed`, `ResetEndsRun`, `ImplementsRegistry` (86 thousand) |
| `recycled_zombie` | as `manager_safety`, objects recycled | `NoZombie` fails |
| `stale_teardown` | 1 client creates twice, a puller may fail | `LiveRunIsFound` fails |
| `double_put` | 1 client creates and removes, objects recycled | `PooledUnregistered` fails |
| `pusher_leak` | pusher may fail | `NoStrayProcess` fails |
| `pipeline` | 4 frames, queue of 1, a label, storing succeeds, fair | `TypeOK`, `ResultsAreRecent`, `InOrder`, `LabelIsPictured`, `LoopEndsWithSession`, `ImplementsFeed` (0.26 million) |
| `nil_context` | 2 frames | `NoPanic` fails |
| `stream` | Run and a recorder, 2 addresses, 2 processes, 1 retry | `TypeOK`, `NoLostProcess`, `LastAddressWins`, `RecordingIsReal`, `OnlyRacesLeavePullers` (1.5 million) |
| `stream_liveness` | 1 address, directories may fail, fair | `StreamsOrEnds`, `ExpiredRecordingEnds` (0.4 million) |
| `orphan_puller` | as `stream`, 1 address | `NothingPullsAtTheEnd` fails |
| `engine` | 1 HTTP and 1 gRPC request at a time, 2 ids, fair | `TypeOK`, `NothingLeft`, `RoomWhenLetIn`, `EndsWhenTold` (0.2 million) |

The passing runs state under which conditions the program is sound, and the
failing ones that a condition is needed and that the code does not ensure it:

1. *Objects are not recycled.* The tick Puts a session without Reset (line 128),
   so `handledClose` is still set when the object becomes another session. That
   session cannot report its end, and the tick cannot claim it: it stays in the
   map until a client deletes it. `src/README.md` line 229 promises that expired
   sessions are cleaned up. And a session is Put by each teardown that loaded it
   (76, 102, 128, 297): once the object is got and stored again, a teardown that is
   late puts a session in use into the pool (`double_put`), to be handed out a
   second time. `handledClose` is to exclude that (the comment on line 120), but
   two of the teardowns do not look at it and Reset gives it back.
2. *No goroutine takes over another session's entry*, for `LiveRunIsFound`. Two
   creations may, since `Load` and `Store` are separate (139, 168), although a
   creation is to test for the session first (`engine_http.go` 176). A creation
   and a teardown may too: the tick, `closeChRecv` and `RemoveSession` delete by id
   what they loaded earlier (118-126, 89-97, 287-292), so a teardown that is
   overtaken by a failing creation and a second one takes the second one's entry
   out of the map and cancels the first one's context. The second Run goes on
   and no request or tick reaches it, though the tick is there to clean up
   what is left (`src/README.md` 229). `OnlyRacesHideRuns` says that these are all.
   The run has one client, so creations do not overlap in it; the theorem has any
   number of clients.
3. *The pusher starts.* If it does not, the entry stays without a Run, and the
   tick drops it with its puller running (179-181, 124-128), against
   `src/README.md` 436-437.
4. *Pictures can be decoded, written and published*, for `LabelIsPictured`, since the label is cached before the
   attempt (`session.go` 615); *directories can be made*, for `RecordingIsReal`,
   since the flag is set before the attempt.
5. *No session goes while its loop waits for the AI service.* `Reset` sets the
   context to nil under it, and the loop panics without a recover (246, 584):
   removing a session can end the process, where `src/README.md` 291 speaks of a
   graceful exit. A recorder does the same (697, 718, 761), which the properties
   of `Stream` allow for with `Crashed`.
6. *No start falls between Run's test and its swap.* Run decides at line 478 that
   detection is over and turns it off at line 479: a start or a renewal in
   between is lost, although detection is said to be resumable
   (`src/README.md` 228). `RunTest` and `RunExpire` are two actions for that
   reason; no property is about it.
7. *No session goes while its recorder waits for an address.* The recorder then
   opens a puller that nobody is left to end (764), against `src/README.md` 436-437.
   Nor do two goroutines open a puller at once (the throttle's Load and Store, 809
   and 814, are apart, it does not hold back an update, and `PreparePuller` does not
   keep its lock from the clearing to the setting): the process set first is
   overwritten while it lives. These two races are all
   (`OnlyRacesLeavePullers`).

The map itself needs no condition on overlap. `RemoveSession` and `closeChRecv`
do not take part in the `handledClose` protocol, and `Reset` clears its flag
(session.go 212), so the double cleanup that the comment on line 120 of
`session_manager.go` excludes does happen. `NoZombie` and
`ImplementsRegistry` hold in spite of that, as long as nothing is recycled: what
suffers are Runs that are still at work (condition 2), not the entries.

### Fairness

`FairSpec` is weakly fair to every goroutine of the program, as the Go
scheduler is: each request handler once it has a request, the receiver, the
tick (whose ticker keeps firing), the closer, each `Run` and each recorder. A
segment of a recorder ends because ffmpeg is given `-timeout` and `-t`. Not
fair are: clients, who owe no request; shutdown; and the read of a frame,
because the pulling ffmpeg has no timeout and a stalled camera delivers neither
a frame nor an end. Once its ffmpeg is killed the read has returned an end
(`PullerKilled`), and `AfterEOF` and `RunMoves` are fair. So `ResetEndsRun`
does not rest on a camera that answers. Nor does it on an address service: a Run
that has asked for an address (`ReGetRtspURL`, `session.go` 451) is not owed an
answer, because both clients are `http.DefaultClient`, which has no timeout
(`start_play.go` 35); `WaitsForAddress` excepts it from `AfterEOF` and is the
exception of `ResetEndsRun`. `RegisteredIsUsed` and `ImplementsRegistry` need none:
the tick takes the session down without its Run. No strong fairness is used: a Run that
waits for room in `closeCh` is alone with the receiver, which takes the notice.

In `DetectPipeline` the loop's own steps and the storing goroutines are fair; Run is
not, since its camera may stall, and neither are clients and teardown. An answer
of the AI service is not owed. Only `detectObjectsUvicronSocket` has a timeout, and
both configurations in the repository (`configs/video_detect.toml` 9,
`configs/video_detect_linux.toml` 8) choose `detectObjects`, whose `http.Post` (`detect.go` 50)
has none. So `LoopEndsWithSession` excepts a loop that waits in the call for ever, and
`FrameFeed` is fair to taking a frame and to ending but not to an answer.

In `Stream`, Run, the recorders and a handler that has begun are fair. The
answer of an address service is not owed: `http.DefaultClient` has no timeout.
`StreamsOrEnds` and `ExpiredRecordingEnds` name that case, and the first also
clients that start recordings without end, each of which brings new retries.
Neither is the end of an ffmpeg owed, nor the end of a segment of five seconds
taken for granted beyond what ffmpeg's `-t` and `-timeout` give it.

In `Engine`, main, the servers and the HTTP handlers are fair; signals, requests,
failures of a server and the answer of the AI service are not, and neither is the
client at the other end of a connection. The server has no `ReadTimeout` and no
`WriteTimeout` (`engine.go` 107-110), so a client may keep a handler that binds a body
(`dto.go` 68) waiting for it, and may not take the answer. Each of these, and a
`DetectTest` that waits for the AI service, may hold a shutdown for ever: `Held`
names them, as the exceptions of `EndsWhenTold`, for `srv.Shutdown` (168) is called with a
context that has no deadline. That no other wait can hold it is what the property
shows.

In `SessionRegistry`, an entry whose id stays on its way out is removed. That
this follows from the fairness of the goroutines is checked by `manager_liveness`.

## 8. What is proved

`SessionManagerProofs.tla`: `TypeCorrect == Spec => []TypeOK`, for every value
of the constants that satisfies `ConstantsAssumption`, objects recycled or not.
`TypeOK` alone is not inductive: that a found object is an object, and that an
id in hand is an id, depend on where the goroutine is. `Holding` says so, and
`TypeInv == TypeOK /\ Holding` is inductive.

`SessionManagerSafety.tla`, from `ConstantsAssumption` and `Recycle = FALSE`:

- `FreshInv == Spec => []Inv`
- `FreshNoZombie == Spec => []NoZombie`

The argument. `NoZombie` needs that a registered session with `handledClose`
set is leaving (`HandledLeaves`) and that the flag is set once a Run has passed
`SendIDToCloseCh` (`EndedIsHandled`). The only step that takes the flag
back is Reset, so a session being Reset must be out of the map: `TornDown` says
that it can be found under the id being deleted at most, and after that under
none. For this a session must be registered under its own id only
(`NamedByKey`), and no creator may store an object that anybody else knows
(`CreatorAlone`, `OwnContext`), which is where recycling would break it:
`OnlyWiredInUse` says that an object fresh from `New` is unknown to everyone.
`PooledUnregistered`, a conjunct of `Inv`, is preserved because Put follows the
deletion and a Store is of a fresh object. Nothing in the argument needs that creations do not
overlap, that the pusher starts or that teardowns exclude each other, so these
results hold with all three.

The proof has a lemma per kind of step: `RunsWorkSound` for the steps of Runs
and recorders that leave the registry alone, `MovesOnSound` for goroutines that
merely go on, `EntryGoneSound` for deletions, and one each for creation, Reset,
Put, the claim and the notice.

`SessionManagerOwners.tla`, from the same:

- `FreshNoStrayProcess == Spec => []NoStrayProcess`, if also `PushMayFail = FALSE`
  and, when streams are restarted, nobody asks for a recording
- `OnlyTakeoversHideRuns == HistorySpec => []OnlyRacesHideRuns`

The argument. For the first: processes belong to the handler that makes the
session and then to its Run (`ProcsOwned`), which no other handler and no other
Run shares (`OneMaker`); Run is the last to have them and clears them. A pusher
that fails, or a recorder that opens a puller (`NoRenewal`), would break the
chain, and `pusher_leak` and `orphan_puller` show that they do.

For the second nothing is assumed of pushers, restarts or recorders, nor that
requests or teardowns keep out of each other's way. `HistoryInv` speaks of what
*serves* a session: its Run while that works, or the handler that is going to
start it. Until its context is cancelled, the object has that context and no
other to be cancelled by (`OwnContextKept`). A goroutine of the manager that is
about to delete an entry, and any goroutine that is about to clear the fields of
a session, has what serves that session cancelled (`CancelledBefore`), because it
cancelled the object's own context. So as long as each deletes and stores only over
entries of its own session, what serves and is not cancelled is in the map, or
in the hands of the creator that will store it or of the RemoveSession that will
cancel it (`Found`). A step that takes over another's entry sets `raced`.

`SessionManagerRefinementProofs.tla`, from the same:

- `FreshImplementsRegistry == Spec => Registry!Spec`

Every action has a lemma: it is a step of `SessionRegistry` or leaves its
variables alone. Besides the invariant it needs `ShutdownInv`: `up` says where the
closer is, no handler is at work once the engine closes, and every entry that is
left has its turn in the closer's Range. That a session enters the map once rests
on fresh objects. Registering a session that was in the map before is what a
recycled object would do.

`DetectPipelineProofs.tla`, from `PipelineAssumption`:

- `AlwaysRecent == Spec => []ResultsAreRecent`
- `AlwaysInOrder == Spec => []InOrder`
- `PipelineImplementsFeed == Spec => Feed!Spec`

`RecentInv` adds to the two that, while a frame is on offer, at most `QueueCap`
frames were accepted since the one whose results are held (`OfferIsCounted`):
results are forgotten when Run turns to a frame, and an answer that arrives
then is of a frame that only the queue's can have followed (`InOrder`). The
offer adds one. `Numbers` is the part of the types that the arithmetic needs. For
the refinement every action has a step of `FrameFeed` or a stutter; `InOrder`
makes the head of the queue the next frame to be taken, and its length what is
accepted and not taken, and `OfferIsCounted` is what `Accept` asks of the lag.

`DetectPipelineLabels.tla`:

- `PipelineTypes == Spec => []TypeOK`
- `StoredLabelsArePictured == Spec => []LabelIsPictured`, from `StoreMayFail = FALSE`

A storing goroutine that adds a label to the cache keeps it among its new ones
until its picture is published. It must not be replaced meanwhile: a frame is
answered once, since frames are detected in order (`InOrder`), so an answer finds
no goroutine of its frame (`Fresh`).

`StreamProofs.tla`, from `StreamAssumption`:

- `StreamTypes == Spec => []TypeOK`
- `NoPullerIsLost == Spec => []NoLostProcess`
- `TheLastAddressWins == Spec => []LastAddressWins`
- `RecordingsAreReal == Spec => []RecordingIsReal`
- `RacesLeavePullers == HistorySpec => []OnlyRacesLeavePullers`
- `NoRestartLeavesNothing == Spec => []NothingPullsAtTheEnd`, if `AutoRestart = FALSE`

`Alone`: a goroutine that is opening and has not crossed another will set its
process where there is none, and no other is opening. `AddressInv`:
while Run lives, either it is *covered*, that is, it has been told to open the
stream again, is just opening it, or some reset is between clearing the stream
and telling Run; or the process it has, and the one it may have in hand, are of
the session's address. Only Run's own updates end a cover without telling it,
and such an update has cleared what it had and takes the address anew when it
starts; an opener that fails leaves nothing behind but what others have in hand,
of another address perhaps (`outdated`). The proof sorts the
steps into those of openers, the `Quiet` ones of other goroutines, and those that
move no goroutine. The last two rest on `EveryPullerKnown`: what pulls is the
session's or in somebody's hand. A step that starts no process and sets none
keeps that, because what it takes from the session it kills; `SetPuller` keeps it
when the goroutine has not crossed another, since by `Alone` there is nothing to
overwrite. Run leaves with the session's process cleared, and no recorder sets
another after that. Without restarts nobody asks for an address and nobody opens
a puller (`NoOpening`), so neither race happens.

`EngineProofs.tla`, from `EngineAssumption`:

- `EngineTypes == Spec => []TypeOK`
- `ShutdownLeavesNothing == Spec => []NothingLeft`
- `AlwaysRoom == Spec => []RoomWhenLetIn`

`EngineInv` follows the order of a shutdown: nothing comes in before Run
(`NothingYet`); a server is closed before main goes on (`Closing`); in the Range
no handler is at work and every session left is still to come (`Emptying`).
`RoomWhenLetIn` needs that `Bind` has let the limit pass (`Bound`); then it is
the lemma `EnoughIsRoom` on the admission test.

So every invariant that a passing run checks is a theorem. Model-checked only:
the liveness properties and the liveness parts of `ImplementsRegistry` and
`ImplementsFeed`, since liveness under fairness is not proved with TLAPS; and, of what recycling does,
everything but the types.

## 9. Not modelled

- *Publishing to Redis* (`detect_store.go`): end notices and results are sent by
  goroutines of their own, and nothing in this repository reads them.
- *Command lines of ffmpeg* and the copying of pictures into frames: data.
- *Signing of requests* to the camera platform (`hk.go`), and connections of
  `net/http`.
- *Code without a caller*: `StopSessionRun`, `SetRecorder`,
  `startFFmpegRecording`, `CheckDetectServiceResources`.
- *The AI service* (`ai_service/main.py`), a stateless process of its own.
- *Configuration, logging, middleware, response helpers*; *generated code* in `pb/`.
- *Data races on the mutexes* that a recycled object is given anew while the
  last session's goroutines hold the old ones (`session_manager.go` 155-157): the
  recycled runs have the objects' fields, not their locks.

## 10. Running it

    tlc -workers 2 -config manager_safety.cfg MCSessionManagerHistory
    tlc -workers 2 -config manager_liveness.cfg MCSessionManager
    tlc -workers 2 -config pipeline.cfg MCDetectPipeline
    tlc -workers 2 -config stream.cfg MCStream
    tlc -workers 2 -config engine.cfg MCEngine
    tlapm SessionManagerProofs.tla

and so on for each `.cfg` and each module with theorems.
