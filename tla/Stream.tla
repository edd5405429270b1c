------------------------------- MODULE Stream -------------------------------
(***************************************************************************)
(* The camera stream of one session: the pulling ffmpeg that Session.Run   *)
(* reads, the recorders of StartRecording, and ResetRtspURL, by which      *)
(* either of them has the stream opened again at a new address (engine/    *)
(* session.go, session_lock_fc.go). Clients start and stop recording, and  *)
(* the tick, a DELETE, closeChRecv or a shutdown take the session down     *)
(* meanwhile. The module starts when CreateSession has started Run.        *)
(*                                                                         *)
(* Nothing sets the recorder's command (SetRecorder has no caller), so     *)
(* ClearRecorder does nothing, and what BroadcastRtspUpdate tells the      *)
(* recorder only sends it back to the head of its loop: both are left out. *)
(* Detection on the frames is DetectPipeline's.                            *)
(***************************************************************************)
EXTENDS Integers, FiniteSets

CONSTANTS
  Addresses,     \* addresses the camera address service gives
  NoAddress,     \* no address: "" in Go, also the address of a Reset session
  Recorders,     \* goroutines of StartRecording; bounds those alive at once
  MaxPids,       \* bound: pulling ffmpeg processes alive or referred to
  RetryTimes,    \* Session.retryTimes
  AutoRestart,   \* Session.pullEOFAutoRestart
  RestartMode,   \* cfg.Engine.PullRestartMode
  MkdirMayFail   \* may StartRecording fail to make its directory?

Runner == "Run"

ASSUME StreamAssumption ==
  /\ NoAddress \notin Addresses /\ RestartMode \in {"wvp", "hk"}
  /\ Runner \notin Recorders
  /\ MaxPids \in Nat \ {0} /\ RetryTimes \in Nat
  /\ AutoRestart \in BOOLEAN /\ MkdirMayFail \in BOOLEAN

VARIABLES
  url,       \* Session.rtspURL
  recent,    \* lastResetAt lies less than five seconds back
  due,       \* the clock has reached recordEndTimestamp
  record,    \* Session.recordStatus
  running,   \* Session.runningStatus
  life,      \* Session.ctx: "live", "cancelled", or "reset" (nil)
  toRun,     \* rtspUpdateChRun holds an address
  puller,    \* the process of pullFFmpegCmd and pullReader; 0 for nil
  proc,      \* the pulling processes
  reading,   \* the process whose output Run has a ReadFull on
  at,        \* where Run and the recorders are
  client,    \* a handler that starts or stops recording
  down       \* how far the teardown of the session is

status == <<recent, due, record, running>>
source == <<url, puller, proc>>
vars == <<status, life, toRun, source, reading, at, client, down>>

Pids == 1..MaxPids
Goroutines == {Runner} \cup Recorders
Places == Addresses \cup {NoAddress}

\* Is a process up, and at which address; and (history) did a reset to another
\* address fail to open its puller while this one was in somebody's hand?
Process == [up : BOOLEAN, addr : Places, outdated : BOOLEAN]
Gone == [up |-> FALSE, addr |-> NoAddress, outdated |-> FALSE]
Started(addr) == [up |-> TRUE, addr |-> addr, outdated |-> FALSE]

\* The steps of ResetRtspURL, with PreparePuller from "open" to "mark".
Resetting == {"clear", "open", "start", "set", "mark"}
RunPcs == {"head", "read", "ask", "clean", "done"}
RecorderPcs == {"none", "head", "segment", "ask", "end", "zero", "panicked"}

\* `got` is the address that ResetRtspURL was called with, `hand` a process
\* not yet set; `update`: Run opens the puller for an update, not a reset;
\* `crossed` (history): another goroutine was opening at the same time.
State == [pc : Resetting \cup RunPcs \cup RecorderPcs, eofs : 0..RetryTimes,
          got : Places, hand : 0..MaxPids,
          update : BOOLEAN, crossed : BOOLEAN]
Resting(pc) ==
  [pc |-> pc, eofs |-> 0, got |-> NoAddress, hand |-> 0,
   update |-> FALSE, crossed |-> FALSE]

TypeOK ==
  /\ url \in Places
  /\ {recent, due, record, running, toRun} \subseteq BOOLEAN
  /\ life \in {"live", "cancelled", "reset"}
  /\ puller \in 0..MaxPids /\ reading \in 0..MaxPids
  /\ proc \in [Pids -> Process]
  /\ at \in [Goroutines -> State]
  /\ client \in {"idle", "renew", "start"}
  /\ down \in {"none", "reset", "done"}

\* CreateSession has opened the puller and started Run. The throttle of the
\* session that the object was before is still in force, and so is its end
\* of recording.
Init ==
  /\ url \in Addresses /\ recent \in BOOLEAN /\ due \in BOOLEAN
  /\ record = FALSE /\ running = TRUE /\ life = "live" /\ toRun = FALSE
  /\ puller = 1 /\ reading = 0
  /\ proc = [p \in Pids |-> IF p = 1 THEN Started(url) ELSE Gone]
  /\ at = [g \in Goroutines |-> Resting(IF g = Runner THEN "head" ELSE "none")]
  /\ client = "idle" /\ down = "none"

(***************************************************************************)
(* Helpers                                                                 *)
(***************************************************************************)
Goto(g, pc) == at' = [at EXCEPT ![g].pc = pc]

Up(p) == p \in Pids /\ proc[p].up

Killed(p) == [q \in Pids |-> IF q = p THEN Gone ELSE proc[q]]

\* ClearPuller: kill the process, wait for it, forget it.
ClearPuller ==
  /\ puller' = 0
  /\ proc' = Killed(puller)

\* A process that nobody knows any more.
Free(p) ==
  /\ ~Up(p) /\ p \notin {puller, reading}
  /\ \A g \in Goroutines : at[g].hand # p

\* The process that the next Start brings up.
NextPid == CHOOSE p \in Pids : Free(p)

Crashed == \E r \in Recorders : at[r].pc = "panicked"

\* cancelFunc; nil after Reset, when calling it panics.
Cancelled == IF life = "live" THEN "cancelled" ELSE life

(***************************************************************************)
(* The address services: ReGetRtspURL. A response may fail to come, have   *)
(* another status than 200, not decode, bear a code that is not "0", and   *)
(* hold an address or none.                                                *)
(***************************************************************************)
Response == [came : BOOLEAN, ok : BOOLEAN, decodes : BOOLEAN,
             zero : BOOLEAN, addr : Places]

\* hk_utils.GetStartPlayUrl looks at the code and not at the status.
GetStartPlayUrl(r) == IF r.came /\ r.decodes /\ r.zero THEN r.addr ELSE NoAddress

\* wvp_utils.WvpStartPlay looks at the status and not at the code.
WvpStartPlay(r) == IF r.came /\ r.ok /\ r.decodes THEN r.addr ELSE NoAddress

\* NewPullEOFRestart chooses between them. An error and an empty address are
\* the same to Run and to the recorder.
ReGetRtspURL(r) == IF RestartMode = "wvp" THEN WvpStartPlay(r) ELSE GetStartPlayUrl(r)

(***************************************************************************)
(* ResetRtspURL and PreparePuller, by Run or by a recorder                 *)
(***************************************************************************)
\* A goroutine goes on after its reset, or Run after an update.
Return(g) ==
  at' = [at EXCEPT ![g] = [@ EXCEPT !.pc = "head", !.update = FALSE, !.crossed = FALSE]]

\* Run gives up: s.cancelFunc() and return.
GiveUp ==
  /\ life' = Cancelled
  /\ at' = [at EXCEPT ![Runner] = Resting("clean")]

\* lastResetAt.Store, not in one step with the Load; ClearPuller; the address
\* (in one step: whatever is set in between, PreparePuller clears again).
ResetClears(g) ==
  /\ at[g].pc = "clear"
  /\ recent' = TRUE
  /\ ClearPuller
  /\ url' = at[g].got
  /\ at' = [at EXCEPT ![g].pc = "open", ![g].got = NoAddress]
  /\ UNCHANGED <<due, record, running, life, toRun, reading, client, down>>

\* Is g between the ClearPuller and the SetPuller of PreparePuller? pullMu is
\* not held from the one to the other. And which others are?
IsOpening(g) == at[g].pc \in {"start", "set"}

Rivals(g) == {h \in Goroutines \ {g} : IsOpening(h)}

\* Mutant: without the ClearPuller of PreparePuller.
PullerNotCleared(g) ==
  /\ at[g].pc = "open"
  /\ Goto(g, "start")
  /\ UNCHANGED <<source, status, life, toRun, reading, client, down>>

\* PreparePuller: clear again, ...
PullerClears(g) ==
  /\ at[g].pc = "open"
  /\ ClearPuller
  /\ at' = [h \in Goroutines |->
              IF h = g THEN [at[g] EXCEPT !.pc = "start", !.crossed = Rivals(g) # {}]
              ELSE IF h \in Rivals(g) THEN [at[h] EXCEPT !.crossed = TRUE]
              ELSE at[h]]
  /\ UNCHANGED <<url, status, life, toRun, reading, client, down>>

\* ... start ffmpeg with the session's address, ...
PullerStarts(g) ==
  /\ at[g].pc = "start"
  /\ \E p \in Pids : Free(p)
  /\ proc' = [proc EXCEPT ![NextPid] = Started(url)]
  /\ at' = [at EXCEPT ![g].pc = "set", ![g].hand = NextPid]
  /\ UNCHANGED <<url, puller, status, life, toRun, reading, client, down>>

\* ... which may fail: the deferred ClearPuller. The recorder, and Run after
\* an update, do not look at the error.
PullerDoesNotStart(g) ==
  /\ at[g].pc = "start"
  /\ puller' = 0
  /\ proc' = [p \in Pids |->
                IF p \in {at[h].hand : h \in Goroutines \ {g}}
                THEN [proc[p] EXCEPT !.outdated = @ \/ proc[p].addr # url]
                ELSE Killed(puller)[p]]
  /\ IF g = Runner /\ ~at[g].update THEN GiveUp ELSE Return(g) /\ UNCHANGED life
  /\ UNCHANGED <<url, status, toRun, reading, client, down>>

\* SetPuller: a process set meanwhile by another opener is overwritten.
SetPuller(g) ==
  /\ at[g].pc = "set"
  /\ puller' = at[g].hand
  /\ at' = [at EXCEPT ![g].pc = "mark", ![g].hand = 0, ![g].crossed = FALSE]
  /\ UNCHANGED <<url, proc, status, life, toRun, reading, client, down>>

\* Mutant: nothing is broadcast.
MarkRunningSilent(g) ==
  /\ at[g].pc = "mark"
  /\ running' = TRUE
  /\ Return(g)
  /\ UNCHANGED <<recent, due, record, life, toRun, source, reading, client, down>>

\* runningStatus.Store(true), where an update ends; and BroadcastRtspUpdate
\* to Run, whose channel drops an address when it holds one already. (Run is
\* also told when the session is stopped just between the two.)
MarkRunning(g) ==
  /\ at[g].pc = "mark"
  /\ running' = TRUE
  /\ toRun' = (toRun \/ ~at[g].update)
  /\ Return(g)
  /\ UNCHANGED <<recent, due, record, life, source, reading, client, down>>

ResetStep(g) ==
  \/ ResetClears(g) \/ PullerClears(g) \/ PullerStarts(g) \/ PullerDoesNotStart(g)
  \/ SetPuller(g) \/ MarkRunning(g)

(***************************************************************************)
(* Session.Run                                                             *)
(***************************************************************************)
\* The context is done, or nil (the panic is recovered), or the session does
\* not run any more.
RunStops ==
  /\ at[Runner].pc = "head"
  /\ life # "live" \/ (~running /\ ~toRun)
  /\ Goto(Runner, "clean")
  /\ UNCHANGED <<status, life, toRun, source, reading, client, down>>

\* An address was broadcast: open the puller again, whoever broadcast it.
RunUpdates ==
  /\ at[Runner].pc = "head" /\ toRun /\ life # "reset"
  /\ toRun' = FALSE
  /\ at' = [at EXCEPT ![Runner].pc = "open", ![Runner].update = TRUE]
  /\ UNCHANGED <<status, life, source, reading, client, down>>

\* PullerRead takes the reader and blocks in ReadFull.
RunReads ==
  /\ at[Runner].pc = "head" /\ life = "live" /\ ~toRun /\ running
  /\ Up(puller)
  /\ reading' = puller
  /\ Goto(Runner, "read")
  /\ UNCHANGED <<status, life, toRun, source, client, down>>

\* A frame; or the process went during the read, and the error is not EOF
\* but a frame cut short or a file already closed: the frame is skipped.
RunFrame ==
  /\ at[Runner].pc = "read"
  /\ reading' = 0
  /\ Goto(Runner, "head")
  /\ UNCHANGED <<status, life, toRun, source, client, down>>

\* PusherWrite failed on a frame.
RunCannotPush ==
  /\ at[Runner].pc = "read" /\ Up(reading)
  /\ reading' = 0
  /\ GiveUp
  /\ UNCHANGED <<status, toRun, source, client, down>>

\* Mutants: one retry too many; a retry that is not counted.
MayRetryOnceMore(g) == AutoRestart /\ at[g].eofs <= RetryTimes
AskUncounted(g) == at' = [at EXCEPT ![g].pc = "ask"]

\* Ends of the stream are counted for the life of a goroutine; are there
\* retries left at one?
MayRetry(g) == AutoRestart /\ at[g].eofs < RetryTimes

Ask(g) == at' = [at EXCEPT ![g].pc = "ask", ![g].eofs = @ + 1]

\* EOF in the read, at its start, or no reader: ask for another address.
RunEOF ==
  /\ \/ at[Runner].pc = "read" /\ ~Up(reading)
     \/ /\ at[Runner].pc = "head" /\ life = "live" /\ ~toRun /\ running
        /\ ~Up(puller)
  /\ reading' = 0
  /\ IF MayRetry(Runner) THEN Ask(Runner) /\ UNCHANGED life ELSE GiveUp
  /\ UNCHANGED <<status, toRun, source, client, down>>

\* ReGetRtspURL returns with an address to Run, or to a recorder, which
\* calls ResetRtspURL with it: nothing is done, and no error returned, when
\* the last reset is less than five seconds old ...
ResetThrottled(g, addr) ==
  /\ at[g].pc = "ask" /\ addr # NoAddress /\ recent
  /\ Return(g)
  /\ UNCHANGED <<status, life, toRun, source, reading, client, down>>

ResetAllowed(g, addr) ==
  /\ at[g].pc = "ask" /\ addr # NoAddress /\ ~recent
  /\ at' = [at EXCEPT ![g].pc = "clear", ![g].got = addr]
  /\ UNCHANGED <<status, life, toRun, source, reading, client, down>>

\* ... or it returns without an address.
Refused(g, addr) ==
  /\ at[g].pc = "ask" /\ addr = NoAddress
  /\ IF g = Runner THEN GiveUp ELSE Goto(g, "end") /\ UNCHANGED life
  /\ UNCHANGED <<status, toRun, source, reading, client, down>>

Answer(g) ==
  \E addr \in {ReGetRtspURL(r) : r \in Response} :
    ResetThrottled(g, addr) \/ ResetAllowed(g, addr) \/ Refused(g, addr)

\* Mutant: the deferred function leaves the puller to Reset.
RunCleansFlags ==
  /\ at[Runner].pc = "clean"
  /\ running' = FALSE /\ record' = FALSE /\ due' = TRUE
  /\ at' = [at EXCEPT ![Runner] = Resting("done")]
  /\ UNCHANGED <<recent, life, toRun, source, reading, client, down>>

\* The deferred function.
RunCleans ==
  /\ at[Runner].pc = "clean"
  /\ running' = FALSE /\ record' = FALSE /\ due' = TRUE
  /\ ClearPuller
  /\ at' = [at EXCEPT ![Runner] = Resting("done")]
  /\ UNCHANGED <<recent, url, life, toRun, reading, client, down>>

RunStep ==
  RunStops \/ RunUpdates \/ RunReads \/ RunEOF \/ RunCleans

(***************************************************************************)
(* A recorder: the goroutine of StartRecording. At a nil context or cancel *)
(* function it panics, and nothing recovers: the whole process ends.       *)
(***************************************************************************)
RecorderPanics(r) ==
  /\ at[r].pc = "head" /\ life = "reset"
  /\ Goto(r, "panicked")
  /\ UNCHANGED <<status, life, toRun, source, reading, client, down>>

\* Mutant: the end is not looked at.
OverWhenStopped == ~record

\* The test of recordStatus and recordEndTimestamp.
RecordingOver == ~record \/ due

\* Cancelled, stopped or expired.
RecorderLeaves(r) ==
  /\ at[r].pc = "head" /\ life # "reset"
  /\ life = "cancelled" \/ RecordingOver
  /\ Goto(r, "end")
  /\ UNCHANGED <<status, life, toRun, source, reading, client, down>>

RecorderStarts(r) ==
  /\ at[r].pc = "head" /\ life = "live" /\ ~RecordingOver
  /\ Goto(r, "segment")
  /\ UNCHANGED <<status, life, toRun, source, reading, client, down>>

\* The segment is complete, is published, and half a second passes.
RecorderCompletes(r) ==
  /\ at[r].pc = "segment"
  /\ Goto(r, "head")
  /\ UNCHANGED <<status, life, toRun, source, reading, client, down>>

\* The segment failed (its ffmpeg dies with the context too), and the
\* session is not running: no retry.
RecorderFails(r) ==
  /\ at[r].pc = "segment" /\ ~running
  /\ Goto(r, "end")
  /\ UNCHANGED <<status, life, toRun, source, reading, client, down>>

\* The segment failed and the session runs: retry, or cancel it.
RecorderRetries(r) ==
  /\ at[r].pc = "segment" /\ running /\ MayRetry(r)
  /\ Ask(r)
  /\ UNCHANGED <<status, life, toRun, source, reading, client, down>>

RecorderGivesUp(r) ==
  /\ at[r].pc = "segment" /\ running /\ ~MayRetry(r)
  /\ life' = Cancelled
  /\ Goto(r, IF life = "reset" THEN "panicked" ELSE "end")
  /\ UNCHANGED <<status, toRun, source, reading, client, down>>

\* Mutant: the deferred function leaves recordStatus.
RecorderEndsSilent(r) ==
  /\ at[r].pc = "end"
  /\ Goto(r, "zero")
  /\ UNCHANGED <<status, life, toRun, source, reading, client, down>>

\* The deferred function: recordStatus, ...
RecorderEnds(r) ==
  /\ at[r].pc = "end"
  /\ record' = FALSE
  /\ Goto(r, "zero")
  /\ UNCHANGED <<recent, due, running, life, toRun, source, reading, client, down>>

\* ... then recordEndTimestamp.Store(0).
RecorderZeroes(r) ==
  /\ at[r].pc = "zero"
  /\ due' = TRUE
  /\ at' = [at EXCEPT ![r] = Resting("none")]
  /\ UNCHANGED <<recent, record, running, life, toRun, source, reading, client, down>>

RecorderStep(r) ==
  \/ RecorderPanics(r) \/ RecorderLeaves(r) \/ RecorderStarts(r)
  \/ RecorderCompletes(r) \/ RecorderFails(r) \/ RecorderRetries(r)
  \/ RecorderGivesUp(r) \/ RecorderEnds(r) \/ RecorderZeroes(r)

(***************************************************************************)
(* Clients that start and stop recording                                   *)
(***************************************************************************)
\* StartSessionRecord: recordStatus.CompareAndSwap(false, true). The handler
\* may have found the session before a teardown deleted its entry.
StartSessionRecord ==
  /\ client = "idle" /\ down # "done"
  /\ record \/ \E r \in Recorders : at[r].pc = "none"
  /\ record' = TRUE
  /\ client' = IF record THEN "renew" ELSE "start"
  /\ UNCHANGED <<recent, due, running, life, toRun, source, reading, at, down>>

\* It records already: a new end, and the client is told so.
RenewEnd ==
  /\ client = "renew"
  /\ due' = FALSE
  /\ client' = "idle"
  /\ UNCHANGED <<recent, record, running, life, toRun, source, reading, at, down>>

\* The end; then StartRecording: the directory, recordStatus once more, the
\* goroutine.
StartRecording(r) ==
  /\ client = "start" /\ at[r].pc = "none"
  /\ due' = FALSE /\ record' = TRUE
  /\ Goto(r, "head")
  /\ client' = "idle"
  /\ UNCHANGED <<recent, running, life, toRun, source, reading, down>>

\* The directory cannot be made: an error, and recordStatus stays.
MkdirFails ==
  /\ client = "start" /\ MkdirMayFail
  /\ due' = FALSE
  /\ client' = "idle"
  /\ UNCHANGED <<recent, record, running, life, toRun, source, reading, at, down>>

StopSessionRecord ==
  /\ client = "idle" /\ down # "done"
  /\ record' = FALSE
  /\ UNCHANGED <<recent, due, running, life, toRun, source, reading, at, client, down>>

ClientStep ==
  \/ RenewEnd \/ (\E r \in Recorders : StartRecording(r)) \/ MkdirFails

(***************************************************************************)
(* Time, the camera, and the goroutines that take the session down         *)
(***************************************************************************)
FiveSecondsPass ==
  /\ recent /\ recent' = FALSE
  /\ UNCHANGED <<due, record, running, life, toRun, source, reading, at, client, down>>

RecordingExpires ==
  /\ record /\ ~due /\ due' = TRUE
  /\ UNCHANGED <<recent, record, running, life, toRun, source, reading, at, client, down>>

\* A pulling ffmpeg ends: the camera has gone, or its output is not read.
\* (One that is in somebody's hand may as well end once it is set.)
ProcessEnds(p) ==
  /\ Up(p) /\ \A g \in Goroutines : at[g].hand # p
  /\ proc' = Killed(p)
  /\ UNCHANGED <<url, puller, status, life, toRun, reading, at, client, down>>

\* checkHealthySession: not running, or neither recorded nor detected on:
\* cancel, delete, Put, and no Reset.
TickReaps ==
  /\ down = "none"
  /\ ~running \/ ~record
  /\ life' = Cancelled
  /\ down' = "done"
  /\ UNCHANGED <<status, toRun, source, reading, at, client>>

\* RemoveSession: runningStatus, the entry, the context.
RemoveSession ==
  /\ down = "none"
  /\ running' = FALSE
  /\ life' = Cancelled
  /\ down' = "reset"
  /\ UNCHANGED <<recent, due, record, toRun, source, reading, at, client>>

\* closeChRecv gets the notice of a Run that has ended.
CloseNotice ==
  /\ down = "none" /\ at[Runner].pc = "done"
  /\ life' = Cancelled
  /\ down' = "reset"
  /\ UNCHANGED <<status, toRun, source, reading, at, client>>

\* SessionManager.Close, at a shutdown.
CloseManager ==
  /\ down = "none"
  /\ life' = Cancelled
  /\ down' = "reset"
  /\ UNCHANGED <<status, toRun, source, reading, at, client>>

\* Session.Reset: the flags, the puller, the context and the address.
Reset ==
  /\ down = "reset"
  /\ running' = FALSE /\ record' = FALSE
  /\ ClearPuller
  /\ life' = "reset" /\ url' = NoAddress
  /\ down' = "done"
  /\ UNCHANGED <<recent, due, toRun, reading, at, client>>

(***************************************************************************)
(* The specification. After a panic nothing happens any more.              *)
(***************************************************************************)
Next ==
  /\ ~Crashed
  /\ \/ \E g \in Goroutines : ResetStep(g) \/ Answer(g)
     \/ RunStep \/ RunFrame \/ RunCannotPush
     \/ \E r \in Recorders : RecorderStep(r)
     \/ StartSessionRecord \/ StopSessionRecord \/ ClientStep
     \/ FiveSecondsPass \/ RecordingExpires \/ \E p \in Pids : ProcessEnds(p)
     \/ TickReaps \/ RemoveSession \/ CloseNotice \/ CloseManager
     \/ Reset

Spec == Init /\ [][Next]_vars

(***************************************************************************)
(* Fairness. Run, the recorders and a handler that has started go on. No   *)
(* request, frame or end of the camera is owed, nor that the session is    *)
(* ever taken down, nor an answer of an address service: their clients are *)
(* http.DefaultClient, which has no timeout.                               *)
(***************************************************************************)
Fairness ==
  /\ WF_vars(~Crashed /\ (RunStep \/ ResetStep(Runner)))
  /\ \A r \in Recorders : WF_vars(~Crashed /\ (RecorderStep(r) \/ ResetStep(r)))
  /\ WF_vars(~Crashed /\ ClientStep)

FairSpec == Spec /\ Fairness

(***************************************************************************)
(* Safety                                                                  *)
(***************************************************************************)
RunLives == at[Runner].pc \notin {"clean", "done"}

\* SetPuller does not overwrite a live puller, which nobody could kill any
\* more: PreparePuller has cleared it. So it is unless two goroutines were
\* opening at once, each between its ClearPuller and its SetPuller, which
\* the throttle is there to prevent.
NoLostProcess ==
  \A g \in Goroutines : at[g].pc = "set" /\ Up(puller) => at[g].crossed

\* However resets by Run and by recorders overlap, once they are through the
\* stream that Run reads is that of the last address, or Run has been told
\* to open it again. (Unless the last reset could not open its puller while
\* another goroutine had one of an earlier address in hand: that one stays.)
LastAddressWins ==
  /\ RunLives /\ down = "none"
  /\ \A g \in Goroutines : at[g].pc \notin Resetting
  /\ Up(puller) /\ ~proc[puller].outdated
  => proc[puller].addr = url \/ toRun

\* A session that says it records has a recorder or is about to: otherwise
\* no request would ever start one, and the tick would never reap it.
RecordingIsReal ==
  ~MkdirMayFail /\ record =>
    \/ client = "start"
    \/ \E r \in Recorders : at[r].pc \notin {"none", "zero"}

\* Once Run has returned and no recorder is left, no ffmpeg pulls any more.
NothingPullsAtTheEnd ==
  /\ at[Runner].pc = "done" /\ down = "done"
  /\ \A r \in Recorders : at[r].pc = "none"
  => \A p \in Pids : ~Up(p)

(***************************************************************************)
(* Liveness                                                                *)
(***************************************************************************)
WaitsForAddress(g) == at[g].pc = "ask"

\* Run reads a live stream again and again, or returns: ends of the stream,
\* throttled resets, failed reopenings and its own and others' updates never
\* keep it busy for ever. Three things can: an address service that does not
\* answer, clients that start one recording after the other, whose recorders
\* each have their own retries, and the end of the whole process.
StreamsOrEnds ==
  \/ []<>(at[Runner].pc = "read" /\ Up(reading))
  \/ <>(at[Runner].pc = "done")
  \/ <>[]WaitsForAddress(Runner) \/ []<>(client = "start") \/ <>Crashed

\* A recording whose end has come is turned off by its recorder, unless it
\* is renewed: so that the tick can find the session idle. (A recording
\* whose directory could not be made has no recorder, and is never off.)
ExpiredRecordingEnds ==
  record /\ due /\ (\E r \in Recorders : at[r].pc \in {"head", "segment"}) ~>
    \/ ~record \/ ~due \/ Crashed
    \/ \E r \in Recorders : WaitsForAddress(r)
=============================================================================
