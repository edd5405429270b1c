--------------------------- MODULE SessionManager ---------------------------
(***************************************************************************)
(* The session registry of the detection engine: SessionManager of         *)
(* engine/session_manager.go with the part of Session (engine/session.go)  *)
(* that decides when a session is created, found, closed and recycled.     *)
(*                                                                         *)
(* Four kinds of goroutine share the map `sessions`, the object pool and   *)
(* the fields of each Session object, with no lock over any two of them:   *)
(*   - a request handler per client call (Callers),                        *)
(*   - closeChRecv, checkHealthySession and Close of the manager,          *)
(*   - Session.Run, one per session created (named by its context, Gens),  *)
(*   - the recorder goroutine of a session that records.                   *)
(* A step is what one of them does between two points where another may    *)
(* interfere: one access to the map, to the channel or to a flag that      *)
(* another goroutine tests.                                                *)
(***************************************************************************)
EXTENDS Integers, Sequences, FiniteSets

CONSTANTS
  Ids,           \* session ids that clients use
  NoId,          \* the empty id of a Session that was reset
  Objs,          \* Session objects; bounds the allocations of sessionPool.New
  NoObj,         \* "not in the map"
  Gens,          \* contexts, one per CreateSession; bounds the creations
  NoGen,         \* a nil ctx / cancelFunc
  Callers,       \* request handlers that run concurrently
  Ops,           \* the requests clients make
  CloseChanCap,  \* capacity of closeCh (128 in NewSessionManager)
  Recycle,       \* may sessionPool.Get return an object that was Put?
  PushMayFail,   \* may PreParePusher fail?
  AutoRestart,   \* are sessions created with EOFAutoRestart and retries?
  MayClose       \* may the engine be shut down?

\* The three goroutines of the manager itself.
Receiver == "closeChRecv"
Ticker == "checkHealthySession"
Closer == "Close"
Managers == {Receiver, Ticker, Closer}
Threads == Callers \cup Managers

\* The handlers that change state (GET requests only read).
Creating == {"CreateSession", "StartDetect", "StartRecord"}
AllOps == Creating \cup {"StopDetect", "StopRecord", "RemoveSession"}

ASSUME ConstantsAssumption ==
  /\ NoId \notin Ids
  /\ NoObj \notin Objs
  /\ NoGen \notin Gens
  /\ Callers \cap Managers = {}
  /\ Ops \subseteq AllOps
  /\ CloseChanCap \in Nat \ {0}
  /\ Recycle \in BOOLEAN
  /\ PushMayFail \in BOOLEAN
  /\ AutoRestart \in BOOLEAN
  /\ MayClose \in BOOLEAN

VARIABLES
  sessions,   \* the manager's map: id -> Session object
  pool,       \* sessionPool: how often each object was Put and not yet got
  idOf,       \* Session.id
  ctxOf,      \* Session.ctx and Session.cancelFunc
  wired,      \* Session.closeCh was injected: not a new object
  running,    \* Session.runningStatus
  detect,     \* Session.detectStatus
  record,     \* Session.recordStatus
  handled,    \* Session.handledClose
  update,     \* Session.rtspUpdateChRun holds an address
  procs,      \* the ffmpeg processes of a Session
  rec,        \* the recorder goroutine of a Session
  cancelled,  \* the contexts that were cancelled
  closeCh,    \* ids waiting for closeChRecv
  run,        \* Session.Run of each context
  th,         \* where each handler and manager goroutine is
  up          \* "serving", "closing" (DetectionEngine.Close), "down"

\* The fields of the Session objects, by what changes together.
identity == <<idOf, ctxOf, wired>>
flags == <<running, detect, record>>
media == <<update, procs, rec>>
fields == <<identity, flags, handled, media>>

vars == <<sessions, pool, fields, cancelled, closeCh, run, th, up>>

(***************************************************************************)
(* Values                                                                  *)
(***************************************************************************)
RunPcs == {"none", "held", "start", "loop", "read", "eof",
           "clean", "mark", "name", "send", "done"}
RunState ==
  [pc : RunPcs, obj : Objs \cup {NoObj}, home : Ids \cup {NoId},
   msg : Ids \cup {NoId}]

HandlerPcs == {"lookup", "check", "acquire", "store", "pull", "push",
               "byid", "flag", "drop"}
RangePcs == {"range", "claim"}
TeardownPcs == {"cancel", "delete", "reset", "clear", "put"}
ThreadState ==
  [pc : {"idle", "stopped"} \cup HandlerPcs \cup RangePcs \cup TeardownPcs,
   op : AllOps \cup {"none"}, id : Ids \cup {NoId},
   obj : Objs \cup {NoObj}, gen : Gens \cup {NoGen}, todo : SUBSET Ids]

Resting == [pc |-> "idle", op |-> "none", id |-> NoId,
            obj |-> NoObj, gen |-> NoGen, todo |-> {}]

TypeOK ==
  /\ sessions \in [Ids -> Objs \cup {NoObj}]
  /\ pool \in [Objs -> Nat]
  /\ idOf \in [Objs -> Ids \cup {NoId}]
  /\ ctxOf \in [Objs -> Gens \cup {NoGen}]
  /\ wired \in [Objs -> BOOLEAN]
  /\ running \in [Objs -> BOOLEAN]
  /\ detect \in [Objs -> BOOLEAN]
  /\ record \in [Objs -> BOOLEAN]
  /\ handled \in [Objs -> BOOLEAN]
  /\ update \in [Objs -> BOOLEAN]
  /\ procs \in [Objs -> SUBSET {"pull", "push"}]
  /\ rec \in [Objs -> {"none", "head", "segment", "renew"}]
  /\ cancelled \subseteq Gens
  /\ closeCh \in Seq(Ids \cup {NoId})
  /\ Len(closeCh) <= CloseChanCap
  /\ run \in [Gens -> RunState]
  /\ th \in [Threads -> ThreadState]
  /\ up \in {"serving", "closing", "down"}

Init ==
  /\ sessions = [id \in Ids |-> NoObj]
  /\ pool = [o \in Objs |-> 0]
  /\ idOf = [o \in Objs |-> NoId]
  /\ ctxOf = [o \in Objs |-> NoGen]
  /\ wired = [o \in Objs |-> FALSE]
  /\ running = [o \in Objs |-> FALSE]
  /\ detect = [o \in Objs |-> FALSE]
  /\ record = [o \in Objs |-> FALSE]
  /\ handled = [o \in Objs |-> FALSE]
  /\ update = [o \in Objs |-> FALSE]
  /\ procs = [o \in Objs |-> {}]
  /\ rec = [o \in Objs |-> "none"]
  /\ cancelled = {}
  /\ closeCh = <<>>
  /\ run = [g \in Gens |-> [pc |-> "none", obj |-> NoObj, home |-> NoId,
                            msg |-> NoId]]
  /\ th = [t \in Threads |-> Resting]
  /\ up = "serving"

(***************************************************************************)
(* Helpers                                                                 *)
(***************************************************************************)
Lookup(k) == IF k \in Ids THEN sessions[k] ELSE NoObj

Registered(o) == \E id \in Ids : sessions[id] = o

Goto(t, pc) == th' = [th EXCEPT ![t].pc = pc]

Finish(t) == th' = [th EXCEPT ![t] = Resting]

\* Go on with a session that was found, or that is new with context g.
Take(t, pc, o) == th' = [th EXCEPT ![t].pc = pc, ![t].obj = o]

TakeNew(t, pc, o, g) ==
  th' = [th EXCEPT ![t] = [@ EXCEPT !.pc = pc, !.obj = o, !.gen = g]]

\* A manager goroutine turns to the session registered as id, and a Range
\* goes on with its next key.
TurnTo(t, pc, id) ==
  th' = [th EXCEPT ![t] = [@ EXCEPT !.pc = pc, !.id = id, !.obj = sessions[id],
                                    !.todo = th[t].todo \ {id}]]

RangeOn(t) == th' = [th EXCEPT ![t] = [@ EXCEPT !.pc = "range", !.id = NoId, !.obj = NoObj]]

Cancelling(g) == cancelled \cup ({g} \cap Gens)

\* ClearPuller kills the ffmpeg whose output a Run of o is reading: the read
\* returns EOF.
PullerKilled(o) ==
  [g \in Gens |-> IF run[g].obj = o /\ run[g].pc = "read"
                    THEN [run[g] EXCEPT !.pc = "eof"] ELSE run[g]]

\* What PreparePuller of o leaves when its ffmpeg starts, and when it does not.
PullerStarts(o) ==
  /\ procs' = [procs EXCEPT ![o] = @ \cup {"pull"}]
  /\ running' = [running EXCEPT ![o] = TRUE]

PullerDoesNotStart(o) ==
  /\ procs' = [procs EXCEPT ![o] = @ \ {"pull"}]
  /\ UNCHANGED running

\* Bound: clients ask for a creation only while a context is left for it.
CreationsLeft ==
  Cardinality({c \in Callers : /\ th[c].op \in Creating
                               /\ th[c].pc \in {"lookup", "check", "acquire"}})
    < Cardinality({g \in Gens : run[g].pc = "none"})

\* checkHealthySession's test of a session nobody uses.
Idle(o) == ~running[o] \/ (~record[o] /\ ~detect[o])

(***************************************************************************)
(* Request handlers: engine_http.go, engine_grpc.go and the methods of     *)
(* SessionManager they call.                                               *)
(***************************************************************************)
Request(c, op, id) ==
  /\ up = "serving" /\ th[c].pc = "idle"
  /\ op \in Creating => CreationsLeft
  /\ th' = [th EXCEPT ![c] = [Resting EXCEPT !.pc = "lookup", !.op = op, !.id = id]]
  /\ UNCHANGED <<sessions, pool, fields, cancelled, closeCh, run, up>>

\* Where a handler goes with a session it found.
FoundPc == [StartDetect |-> "flag", StartRecord |-> "byid", StopDetect |-> "flag",
            StopRecord |-> "flag", RemoveSession |-> "drop"]

\* The handler's own Load, before it decides to create.
LookupSession(c) ==
  /\ th[c].pc = "lookup"
  /\ LET o == sessions[th[c].id] IN
       \/ o = NoObj /\ th[c].op \in Creating /\ Goto(c, "check")
       \/ o = NoObj /\ th[c].op \notin Creating /\ Finish(c)
       \/ o # NoObj /\ th[c].op = "CreateSession" /\ Finish(c)
       \/ /\ o # NoObj /\ th[c].op # "CreateSession"
          /\ Take(c, FoundPc[th[c].op], o)
  /\ UNCHANGED <<sessions, pool, fields, cancelled, closeCh, run, up>>

\* CreateSession's Load: "session already started" or go on.
CheckAbsent(c) ==
  /\ th[c].pc = "check"
  /\ IF sessions[th[c].id] # NoObj THEN Finish(c) ELSE Goto(c, "acquire")
  /\ UNCHANGED <<sessions, pool, fields, cancelled, closeCh, run, up>>

\* A new context; an object new or from the pool; its fields filled in.
\* The status flags, handledClose, the processes and a recorder that the
\* object brings along are not touched.
Acquire(c, g, o) ==
  /\ th[c].pc = "acquire" /\ run[g].pc = "none"
  /\ \/ ~wired[o] /\ pool' = pool
     \/ Recycle /\ pool[o] > 0 /\ pool' = [pool EXCEPT ![o] = @ - 1]
  /\ idOf' = [idOf EXCEPT ![o] = th[c].id]
  /\ ctxOf' = [ctxOf EXCEPT ![o] = g]
  /\ wired' = [wired EXCEPT ![o] = TRUE]
  /\ update' = [update EXCEPT ![o] = FALSE]
  /\ run' = [run EXCEPT ![g].pc = "held"]
  /\ TakeNew(c, "store", o, g)
  /\ UNCHANGED <<sessions, flags, handled, procs, rec, cancelled, closeCh, up>>

StoreSession(c) ==
  /\ th[c].pc = "store"
  /\ sessions' = [sessions EXCEPT ![th[c].id] = th[c].obj]
  /\ Goto(c, "pull")
  /\ UNCHANGED <<pool, fields, cancelled, closeCh, run, up>>

\* PreparePuller succeeds.
OpenPuller(c) ==
  /\ th[c].pc = "pull"
  /\ PullerStarts(th[c].obj)
  /\ run' = PullerKilled(th[c].obj)
  /\ Goto(c, "push")
  /\ UNCHANGED <<sessions, pool, identity, detect, record, handled, update, rec,
                 cancelled, closeCh, up>>

\* PreparePuller fails: whatever entry the id has now is deleted. The
\* context is not cancelled and the object is not put back.
PullerFails(c) ==
  /\ th[c].pc = "pull"
  /\ PullerDoesNotStart(th[c].obj)
  /\ run' = PullerKilled(th[c].obj)
  /\ sessions' = [sessions EXCEPT ![th[c].id] = NoObj]
  /\ Finish(c)
  /\ UNCHANGED <<pool, identity, detect, record, handled, update, rec,
                 cancelled, closeCh, up>>

\* PreParePusher succeeds and Session.Run is started; the handlers that
\* create in order to use go on to find the session by its id.
OpenPusher(c) ==
  /\ th[c].pc = "push"
  /\ procs' = [procs EXCEPT ![th[c].obj] = @ \cup {"push"}]
  /\ run' = [run EXCEPT ![th[c].gen] =
               [pc |-> "start", obj |-> th[c].obj, home |-> th[c].id, msg |-> NoId]]
  /\ IF th[c].op = "CreateSession" THEN Finish(c) ELSE Goto(c, "byid")
  /\ UNCHANGED <<sessions, pool, identity, flags, handled, update, rec,
                 cancelled, closeCh, up>>

\* PreParePusher fails: the entry, the puller and the context stay.
PusherFails(c) ==
  /\ th[c].pc = "push" /\ PushMayFail
  /\ procs' = [procs EXCEPT ![th[c].obj] = @ \ {"push"}]
  /\ Finish(c)
  /\ UNCHANGED <<sessions, pool, identity, flags, handled, update, rec,
                 cancelled, closeCh, run, up>>

\* StartSessionDetect / StartSessionRecord(session.id): the id is read from
\* the object, and the object that id names now is the one used.
FindByID(c) ==
  /\ th[c].pc = "byid"
  /\ LET o == Lookup(idOf[th[c].obj]) IN
       IF o = NoObj THEN Finish(c)
                    ELSE Take(c, "flag", o)
  /\ UNCHANGED <<sessions, pool, fields, cancelled, closeCh, run, up>>

SetDetect(o, b) ==
  /\ detect' = [detect EXCEPT ![o] = b]
  /\ UNCHANGED <<running, record, rec>>

StopRecord(o) ==
  /\ record' = [record EXCEPT ![o] = FALSE]
  /\ UNCHANGED <<running, detect, rec>>

\* A recording session only gets a new end time. StartRecording starts the
\* recorder goroutine unless its MkdirAll fails, which leaves recordStatus
\* set; `rec` stands for every recorder of the object.
StartRecord(o) ==
  /\ record' = [record EXCEPT ![o] = TRUE]
  /\ \/ UNCHANGED rec
     \/ ~record[o] /\ rec[o] = "none" /\ rec' = [rec EXCEPT ![o] = "head"]
  /\ UNCHANGED <<running, detect>>

SetFlag(c) ==
  /\ th[c].pc = "flag"
  /\ \/ th[c].op = "StartDetect" /\ SetDetect(th[c].obj, TRUE)
     \/ th[c].op = "StopDetect" /\ SetDetect(th[c].obj, FALSE)
     \/ th[c].op = "StopRecord" /\ StopRecord(th[c].obj)
     \/ th[c].op = "StartRecord" /\ StartRecord(th[c].obj)
  /\ Finish(c)
  /\ UNCHANGED <<sessions, pool, identity, handled, update, procs,
                 cancelled, closeCh, run, up>>

\* Mutated: RemoveSession resets the session without deleting its entry.
DropKeepsEntry(c) ==
  /\ th[c].pc = "drop"
  /\ running' = [running EXCEPT ![th[c].obj] = FALSE]
  /\ Goto(c, "reset")
  /\ UNCHANGED <<sessions, pool, identity, detect, record, handled, media,
                 cancelled, closeCh, run, up>>

\* RemoveSession: runningStatus is cleared before the entry is deleted.
Drop(c) ==
  /\ th[c].pc = "drop"
  /\ running' = [running EXCEPT ![th[c].obj] = FALSE]
  /\ Goto(c, "delete")
  /\ UNCHANGED <<sessions, pool, identity, detect, record, handled, media,
                 cancelled, closeCh, run, up>>

(***************************************************************************)
(* Tearing a session down. closeChRecv and Close: cancel, delete, Reset,   *)
(* Put. RemoveSession: delete, cancel, Reset, Put. checkHealthySession:    *)
(* cancel, delete, Put.                                                    *)
(***************************************************************************)
\* Mutated: the context is not cancelled.
CancelNothing(t) ==
  /\ th[t].pc = "cancel"
  /\ Goto(t, "delete")
  /\ UNCHANGED <<sessions, pool, fields, cancelled, closeCh, run, up>>

CancelSession(t) ==
  /\ th[t].pc = "cancel"
  /\ cancelled' = Cancelling(ctxOf[th[t].obj])
  /\ Goto(t, "delete")
  /\ UNCHANGED <<sessions, pool, fields, closeCh, run, up>>

\* sessions.Delete(id): the entry goes, whichever object it names by now.
DeleteEntry(t) ==
  /\ th[t].pc = "delete"
  /\ sessions' = [sessions EXCEPT ![th[t].id] = NoObj]
  /\ Goto(t, IF t = Ticker THEN "put" ELSE "reset")
  /\ UNCHANGED <<pool, fields, cancelled, closeCh, run, up>>

\* Mutated: Reset leaves the context alone.
ResetKeepsContext(t) ==
  /\ th[t].pc = "reset"
  /\ running' = [running EXCEPT ![th[t].obj] = FALSE]
  /\ detect' = [detect EXCEPT ![th[t].obj] = FALSE]
  /\ record' = [record EXCEPT ![th[t].obj] = FALSE]
  /\ handled' = [handled EXCEPT ![th[t].obj] = FALSE]
  /\ Goto(t, "clear")
  /\ UNCHANGED <<sessions, pool, identity, media, cancelled, closeCh, run, up>>

\* Session.Reset up to the processes: the context, then the flags.
ResetFlags(t) ==
  /\ th[t].pc = "reset"
  /\ cancelled' = Cancelling(ctxOf[th[t].obj])
  /\ running' = [running EXCEPT ![th[t].obj] = FALSE]
  /\ detect' = [detect EXCEPT ![th[t].obj] = FALSE]
  /\ record' = [record EXCEPT ![th[t].obj] = FALSE]
  /\ handled' = [handled EXCEPT ![th[t].obj] = FALSE]
  /\ Goto(t, "clear")
  /\ UNCHANGED <<sessions, pool, identity, media, closeCh, run, up>>

\* Mutated: Reset does not kill the pulling ffmpeg.
ResetKeepsPuller(t) ==
  /\ th[t].pc = "clear"
  /\ procs' = [procs EXCEPT ![th[t].obj] = {}]
  /\ ctxOf' = [ctxOf EXCEPT ![th[t].obj] = NoGen]
  /\ idOf' = [idOf EXCEPT ![th[t].obj] = NoId]
  /\ Goto(t, "put")
  /\ UNCHANGED <<sessions, pool, wired, flags, handled, update, rec,
                 cancelled, closeCh, run, up>>

\* The rest of Session.Reset: the processes are killed, the fields emptied.
ResetFields(t) ==
  /\ th[t].pc = "clear"
  /\ procs' = [procs EXCEPT ![th[t].obj] = {}]
  /\ run' = PullerKilled(th[t].obj)
  /\ ctxOf' = [ctxOf EXCEPT ![th[t].obj] = NoGen]
  /\ idOf' = [idOf EXCEPT ![th[t].obj] = NoId]
  /\ Goto(t, "put")
  /\ UNCHANGED <<sessions, pool, wired, flags, handled, update, rec,
                 cancelled, closeCh, up>>

\* sessionPool.Put; a Range goes on with its next key.
PutBack(t) ==
  /\ th[t].pc = "put"
  /\ pool' = [pool EXCEPT ![th[t].obj] = @ + 1]
  /\ IF t \in {Ticker, Closer} THEN RangeOn(t) ELSE Finish(t)
  /\ UNCHANGED <<sessions, fields, cancelled, closeCh, run, up>>

(***************************************************************************)
(* closeChRecv, checkHealthySession, Close                                 *)
(***************************************************************************)
Receive ==
  /\ th[Receiver].pc = "idle" /\ closeCh # <<>>
  /\ closeCh' = Tail(closeCh)
  /\ LET k == Head(closeCh) IN
       IF Lookup(k) = NoObj THEN UNCHANGED th ELSE TurnTo(Receiver, "cancel", k)
  /\ UNCHANGED <<sessions, pool, fields, cancelled, run, up>>

\* s.ctx.Done() of the two loops.
StopLoop(t) ==
  /\ t \in {Receiver, Ticker}
  /\ up = "down" /\ th[t].pc = "idle"
  /\ Goto(t, "stopped")
  /\ UNCHANGED <<sessions, pool, fields, cancelled, closeCh, run, up>>

\* Range comes to each key once, in any order, and to a key stored meanwhile
\* if its turn is yet to come.
StartRange(t) == th' = [th EXCEPT ![t] = [@ EXCEPT !.pc = "range", !.todo = Ids]]

Tick ==
  /\ th[Ticker].pc = "idle"
  /\ StartRange(Ticker)
  /\ UNCHANGED <<sessions, pool, fields, cancelled, closeCh, run, up>>

\* DetectionEngine.Close: Shutdown has waited for the handlers.
StartClose ==
  /\ MayClose /\ up = "serving" /\ \A c \in Callers : th[c].pc = "idle"
  /\ th[Closer].pc = "idle"
  /\ up' = "closing"
  /\ StartRange(Closer)
  /\ UNCHANGED <<sessions, pool, fields, cancelled, closeCh, run>>

\* The key is not in the map, or the tick leaves its session alone.
Skip(t, id) ==
  /\ t \in {Ticker, Closer}
  /\ th[t].pc = "range" /\ id \in th[t].todo
  /\ sessions[id] # NoObj => t = Ticker /\ ~Idle(sessions[id])
  /\ th' = [th EXCEPT ![t].todo = @ \ {id}]
  /\ UNCHANGED <<sessions, pool, fields, cancelled, closeCh, run, up>>

\* The key has a session to tear down.
Visit(t, id) ==
  /\ t \in {Ticker, Closer}
  /\ th[t].pc = "range" /\ id \in th[t].todo
  /\ sessions[id] # NoObj
  /\ t = Ticker => Idle(sessions[id])
  /\ TurnTo(t, IF t = Ticker THEN "claim" ELSE "cancel", id)
  /\ UNCHANGED <<sessions, pool, fields, cancelled, closeCh, run, up>>

\* handledClose.CompareAndSwap(false, true) of the tick.
Claim ==
  /\ th[Ticker].pc = "claim"
  /\ LET o == th[Ticker].obj IN
       IF handled[o]
         THEN RangeOn(Ticker) /\ UNCHANGED handled
         ELSE /\ handled' = [handled EXCEPT ![o] = TRUE]
              /\ Goto(Ticker, "cancel")
  /\ UNCHANGED <<sessions, pool, identity, flags, media, cancelled, closeCh, run, up>>

EndTick ==
  /\ th[Ticker].pc = "range" /\ th[Ticker].todo = {}
  /\ Finish(Ticker)
  /\ UNCHANGED <<sessions, pool, fields, cancelled, closeCh, run, up>>

\* s.cancel(): every session context descends from the manager's.
EndClose ==
  /\ th[Closer].pc = "range" /\ th[Closer].todo = {}
  /\ up' = "down"
  /\ cancelled' = Gens
  /\ Goto(Closer, "stopped")
  /\ UNCHANGED <<sessions, pool, fields, closeCh, run>>

(***************************************************************************)
(* Session.Run. It reads s.ctx, s.id and the flags of its object again at  *)
(* every step: nothing ties them to the session it was started for.        *)
(***************************************************************************)
\* <-s.ctx.Done() is ready; a nil ctx panics, which the deferred cleanup
\* recovers from.
Stopped(g) == ctxOf[run[g].obj] \notin Gens \ cancelled

RunGoto(g, pc) == run' = [run EXCEPT ![g].pc = pc]

\* MkdirAll succeeds and there is a puller, which Run opens if it is missing.
RunStart(g) ==
  /\ run[g].pc = "start"
  /\ IF "pull" \in procs[run[g].obj] THEN UNCHANGED <<procs, running>>
                                     ELSE PullerStarts(run[g].obj)
  /\ RunGoto(g, "loop")
  /\ UNCHANGED <<sessions, pool, identity, detect, record, handled, update, rec,
                 cancelled, closeCh, th, up>>

\* MkdirAll fails, or there is no puller and none can be opened.
RunCannotStart(g) ==
  /\ run[g].pc = "start"
  /\ RunGoto(g, "clean")
  /\ UNCHANGED <<sessions, pool, fields, cancelled, closeCh, th, up>>

\* The select's default branch: running, nothing pending. A missing reader
\* is treated like EOF.
RunHead(g) ==
  /\ run[g].pc = "loop"
  /\ ~Stopped(g) /\ running[run[g].obj] /\ ~update[run[g].obj]
  /\ RunGoto(g, IF "pull" \in procs[run[g].obj] THEN "read" ELSE "eof")
  /\ UNCHANGED <<sessions, pool, fields, cancelled, closeCh, th, up>>

\* The context is done, or the status is no longer running.
RunStops(g) ==
  /\ run[g].pc = "loop"
  /\ Stopped(g) \/ (~running[run[g].obj] /\ ~update[run[g].obj])
  /\ RunGoto(g, "clean")
  /\ UNCHANGED <<sessions, pool, fields, cancelled, closeCh, th, up>>

\* A new address arrived: PreparePuller, which may fail; either way go on.
RunUpdates(g) ==
  /\ run[g].pc = "loop"
  /\ update[run[g].obj] /\ ctxOf[run[g].obj] \in Gens
  /\ update' = [update EXCEPT ![run[g].obj] = FALSE]
  /\ PullerStarts(run[g].obj) \/ PullerDoesNotStart(run[g].obj)
  /\ run' = PullerKilled(run[g].obj)
  /\ UNCHANGED <<sessions, pool, identity, detect, record, handled, rec,
                 cancelled, closeCh, th, up>>

\* A frame, or an error that is skipped; detection may have expired.
RunFrame(g) ==
  /\ run[g].pc = "read"
  /\ \/ UNCHANGED detect
     \/ detect' = [detect EXCEPT ![run[g].obj] = FALSE]
  /\ RunGoto(g, "loop")
  /\ UNCHANGED <<sessions, pool, identity, running, record, handled, media,
                 cancelled, closeCh, th, up>>

\* The stream ends.
RunEOF(g) ==
  /\ run[g].pc = "read"
  /\ RunGoto(g, "eof")
  /\ UNCHANGED <<sessions, pool, fields, cancelled, closeCh, th, up>>

\* After EOF: no retry left, no new address, or ResetRtspURL failed; after a
\* frame: the pusher's pipe is broken. s.cancelFunc() and return.
RunFails(g) ==
  /\ run[g].pc = "eof" \/ (run[g].pc = "read" /\ detect[run[g].obj])
  /\ cancelled' = Cancelling(ctxOf[run[g].obj])
  /\ RunGoto(g, "clean")
  /\ UNCHANGED <<sessions, pool, fields, closeCh, th, up>>

\* After EOF, ResetRtspURL: a new puller and the broadcast of its address, or
\* nothing when the last reset is too recent.
RunReopens(g) ==
  /\ run[g].pc = "eof" /\ AutoRestart
  /\ \/ /\ PullerStarts(run[g].obj)
        /\ update' = [update EXCEPT ![run[g].obj] = TRUE]
        /\ run' = [PullerKilled(run[g].obj) EXCEPT ![g].pc = "loop"]
     \/ RunGoto(g, "loop") /\ UNCHANGED <<procs, running, update>>
  /\ UNCHANGED <<sessions, pool, identity, detect, record, handled, rec,
                 cancelled, closeCh, th, up>>

\* Mutated: the deferred function leaves the processes alone.
RunCleanFlags(g) ==
  /\ run[g].pc = "clean"
  /\ running' = [running EXCEPT ![run[g].obj] = FALSE]
  /\ detect' = [detect EXCEPT ![run[g].obj] = FALSE]
  /\ record' = [record EXCEPT ![run[g].obj] = FALSE]
  /\ RunGoto(g, "mark")
  /\ UNCHANGED <<sessions, pool, identity, handled, media, cancelled, closeCh, th, up>>

\* The deferred function: the status, the processes.
RunClean(g) ==
  /\ run[g].pc = "clean"
  /\ running' = [running EXCEPT ![run[g].obj] = FALSE]
  /\ procs' = [procs EXCEPT ![run[g].obj] = {}]
  /\ detect' = [detect EXCEPT ![run[g].obj] = FALSE]
  /\ record' = [record EXCEPT ![run[g].obj] = FALSE]
  /\ run' = [PullerKilled(run[g].obj) EXCEPT ![g].pc = "mark"]
  /\ UNCHANGED <<sessions, pool, identity, handled, update, rec,
                 cancelled, closeCh, th, up>>

\* Mutated: the notice is sent without a claim of handledClose.
RunMarkUnclaimed(g) ==
  /\ run[g].pc = "mark"
  /\ RunGoto(g, IF handled[run[g].obj] THEN "done" ELSE "name")
  /\ UNCHANGED <<sessions, pool, fields, cancelled, closeCh, th, up>>

\* Mutated: handledClose is claimed and no notice is sent.
RunMarkSilent(g) ==
  /\ run[g].pc = "mark"
  /\ handled' = [handled EXCEPT ![run[g].obj] = TRUE]
  /\ RunGoto(g, "done")
  /\ UNCHANGED <<sessions, pool, identity, flags, media, cancelled, closeCh, th, up>>

\* SendIDToCloseCh: handledClose.CompareAndSwap(false, true).
RunMark(g) ==
  /\ run[g].pc = "mark"
  /\ handled' = [handled EXCEPT ![run[g].obj] = TRUE]
  /\ RunGoto(g, IF handled[run[g].obj] THEN "done" ELSE "name")
  /\ UNCHANGED <<sessions, pool, identity, flags, media, cancelled, closeCh, th, up>>

\* s.id is read ...
RunName(g) ==
  /\ run[g].pc = "name"
  /\ run' = [run EXCEPT ![g].pc = "send", ![g].msg = idOf[run[g].obj]]
  /\ UNCHANGED <<sessions, pool, fields, cancelled, closeCh, th, up>>

\* Mutated: the send does not wait for room.
RunSendUnbounded(g) ==
  /\ run[g].pc = "send"
  /\ closeCh' = Append(closeCh, run[g].msg)
  /\ RunGoto(g, "done")
  /\ UNCHANGED <<sessions, pool, fields, cancelled, th, up>>

\* Mutated: a full closeCh loses the notice, as the frame queue loses frames.
RunSendOrDrop(g) ==
  /\ run[g].pc = "send"
  /\ closeCh' = IF Len(closeCh) < CloseChanCap THEN Append(closeCh, run[g].msg)
                                               ELSE closeCh
  /\ RunGoto(g, "done")
  /\ UNCHANGED <<sessions, pool, fields, cancelled, th, up>>

\* ... and sent once closeCh has room.
RunSend(g) ==
  /\ run[g].pc = "send" /\ Len(closeCh) < CloseChanCap
  /\ closeCh' = Append(closeCh, run[g].msg)
  /\ RunGoto(g, "done")
  /\ UNCHANGED <<sessions, pool, fields, cancelled, th, up>>

(***************************************************************************)
(* The recorder goroutine, as far as it touches the session's life. That a *)
(* nil context there ends the whole process, and not just the recorder, is *)
(* left out.                                                               *)
(***************************************************************************)
\* The loop's head: go on with a segment while the context is alive and
\* recording is on and has not expired.
RecorderHead(o) ==
  /\ rec[o] = "head"
  /\ ctxOf[o] \in Gens \ cancelled /\ record[o]
  /\ rec' = [rec EXCEPT ![o] = "segment"]
  /\ UNCHANGED <<sessions, pool, identity, flags, handled, update, procs,
                 cancelled, closeCh, run, th, up>>

\* Stopped, cancelled or expired at the head; or a segment failed, and the
\* session is not running or no new address was found.
RecorderEnds(o) ==
  /\ rec[o] # "none"
  /\ rec' = [rec EXCEPT ![o] = "none"]
  /\ record' = [record EXCEPT ![o] = FALSE]
  /\ UNCHANGED <<sessions, pool, identity, running, detect, handled, update, procs,
                 cancelled, closeCh, run, th, up>>

\* A segment is complete.
RecorderSegment(o) ==
  /\ rec[o] = "segment"
  /\ rec' = [rec EXCEPT ![o] = "head"]
  /\ UNCHANGED <<sessions, pool, identity, flags, handled, update, procs,
                 cancelled, closeCh, run, th, up>>

\* A segment failed and no retry is left: s.cancelFunc() and return.
RecorderFails(o) ==
  /\ rec[o] = "segment" /\ running[o]
  /\ cancelled' = Cancelling(ctxOf[o])
  /\ rec' = [rec EXCEPT ![o] = "none"]
  /\ record' = [record EXCEPT ![o] = FALSE]
  /\ UNCHANGED <<sessions, pool, identity, running, detect, handled, update, procs,
                 closeCh, run, th, up>>

\* A segment failed: the recorder asks for a new address ...
RecorderAsks(o) ==
  /\ rec[o] = "segment" /\ running[o] /\ AutoRestart
  /\ rec' = [rec EXCEPT ![o] = "renew"]
  /\ UNCHANGED <<sessions, pool, identity, flags, handled, update, procs,
                 cancelled, closeCh, run, th, up>>

\* ... and resets the puller to it, whatever became of the session meanwhile;
\* or does nothing when the last reset is too recent.
RecorderReopens(o) ==
  /\ rec[o] = "renew"
  /\ rec' = [rec EXCEPT ![o] = "head"]
  /\ \/ /\ PullerStarts(o)
        /\ update' = [update EXCEPT ![o] = TRUE]
        /\ run' = PullerKilled(o)
     \/ PullerDoesNotStart(o) /\ run' = PullerKilled(o) /\ UNCHANGED update
     \/ UNCHANGED <<procs, running, update, run>>
  /\ UNCHANGED <<sessions, pool, identity, detect, record, handled,
                 cancelled, closeCh, th, up>>

(***************************************************************************)
(* The specification                                                       *)
(***************************************************************************)
HandlerStep(c) ==
  \/ LookupSession(c) \/ CheckAbsent(c)
  \/ \E g \in Gens, o \in Objs : Acquire(c, g, o)
  \/ StoreSession(c) \/ OpenPuller(c) \/ PullerFails(c)
  \/ OpenPusher(c) \/ PusherFails(c)
  \/ FindByID(c) \/ SetFlag(c) \/ Drop(c)

TeardownStep(t) ==
  \/ CancelSession(t) \/ DeleteEntry(t) \/ ResetFlags(t)
  \/ ResetFields(t) \/ PutBack(t)

RangeStep(t) == \E id \in Ids : Skip(t, id) \/ Visit(t, id)

\* What Run does of itself, and what it does with a read that returned.
RunMoves(g) ==
  \/ RunStart(g) \/ RunCannotStart(g) \/ RunHead(g) \/ RunStops(g) \/ RunUpdates(g)
  \/ RunReopens(g) \/ RunClean(g) \/ RunMark(g) \/ RunName(g) \/ RunSend(g)

RunReads(g) == RunFrame(g) \/ RunEOF(g) \/ RunFails(g)

RecorderStep(o) ==
  \/ RecorderHead(o) \/ RecorderEnds(o) \/ RecorderSegment(o)
  \/ RecorderFails(o) \/ RecorderAsks(o) \/ RecorderReopens(o)

Next ==
  \/ \E c \in Callers :
       \/ \E op \in Ops, id \in Ids : Request(c, op, id)
       \/ HandlerStep(c)
  \/ \E t \in Threads : TeardownStep(t) \/ RangeStep(t) \/ StopLoop(t)
  \/ Receive \/ Tick \/ Claim \/ EndTick
  \/ StartClose \/ EndClose
  \/ \E g \in Gens : RunMoves(g) \/ RunReads(g)
  \/ \E o \in Objs : RecorderStep(o)

Spec == Init /\ [][Next]_vars

(***************************************************************************)
(* Fairness. Every goroutine that can go on does; clients owe no request   *)
(* and nobody owes a shutdown. A read of a camera that stalls need not     *)
(* return, since the pulling ffmpeg has no timeout: it does once that      *)
(* ffmpeg is killed. Nor does an address service owe Run or a recorder an  *)
(* answer: its clients are http.DefaultClient, which has no timeout.       *)
(***************************************************************************)
WaitsForAddress(g) == AutoRestart /\ run[g].pc = "eof"

AfterEOF(g) == run[g].pc = "eof" /\ RunFails(g)

Fairness ==
  /\ \A c \in Callers : WF_vars(HandlerStep(c) \/ TeardownStep(c))
  /\ WF_vars(Receive \/ TeardownStep(Receiver) \/ StopLoop(Receiver))
  /\ WF_vars(Tick \/ RangeStep(Ticker) \/ Claim \/ TeardownStep(Ticker)
               \/ EndTick \/ StopLoop(Ticker))
  /\ WF_vars(RangeStep(Closer) \/ TeardownStep(Closer) \/ EndClose)
  /\ \A g \in Gens : WF_vars(~WaitsForAddress(g) /\ (RunMoves(g) \/ AfterEOF(g)))
  /\ \A o \in Objs : WF_vars(rec[o] # "renew" /\ RecorderStep(o))

FairSpec == Spec /\ Fairness

(***************************************************************************)
(* Safety                                                                  *)
(***************************************************************************)
\* Somebody has yet to delete the entry of id: its notice is in closeCh, or
\* a goroutine is between choosing to tear it down and deleting it.
Leaving(id) ==
  \/ \E i \in 1..Len(closeCh) : closeCh[i] = id
  \/ \E t \in Threads : th[t].id = id /\ th[t].pc \in {"drop", "cancel", "delete"}

\* Run of o has returned, and no other is running or about to be started.
Ended(o) ==
  /\ \E g \in Gens : run[g].obj = o /\ run[g].pc = "done"
  /\ \A g \in Gens : run[g].obj = o => run[g].pc = "done"
  /\ \A c \in Callers : th[c].obj = o => th[c].pc \notin {"pull", "push"}

\* A session whose Run has returned does not stay in the map: either the
\* entry is gone or its removal is on the way. (SendIDToCloseCh, closeChRecv
\* and the tick divide that duty between them with handledClose.)
NoZombie ==
  \A id \in Ids, o \in Objs : sessions[id] = o /\ Ended(o) => Leaving(id)

\* An object in the pool is not in the map: whoever gets it next cannot be
\* overwriting a session that clients can still find. (handledClose is there
\* to have a session cleaned up once. It does not keep two teardowns from
\* putting the same object: got once, it is in the pool and in the map.)
PooledUnregistered == \A o \in Objs : pool[o] > 0 => ~Registered(o)

\* The ffmpeg processes of a session that is no longer in the map still have
\* an owner that will end them: its creator, its Run or its teardown.
NoStrayProcess ==
  \A o \in Objs :
    procs[o] # {} /\ ~Registered(o) =>
      \/ \E c \in Callers : th[c].obj = o /\ th[c].pc \in {"pull", "push"}
      \/ \E g \in Gens : run[g].obj = o /\ run[g].pc \in {"start", "loop", "read", "eof", "clean"}
      \/ \E t \in Threads : th[t].obj = o /\ th[t].pc \in {"reset", "clear"}

\* Where a Run serves its session.
LivePcs == {"start", "loop", "read", "eof"}

\* A Run that nobody has stopped can be found by its id, so that clients and
\* the tick can stop it; or RemoveSession has its session out of the map and
\* has yet to cancel it. (Each teardown deletes the entry of an id it loaded
\* earlier: the session that it takes out must be the one it cancels.)
LiveRunIsFound ==
  \A g \in Gens : run[g].pc \in LivePcs /\ g \notin cancelled =>
    \/ sessions[run[g].home] = run[g].obj
    \/ \E t \in Threads :
         th[t].pc = "reset" /\ th[t].id = run[g].home /\ th[t].obj = run[g].obj

(***************************************************************************)
(* Why the registry is sound while every Get returns a new object: the     *)
(* inductive invariant behind NoZombie.                                    *)
(***************************************************************************)
\* What a goroutine holds at each point of its code.
HoldsWhatItNeeds(t) ==
  /\ th[t].pc \in HandlerPcs \cup {"claim"} \cup TeardownPcs => th[t].id \in Ids
  /\ th[t].pc \in HandlerPcs => th[t].op \in AllOps
  /\ th[t].pc \in {"store", "pull", "push", "byid", "flag", "drop", "claim"}
                     \cup TeardownPcs => th[t].obj \in Objs
  /\ th[t].pc \in {"store", "pull", "push"} => th[t].gen \in Gens

Holding ==
  /\ \A t \in Threads : HoldsWhatItNeeds(t)
  /\ \A g \in Gens : run[g].pc \notin {"none", "held"} => run[g].obj \in Objs

\* Only an object that CreateSession got is known to anybody.
OnlyWiredInUse ==
  \A o \in Objs : ~wired[o] =>
    /\ ~Registered(o) /\ pool[o] = 0 /\ ~handled[o]
    /\ \A t \in Threads : th[t].obj # o
    /\ \A g \in Gens : run[g].obj # o

\* A registered session carries the id it is registered under.
NamedByKey == \A id \in Ids : \A o \in Objs : sessions[id] = o => idOf[o] = id

\* Until it is stored, a session is known to its creator only.
CreatorAlone ==
  \A c \in Threads : th[c].pc = "store" =>
    /\ idOf[th[c].obj] = th[c].id /\ ~handled[th[c].obj]
    /\ ~Registered(th[c].obj) /\ pool[th[c].obj] = 0
    /\ \A t \in Threads \ {c} : th[t].obj # th[c].obj
    /\ \A g \in Gens : run[g].obj # th[c].obj

\* A creator's context is its own until its Run is started.
OwnContext ==
  \A c \in Threads : th[c].pc \in {"store", "pull", "push"} =>
    /\ run[th[c].gen].pc = "held"
    /\ \A d \in Threads \ {c} :
         th[d].pc \in {"store", "pull", "push"} => th[d].gen # th[c].gen

\* A session being torn down can be found under one id at most, and under
\* none once that entry is deleted.
TornDown ==
  \A t \in Threads :
    /\ th[t].pc \in {"drop", "claim", "cancel", "delete"} =>
         \A k \in Ids : sessions[k] = th[t].obj => k = th[t].id
    /\ th[t].pc \in {"reset", "clear", "put"} => ~Registered(th[t].obj)

\* A registered session whose handledClose is taken is about to leave.
HandledLeaves ==
  \A id \in Ids : \A o \in Objs : sessions[id] = o /\ handled[o] =>
    \/ Leaving(id)
    \/ \E g \in Gens : /\ run[g].obj = o
                      /\ \/ run[g].pc = "name"
                         \/ run[g].pc = "send" /\ run[g].msg = id

\* Nobody takes handledClose back while the session is registered.
EndedIsHandled ==
  \A g \in Gens, id \in Ids :
    run[g].pc \in {"name", "send", "done"} /\ sessions[id] = run[g].obj
    => handled[run[g].obj]

Inv ==
  /\ TypeOK /\ Holding /\ OnlyWiredInUse /\ NamedByKey /\ CreatorAlone
  /\ OwnContext /\ TornDown /\ HandledLeaves /\ EndedIsHandled
  /\ PooledUnregistered

(***************************************************************************)
(* Behind NoStrayProcess                                                   *)
(***************************************************************************)
\* A session that is being made has one maker, and no Run yet.
OneMaker ==
  \A c \in Threads : th[c].pc \in {"store", "pull", "push"} =>
    /\ \A d \in Threads \ {c} :
         th[d].pc \in {"store", "pull", "push"} => th[d].obj # th[c].obj
    /\ \A g \in Gens : run[g].obj # th[c].obj

\* The processes of a session belong to its maker, who hands them on to Run,
\* or to Run, whose deferred function ends them.
Owned(o) ==
  \/ \E c \in Callers : th[c].obj = o /\ th[c].pc = "push"
  \/ \E g \in Gens : run[g].obj = o /\ run[g].pc \in LivePcs \cup {"clean"}

ProcsOwned == \A o \in Objs : procs[o] # {} => Owned(o)

\* No recorder opens a puller: for want of restarts, or of recordings.
NoRenewal ==
  /\ \A o \in Objs : rec[o] # "renew"
  /\ AutoRestart => /\ \A o \in Objs : rec[o] = "none"
                    /\ \A c \in Callers : th[c].op # "StartRecord"

OwnersInv == OneMaker /\ ProcsOwned /\ NoRenewal

(***************************************************************************)
(* Liveness                                                                *)
(***************************************************************************)
\* An entry that stays in the map for good belongs to a session that is
\* used: it is not running or not recording/detecting for ever.
RegisteredIsUsed ==
  \A id \in Ids, o \in Objs :
    <>[](sessions[id] = o) => []<>(~Idle(o))

\* A session that was Reset ends its Run, even when its camera has stalled;
\* unless Run waits for an address service for ever.
ResetEndsRun ==
  \A g \in Gens :
    [](run[g].pc \in LivePcs /\ ctxOf[run[g].obj] # g
         => <>(run[g].pc = "done") \/ <>[]WaitsForAddress(g))

=============================================================================
