------------------------ MODULE SessionManagerOwners ------------------------
(***************************************************************************)
(* Who ends what a session has started. While every Get returns a new      *)
(* object, the ffmpeg processes of a session always have an owner, and a   *)
(* Run that nobody has stopped can be found by its id unless work on       *)
(* another session has overwritten or deleted its entry.                   *)
(***************************************************************************)
EXTENDS SessionManagerSafety, SessionManagerHistory

(***************************************************************************)
(* The steps of Runs and recorders                                         *)
(***************************************************************************)
\* Runs keep their sessions, and none comes to life.
RunsStay ==
  \A g \in Gens :
    /\ run'[g].obj = run[g].obj /\ run'[g].home = run[g].home
    /\ run'[g].pc \in LivePcs => run[g].pc \in LivePcs

LEMMA SameRunsStay == UNCHANGED run => RunsStay
  BY DEF RunsStay

LEMMA KilledRunsStay ==
  ASSUME TypeInv, NEW o \in Objs, run' = PullerKilled(o)
  PROVE  RunsStay
  BY PullerKilledEffect DEF RunsStay, LivePcs, TypeInv, TypeOK

LEMMA GotoRunsStay ==
  ASSUME TypeInv, NEW g \in Gens, NEW pc \in RunPcs, RunGoto(g, pc),
         pc \in LivePcs => run[g].pc \in LivePcs
  PROVE  RunsStay /\ run'[g].pc = pc /\ \A h \in Gens \ {g} : run'[h] = run[h]
<1>1. run \in [Gens -> RunState]
  BY DEF TypeInv, TypeOK
<1> QED
  BY <1>1, RunGotoEffect DEF RunsStay

LEMMA KilledGotoRunsStay ==
  ASSUME TypeInv, NEW o \in Objs, NEW g \in Gens, NEW pc \in RunPcs,
         run' = [PullerKilled(o) EXCEPT ![g].pc = pc],
         pc \in LivePcs => run[g].pc \in LivePcs
  PROVE  /\ RunsStay /\ run'[g].pc = pc
         /\ \A h \in Gens \ {g} : \/ run'[h].pc = run[h].pc
                                  \/ {run[h].pc, run'[h].pc} \subseteq LivePcs
<1>1. run \in [Gens -> RunState]
  BY DEF TypeInv, TypeOK
<1> DEFINE f == PullerKilled(o)
<1>2. /\ f \in [Gens -> RunState]
      /\ \A h \in Gens : /\ f[h].obj = run[h].obj /\ f[h].home = run[h].home
                         /\ \/ f[h].pc = run[h].pc
                            \/ {run[h].pc, f[h].pc} \subseteq LivePcs
  BY <1>1, PullerKilledEffect DEF LivePcs
<1>3. run' = [f EXCEPT ![g].pc = pc]
  OBVIOUS
<1> HIDE DEF f
<1>4. /\ \A h \in Gens \ {g} : run'[h] = f[h]
      /\ run'[g].pc = pc /\ run'[g].obj = f[g].obj /\ run'[g].home = f[g].home
  BY <1>2, <1>3 DEF RunState
<1> QED
  BY <1>2, <1>4 DEF RunsStay

\* Run reads its session.
LEMMA RunHasObject ==
  ASSUME TypeInv, NEW g \in Gens, RunMoves(g) \/ RunReads(g)
  PROVE  run[g].obj \in Objs
  BY DEF RunMoves, RunReads, RunStart, RunCannotStart, RunHead, RunStops, RunUpdates,
         RunReopens, RunClean, RunMark, RunName, RunSend, RunFrame, RunEOF, RunFails,
         TypeInv, Holding

LEMMA RunStepsStay ==
  ASSUME TypeInv, NEW g \in Gens, RunMoves(g) \/ RunReads(g)
  PROVE  RunsStay
<1>1. run[g].obj \in Objs
  BY RunHasObject
<1>2. ASSUME NEW pc \in RunPcs, RunGoto(g, pc), pc \in LivePcs => run[g].pc \in LivePcs
      PROVE  RunsStay
  BY <1>2, GotoRunsStay
<1>3. ASSUME NEW pc \in RunPcs, run' = [PullerKilled(run[g].obj) EXCEPT ![g].pc = pc],
             pc \in LivePcs => run[g].pc \in LivePcs
      PROVE  RunsStay
  BY <1>1, <1>3, KilledGotoRunsStay
<1>4. {"loop", "read", "eof", "clean", "mark", "name", "done"} \subseteq RunPcs
  BY DEF RunPcs
<1>5. CASE RunStart(g) \/ RunCannotStart(g) \/ RunHead(g) \/ RunStops(g)
  BY <1>2, <1>4, <1>5 DEF RunStart, RunCannotStart, RunHead, RunStops, LivePcs
<1>6. CASE RunUpdates(g)
  BY <1>1, <1>6, KilledRunsStay DEF RunUpdates
<1>7. CASE RunReopens(g) \/ RunClean(g)
  BY <1>2, <1>3, <1>4, <1>7 DEF RunReopens, RunClean, LivePcs
<1>8. CASE RunMark(g) \/ RunSend(g)
  BY <1>2, <1>4, <1>8 DEF RunMark, RunSend, LivePcs
<1>9. CASE RunName(g)
  <2>1. run \in [Gens -> RunState] /\ idOf[run[g].obj] \in Ids \cup {NoId}
    BY <1>1 DEF TypeInv, TypeOK
  <2>2. /\ \A h \in Gens \ {g} : run'[h] = run[h]
        /\ run'[g].pc = "send" /\ run'[g].obj = run[g].obj /\ run'[g].home = run[g].home
    BY <1>9, <2>1, RunNameEffect DEF RunName
  <2> QED
    BY <2>2 DEF RunsStay, LivePcs
<1>10. CASE RunFrame(g) \/ RunEOF(g) \/ RunFails(g)
  BY <1>2, <1>4, <1>10 DEF RunFrame, RunEOF, RunFails, LivePcs
<1> QED
  BY <1>5, <1>6, <1>7, <1>8, <1>9, <1>10 DEF RunMoves, RunReads

LEMMA RecorderStepsStay ==
  ASSUME TypeInv, NEW o \in Objs, RecorderStep(o)
  PROVE  RunsStay
<1>1. run' = run \/ run' = PullerKilled(o)
  BY DEF RecorderStep, RecorderHead, RecorderEnds, RecorderSegment, RecorderFails,
         RecorderAsks, RecorderReopens
<1> QED
  BY <1>1, SameRunsStay, KilledRunsStay

(***************************************************************************)
(* The steps of handlers and of the manager's goroutines                   *)
(***************************************************************************)
Making == {"store", "pull", "push"}

\* Whoever makes a session was making it before.
MakersStay ==
  \A x \in Threads :
    th'[x].pc \in Making => /\ th[x].pc \in Making /\ th'[x].obj = th[x].obj
                            /\ th'[x].gen = th[x].gen /\ th'[x].id = th[x].id

LEMMA SameMakersStay == UNCHANGED th => MakersStay
  BY DEF MakersStay

\* t alone moves, and not to a session in the making.
LEMMA OtherMakersStay ==
  ASSUME NEW t \in Threads, \A x \in Threads \ {t} : th'[x] = th[x],
         th'[t].pc \notin Making
  PROVE  MakersStay
  BY DEF MakersStay

LEMMA GotoMakersStay ==
  ASSUME TypeInv, NEW t \in Threads, NEW pc \in ThreadPcs, Goto(t, pc),
         pc \in Making => th[t].pc \in Making
  PROVE  MakersStay
<1>1. th \in [Threads -> ThreadState]
  BY DEF TypeInv, TypeOK
<1>2. /\ \A x \in Threads \ {t} : th'[x] = th[x]
      /\ th'[t].pc = pc /\ th'[t].obj = th[t].obj /\ th'[t].gen = th[t].gen
      /\ th'[t].id = th[t].id
  BY <1>1, GotoEffect
<1> QED
  BY <1>2 DEF MakersStay

LEMMA FinishMakersStay ==
  ASSUME TypeInv, NEW t \in Threads, Finish(t)
  PROVE  MakersStay
<1>1. th \in [Threads -> ThreadState]
  BY DEF TypeInv, TypeOK
<1>2. (\A x \in Threads \ {t} : th'[x] = th[x]) /\ th'[t].pc = "idle"
  BY <1>1, FinishEffect
<1> QED
  BY <1>2, OtherMakersStay DEF Making

LEMMA HandlersMakersStay ==
  ASSUME TypeInv, NEW c \in Callers,
         \/ \E op \in Ops, id \in Ids : Request(c, op, id)
         \/ LookupSession(c) \/ CheckAbsent(c) \/ StoreSession(c) \/ OpenPuller(c)
         \/ PullerFails(c) \/ OpenPusher(c) \/ PusherFails(c)
         \/ FindByID(c) \/ SetFlag(c) \/ Drop(c)
  PROVE  MakersStay
<1>0. c \in Threads /\ th \in [Threads -> ThreadState] /\ HoldsWhatItNeeds(c)
  BY DEF Threads, TypeInv, TypeOK, Holding
<1>1. HandlerPcs \subseteq ThreadPcs /\ "delete" \in ThreadPcs
  BY DEF ThreadPcs, TeardownPcs
<1>2. CASE \E op \in Ops, id \in Ids : Request(c, op, id)
  <2>1. (\A x \in Threads \ {c} : th'[x] = th[x]) /\ th'[c].pc = "lookup"
    BY <1>0, <1>2 DEF Request, Resting
  <2> QED
    BY <1>0, <2>1, OtherMakersStay DEF Making
<1>3. ASSUME NEW pc \in {"flag", "byid", "drop"}, NEW o \in Objs, Take(c, pc, o)
      PROVE  MakersStay
  <2>1. pc \in ThreadPcs
    BY <1>1 DEF HandlerPcs
  <2>2. (\A x \in Threads \ {c} : th'[x] = th[x]) /\ th'[c].pc = pc
    BY <1>0, <1>3, <2>1, FindEffect
  <2> QED
    BY <1>0, <2>2, OtherMakersStay DEF Making
<1>4. CASE LookupSession(c)
  <2>1. th[c].id \in Ids /\ th[c].op \in AllOps
    BY <1>0, <1>4 DEF LookupSession, HoldsWhatItNeeds, HandlerPcs
  <2>2. CASE /\ sessions[th[c].id] # NoObj /\ th[c].op # "CreateSession"
             /\ Take(c, FoundPc[th[c].op], sessions[th[c].id])
    <3>1. sessions[th[c].id] \in Objs
      BY <2>1, <2>2 DEF TypeInv, TypeOK
    <3>2. FoundPc[th[c].op] \in {"flag", "byid", "drop"}
      BY <2>1, <2>2 DEF FoundPc, AllOps, Creating
    <3> QED
      BY <1>3, <2>2, <3>1, <3>2
  <2>3. CASE Goto(c, "check")
    BY <1>0, <1>1, <2>3, GotoMakersStay DEF HandlerPcs, Making
  <2> QED
    BY <1>0, <1>4, <2>2, <2>3, FinishMakersStay DEF LookupSession
<1>5. CASE CheckAbsent(c)
  <2>1. CASE Goto(c, "acquire")
    BY <1>0, <1>1, <2>1, GotoMakersStay DEF HandlerPcs, Making
  <2> QED
    BY <1>0, <1>5, <2>1, FinishMakersStay DEF CheckAbsent
<1>6. CASE StoreSession(c) \/ OpenPuller(c)
  BY <1>0, <1>1, <1>6, GotoMakersStay DEF StoreSession, OpenPuller, HandlerPcs, Making
<1>7. CASE OpenPusher(c)
  <2>1. CASE Goto(c, "byid")
    BY <1>0, <1>1, <2>1, GotoMakersStay DEF HandlerPcs, Making
  <2> QED
    BY <1>0, <1>7, <2>1, FinishMakersStay DEF OpenPusher
<1>8. CASE PullerFails(c) \/ PusherFails(c) \/ SetFlag(c)
  BY <1>0, <1>8, FinishMakersStay DEF PullerFails, PusherFails, SetFlag
<1>9. CASE FindByID(c)
  <2> DEFINE o == Lookup(idOf[th[c].obj])
  <2>1. o \in Objs \cup {NoObj}
    BY DEF Lookup, TypeInv, TypeOK
  <2>2. IF o = NoObj THEN Finish(c) ELSE Take(c, "flag", o)
    BY <1>9 DEF FindByID
  <2> HIDE DEF o
  <2> QED
    BY <1>0, <1>3, <2>1, <2>2, FinishMakersStay
<1>10. CASE Drop(c)
  BY <1>0, <1>1, <1>10, GotoMakersStay DEF Drop, Making
<1> QED
  BY <1>2, <1>4, <1>5, <1>6, <1>7, <1>8, <1>9, <1>10

LEMMA TeardownMakersStay ==
  ASSUME TypeInv, NEW t \in Threads, TeardownStep(t) \/ RangeStep(t) \/ StopLoop(t)
  PROVE  MakersStay
<1>0. th \in [Threads -> ThreadState]
  BY DEF TypeInv, TypeOK
<1>1. ASSUME NEW pc \in {"delete", "reset", "clear", "put", "cancel", "stopped"}, Goto(t, pc)
      PROVE  MakersStay
  BY <1>1, GotoMakersStay DEF ThreadPcs, TeardownPcs, Making
<1>2. CASE CancelSession(t) \/ DeleteEntry(t) \/ ResetFlags(t) \/ ResetFields(t) \/ StopLoop(t)
  BY <1>1, <1>2 DEF CancelSession, DeleteEntry, ResetFlags, ResetFields, StopLoop
<1>3. CASE PutBack(t)
  <2>1. CASE RangeOn(t)
    BY <1>0, <2>1, RangeOnEffect, OtherMakersStay DEF Making
  <2> QED
    BY <1>3, <2>1, FinishMakersStay DEF PutBack
<1>4. ASSUME NEW id \in Ids, Skip(t, id) PROVE MakersStay
  BY <1>0, <1>4, SkipEffect, OtherMakersStay DEF Skip, Making
<1>5. ASSUME NEW id \in Ids, Visit(t, id) PROVE MakersStay
  <2>1. sessions[id] \in Objs
    BY <1>5 DEF Visit, TypeInv, TypeOK
  <2>2. ASSUME NEW pc \in {"claim", "cancel"}, TurnTo(t, pc, id) PROVE MakersStay
    <3>1. pc \in ThreadPcs
      BY DEF ThreadPcs, RangePcs, TeardownPcs
    <3> QED
      BY <1>0, <2>1, <2>2, <3>1, TurnToEffect, OtherMakersStay DEF Making
  <2> QED
    BY <1>5, <2>2 DEF Visit
<1> QED
  BY <1>2, <1>3, <1>4, <1>5 DEF TeardownStep, RangeStep

LEMMA ManagerMakersStay ==
  ASSUME TypeInv, Receive \/ Tick \/ Claim \/ EndTick \/ StartClose \/ EndClose
  PROVE  MakersStay
<1>0. /\ th \in [Threads -> ThreadState]
      /\ Receiver \in Threads /\ Ticker \in Threads /\ Closer \in Threads
  BY DEF Threads, Managers, TypeInv, TypeOK
<1>1. CASE Receive
  <2> DEFINE k == Head(closeCh)
  <2>1. IF Lookup(k) = NoObj THEN UNCHANGED th ELSE TurnTo(Receiver, "cancel", k)
    BY <1>1 DEF Receive
  <2>2. Lookup(k) # NoObj => k \in Ids /\ sessions[k] \in Objs
    BY DEF Lookup, TypeInv, TypeOK
  <2>3. "cancel" \in ThreadPcs
    BY DEF ThreadPcs, TeardownPcs
  <2> HIDE DEF k
  <2>4. CASE Lookup(k) # NoObj
    BY <1>0, <2>1, <2>2, <2>3, <2>4, TurnToEffect, OtherMakersStay DEF Making
  <2> QED
    BY <2>1, <2>4, SameMakersStay
<1>2. CASE Tick \/ StartClose
  BY <1>0, <1>2, StartRangeEffect, OtherMakersStay DEF Tick, StartClose, Making
<1>3. CASE Claim
  <2>1. CASE RangeOn(Ticker)
    BY <1>0, <2>1, RangeOnEffect, OtherMakersStay DEF Making
  <2>2. CASE Goto(Ticker, "cancel")
    BY <1>0, <2>2, GotoMakersStay DEF ThreadPcs, TeardownPcs, Making
  <2> QED
    BY <1>3, <2>1, <2>2 DEF Claim
<1>4. CASE EndTick
  BY <1>0, <1>4, FinishMakersStay DEF EndTick
<1>5. CASE EndClose
  BY <1>0, <1>5, GotoMakersStay DEF EndClose, ThreadPcs, Making
<1> QED
  BY <1>1, <1>2, <1>3, <1>4, <1>5

(***************************************************************************)
(* What a step of a goroutine that is not a Run leaves alone               *)
(***************************************************************************)
\* A step of the goroutine t alone.
StepOf(t) ==
  \/ /\ t \in Callers
     /\ \/ \E op \in Ops, id \in Ids : Request(t, op, id)
        \/ HandlerStep(t)
  \/ TeardownStep(t) \/ RangeStep(t) \/ StopLoop(t)
  \/ t = Receiver /\ Receive
  \/ t = Ticker /\ (Tick \/ Claim \/ EndTick)
  \/ t = Closer /\ (StartClose \/ EndClose)

LEMMA WhoSteps ==
  ASSUME Next
  PROVE  \/ \E t \in Threads : StepOf(t)
         \/ \E g \in Gens : RunMoves(g) \/ RunReads(g)
         \/ \E o \in Objs : RecorderStep(o)
<1>1. Callers \subseteq Threads /\ {Receiver, Ticker, Closer} \subseteq Threads
  BY DEF Threads, Managers
<1> QED
  BY <1>1 DEF Next, StepOf

Alone(t) == \A x \in Threads \ {t} : th'[x] = th[x]

LEMMA OthersStay ==
  ASSUME TypeInv, NEW t \in Threads, StepOf(t)
  PROVE  Alone(t)
<1>0. th \in [Threads -> ThreadState]
  BY DEF TypeInv, TypeOK
<1>1. ASSUME NEW v, th' = [th EXCEPT ![t] = v] PROVE Alone(t)
  BY <1>0, <1>1 DEF Alone
<1>2. ASSUME NEW pc, Goto(t, pc) PROVE Alone(t)
  BY <1>1, <1>2 DEF Goto
<1>3. ASSUME NEW pc, NEW o, Take(t, pc, o) PROVE Alone(t)
  BY <1>1, <1>3 DEF Take
<1>4. ASSUME NEW pc, NEW o, NEW g, TakeNew(t, pc, o, g) PROVE Alone(t)
  BY <1>1, <1>4 DEF TakeNew
<1>5. ASSUME NEW pc, NEW id, TurnTo(t, pc, id) PROVE Alone(t)
  BY <1>1, <1>5 DEF TurnTo
<1>6. ASSUME Finish(t) \/ RangeOn(t) \/ StartRange(t) PROVE Alone(t)
  BY <1>1, <1>6 DEF Finish, RangeOn, StartRange
<1>7. CASE \E op \in Ops, id \in Ids : Request(t, op, id)
  BY <1>1, <1>7 DEF Request
<1>8. CASE HandlerStep(t)
  BY <1>2, <1>3, <1>4, <1>6, <1>8
     DEF HandlerStep, LookupSession, CheckAbsent, Acquire, StoreSession, OpenPuller,
         PullerFails, OpenPusher, PusherFails, FindByID, SetFlag, Drop
<1>9. CASE TeardownStep(t) \/ StopLoop(t)
  BY <1>2, <1>6, <1>9
     DEF TeardownStep, CancelSession, DeleteEntry, ResetFlags, ResetFields, PutBack, StopLoop
<1>10. CASE RangeStep(t)
  <2>1. ASSUME NEW id \in Ids, Skip(t, id) PROVE Alone(t)
    BY <1>1, <2>1 DEF Skip
  <2>2. ASSUME NEW id \in Ids, Visit(t, id) PROVE Alone(t)
    BY <1>5, <2>2 DEF Visit
  <2> QED
    BY <1>10, <2>1, <2>2 DEF RangeStep
<1>11. CASE t = Receiver /\ Receive
  <2>1. CASE UNCHANGED th
    BY <2>1 DEF Alone
  <2> QED
    BY <1>5, <1>11, <2>1 DEF Receive
<1>12. CASE \/ t = Ticker /\ (Tick \/ Claim \/ EndTick)
            \/ t = Closer /\ (StartClose \/ EndClose)
  BY <1>2, <1>6, <1>12 DEF Tick, Claim, EndTick, StartClose, EndClose
<1> QED
  BY <1>7, <1>8, <1>9, <1>10, <1>11, <1>12 DEF StepOf

\* The steps that start something: a context and an object, or a Run.
Starting(t) ==
  /\ t \in Callers
  /\ (\E g \in Gens, o \in Objs : Acquire(t, g, o)) \/ OpenPusher(t)

LEMMA StepsKillAtMost ==
  ASSUME TypeInv, NEW t \in Threads, StepOf(t), ~Starting(t)
  PROVE  run' = run \/ \E o \in Objs : run' = PullerKilled(o)
<1>1. CASE \E op \in Ops, id \in Ids : Request(t, op, id)
  BY <1>1 DEF Request
<1>2. CASE HandlerStep(t) /\ t \in Callers
  <2>1. th[t].pc = "pull" => th[t].obj \in Objs
    BY DEF TypeInv, Holding, HoldsWhatItNeeds
  <2> QED
    BY <1>2, <2>1
       DEF Starting, HandlerStep, LookupSession, CheckAbsent, StoreSession, OpenPuller,
           PullerFails, PusherFails, FindByID, SetFlag, Drop
<1>3. CASE TeardownStep(t) \/ StopLoop(t)
  <2>1. th[t].pc = "clear" => th[t].obj \in Objs
    BY DEF TypeInv, Holding, HoldsWhatItNeeds, TeardownPcs
  <2> QED
    BY <1>3, <2>1
       DEF TeardownStep, CancelSession, DeleteEntry, ResetFlags, ResetFields, PutBack, StopLoop
<1>4. CASE RangeStep(t)
  BY <1>4 DEF RangeStep, Skip, Visit
<1>5. CASE Receive \/ Tick \/ Claim \/ EndTick \/ StartClose \/ EndClose
  BY <1>5 DEF Receive, Tick, Claim, EndTick, StartClose, EndClose
<1> QED
  BY <1>1, <1>2, <1>3, <1>4, <1>5 DEF StepOf

LEMMA QuietSteps ==
  ASSUME TypeInv, NEW t \in Threads, StepOf(t), ~Starting(t)
  PROVE  MakersStay /\ RunsStay
<1>1. RunsStay
  BY StepsKillAtMost, SameRunsStay, KilledRunsStay
<1>2. MakersStay
  <2>1. CASE /\ t \in Callers
             /\ (\E op \in Ops, id \in Ids : Request(t, op, id)) \/ HandlerStep(t)
    BY <2>1, HandlersMakersStay DEF Starting, HandlerStep
  <2> QED
    BY <2>1, TeardownMakersStay, ManagerMakersStay DEF StepOf
<1> QED
  BY <1>1, <1>2

(***************************************************************************)
(* A session in the making has one maker                                   *)
(***************************************************************************)
LEMMA QuietOneMaker ==
  ASSUME OneMaker, MakersStay, RunsStay
  PROVE  OneMaker'
  BY DEF OneMaker, MakersStay, RunsStay, Making

LEMMA AcquireFresh ==
  ASSUME TypeInv, Sound, NEW c \in Callers, NEW g \in Gens, NEW o \in Objs,
         Acquire(c, g, o), ~wired[o]
  PROVE  /\ c \in Threads /\ Alone(c)
         /\ th'[c].pc = "store" /\ th'[c].id = th[c].id /\ th'[c].obj = o /\ th'[c].gen = g
         /\ \A x \in Threads : th[x].obj # o
         /\ \A h \in Gens : run[h].obj # o
         /\ \A h \in Gens : run'[h].obj = run[h].obj /\ run'[h].home = run[h].home
         /\ run[g].pc = "none" /\ run'[g].pc = "held"
         /\ \A h \in Gens \ {g} : run'[h] = run[h]
<1>1. c \in Threads /\ th \in [Threads -> ThreadState] /\ run \in [Gens -> RunState]
  BY DEF Threads, TypeInv, TypeOK
<1>2. "store" \in ThreadPcs /\ "held" \in RunPcs
  BY DEF ThreadPcs, HandlerPcs, RunPcs
<1>3. TakeNew(c, "store", o, g) /\ RunGoto(g, "held") /\ run[g].pc = "none" /\ ~wired[o]
  BY DEF Acquire, RunGoto
<1>4. /\ Alone(c)
      /\ th'[c].pc = "store" /\ th'[c].id = th[c].id /\ th'[c].obj = o /\ th'[c].gen = g
  BY <1>1, <1>2, <1>3, AcquireEffect DEF Alone
<1>5. /\ run'[g].pc = "held" /\ \A h \in Gens \ {g} : run'[h] = run[h]
      /\ \A h \in Gens : run'[h].obj = run[h].obj /\ run'[h].home = run[h].home
  BY <1>1, <1>2, <1>3, RunGotoEffect
<1>6. /\ \A x \in Threads : th[x].obj # o
      /\ \A h \in Gens : run[h].obj # o
  BY <1>3 DEF Sound, OnlyWiredInUse
<1> QED
  BY <1>1, <1>3, <1>4, <1>5, <1>6

LEMMA OpenPusherHandsOver ==
  ASSUME TypeInv, Sound, NEW c \in Callers, OpenPusher(c)
  PROVE  /\ c \in Threads /\ Alone(c) /\ MakersStay
         /\ th[c].pc = "push" /\ th'[c].pc \in {"idle", "byid"}
         /\ th[c].obj \in Objs /\ th[c].gen \in Gens /\ th[c].id \in Ids
         /\ run[th[c].gen].pc = "held"
         /\ run'[th[c].gen].pc = "start" /\ run'[th[c].gen].obj = th[c].obj
         /\ run'[th[c].gen].home = th[c].id
         /\ \A h \in Gens \ {th[c].gen} : run'[h] = run[h]
<1>1. c \in Threads /\ th \in [Threads -> ThreadState] /\ run \in [Gens -> RunState]
  BY DEF Threads, TypeInv, TypeOK
<1>2. Alone(c) /\ MakersStay
  BY <1>1, OthersStay, HandlersMakersStay DEF StepOf, HandlerStep
<1>3. th[c].pc = "push" /\ th[c].obj \in Objs /\ th[c].gen \in Gens /\ th[c].id \in Ids
  BY <1>1 DEF OpenPusher, TypeInv, Holding, HoldsWhatItNeeds, HandlerPcs
<1>4. th'[c].pc \in {"idle", "byid"}
  <2>1. "byid" \in ThreadPcs
    BY DEF ThreadPcs, HandlerPcs
  <2> QED
    BY <1>1, <2>1, GotoEffect, FinishEffect DEF OpenPusher
<1>5. run[th[c].gen].pc = "held"
  BY <1>1, <1>3 DEF Sound, OwnContext
<1>6. /\ run'[th[c].gen].pc = "start" /\ run'[th[c].gen].obj = th[c].obj
      /\ run'[th[c].gen].home = th[c].id
      /\ \A h \in Gens \ {th[c].gen} : run'[h] = run[h]
  BY <1>1, <1>3 DEF OpenPusher
<1> QED
  BY <1>1, <1>2, <1>3, <1>4, <1>5, <1>6

LEMMA OneMakerStep ==
  ASSUME Recycle = FALSE, TypeInv, Sound, OneMaker, [Next]_vars
  PROVE  OneMaker'
<1>1. CASE UNCHANGED vars
  BY <1>1, SameMakersStay, SameRunsStay, QuietOneMaker DEF vars
<1>2. ASSUME NEW t \in Threads, StepOf(t) PROVE OneMaker'
  <2>1. CASE ~Starting(t)
    BY <1>2, <2>1, QuietSteps, QuietOneMaker
  <2>2. ASSUME NEW c \in Callers, NEW g \in Gens, NEW o \in Objs, Acquire(c, g, o)
        PROVE  OneMaker'
    <3>1. /\ Alone(c) /\ th'[c].pc = "store" /\ th'[c].obj = o
          /\ \A x \in Threads : th[x].obj # o
          /\ \A h \in Gens : run[h].obj # o
          /\ \A h \in Gens : run'[h].obj = run[h].obj
      <4>1. ~wired[o]
        BY <2>2 DEF Acquire
      <4> QED
        BY <2>2, <4>1, AcquireFresh
    <3> QED
      BY <3>1 DEF OneMaker, Alone
  <2>3. ASSUME NEW c \in Callers, OpenPusher(c) PROVE OneMaker'
    <3>1. /\ Alone(c) /\ c \in Threads
          /\ th[c].pc = "push" /\ th'[c].pc \in {"idle", "byid"}
          /\ run'[th[c].gen].obj = th[c].obj
          /\ \A h \in Gens \ {th[c].gen} : run'[h] = run[h]
      BY <2>3, OpenPusherHandsOver
    <3> QED
      BY <3>1 DEF OneMaker, Alone
  <2> QED
    BY <2>1, <2>2, <2>3 DEF Starting
<1>3. ASSUME NEW g \in Gens, RunMoves(g) \/ RunReads(g) PROVE OneMaker'
  <2>1. UNCHANGED th
    BY <1>3 DEF RunMoves, RunReads, RunStart, RunCannotStart, RunHead, RunStops, RunUpdates,
         RunReopens, RunClean, RunMark, RunName, RunSend, RunFrame, RunEOF, RunFails
  <2> QED
    BY <1>3, <2>1, RunStepsStay, SameMakersStay, QuietOneMaker
<1>4. ASSUME NEW o \in Objs, RecorderStep(o) PROVE OneMaker'
  <2>1. UNCHANGED th
    BY <1>4 DEF RecorderStep, RecorderHead, RecorderEnds, RecorderSegment, RecorderFails,
         RecorderAsks, RecorderReopens
  <2> QED
    BY <1>4, <2>1, RecorderStepsStay, SameMakersStay, QuietOneMaker
<1> QED
  BY <1>1, <1>2, <1>3, <1>4, WhoSteps

(***************************************************************************)
(* The owners of a session's processes                                     *)
(***************************************************************************)
\* Where Run has yet to end the processes of its session.
Owning == LivePcs \cup {"clean"}

OwnersStay ==
  /\ \A x \in Threads : th[x].pc = "push" => th'[x].pc = "push" /\ th'[x].obj = th[x].obj
  /\ \A g \in Gens : run[g].pc \in Owning => run'[g].pc \in Owning /\ run'[g].obj = run[g].obj

\* Whoever starts a process in a step owns it after the step.
LEMMA OwnersStayOwned ==
  ASSUME ProcsOwned, OwnersStay, \A o \in Objs : procs'[o] # {} => procs[o] # {} \/ Owned(o)'
  PROVE  ProcsOwned'
<1>1. ASSUME NEW o \in Objs, Owned(o) PROVE Owned(o)'
  <2>1. Callers \subseteq Threads
    BY DEF Threads
  <2> QED
    BY <1>1, <2>1 DEF Owned, OwnersStay, Owning
<1> QED
  BY <1>1 DEF ProcsOwned

LEMMA KilledOwnersStay ==
  ASSUME TypeInv, NEW o \in Objs, run' = PullerKilled(o)
  PROVE  \A g \in Gens : run[g].pc \in Owning => run'[g].pc \in Owning /\ run'[g].obj = run[g].obj
  BY PullerKilledEffect DEF Owning, LivePcs, TypeInv, TypeOK

\* A maker that has opened the puller goes on to the pusher.
LEMMA PushersStay ==
  ASSUME TypeInv, NEW t \in Threads, StepOf(t),
         ~(t \in Callers /\ (OpenPusher(t) \/ PusherFails(t)))
  PROVE  \A x \in Threads : th[x].pc = "push" => th'[x].pc = "push" /\ th'[x].obj = th[x].obj
<1>1. \A x \in Threads \ {t} : th'[x] = th[x]
  BY OthersStay DEF Alone
<1>2. th[t].pc # "push"
  <2>1. CASE t \in Callers /\ ((\E op \in Ops, id \in Ids : Request(t, op, id)) \/ HandlerStep(t))
    BY <2>1
       DEF Request, HandlerStep, LookupSession, CheckAbsent, Acquire, StoreSession, OpenPuller,
           PullerFails, FindByID, SetFlag, Drop
  <2>2. CASE TeardownStep(t) \/ StopLoop(t) \/ RangeStep(t)
    BY <2>2 DEF TeardownStep, CancelSession, DeleteEntry, ResetFlags, ResetFields, PutBack,
                StopLoop, RangeStep, Skip, Visit
  <2>3. CASE \/ t = Receiver /\ Receive
             \/ t = Ticker /\ (Tick \/ Claim \/ EndTick)
             \/ t = Closer /\ (StartClose \/ EndClose)
    BY <2>3 DEF Receive, Tick, Claim, EndTick, StartClose, EndClose
  <2> QED
    BY <2>1, <2>2, <2>3 DEF StepOf
<1> QED
  BY <1>1, <1>2

LEMMA ThreadProcsOwned ==
  ASSUME PushMayFail = FALSE, Recycle = FALSE, TypeInv, Sound, OneMaker, ProcsOwned,
         NEW t \in Threads, StepOf(t)
  PROVE  ProcsOwned'
<1>0. procs \in [Objs -> SUBSET {"pull", "push"}]
  BY DEF TypeInv, TypeOK
<1>1. CASE t \in Callers /\ OpenPusher(t)
  <2>1. /\ t \in Threads /\ Alone(t)
        /\ th[t].pc = "push" /\ th[t].obj \in Objs /\ th[t].gen \in Gens
        /\ run[th[t].gen].pc = "held"
        /\ run'[th[t].gen].pc = "start" /\ run'[th[t].gen].obj = th[t].obj
        /\ \A h \in Gens \ {th[t].gen} : run'[h] = run[h]
    BY <1>1, OpenPusherHandsOver
  <2> PICK p \in Objs : p = th[t].obj
    BY <2>1
  <2>2. \A o \in Objs \ {p} : procs'[o] = procs[o]
    BY <1>0, <1>1 DEF OpenPusher
  <2>3. Owned(p)'
    BY <2>1 DEF Owned, LivePcs
  <2>4. ASSUME NEW o \in Objs \ {p}, procs'[o] # {} PROVE Owned(o)'
    <3>1. Owned(o)
      BY <2>2, <2>4 DEF ProcsOwned
    <3>2. CASE \E c \in Callers : th[c].obj = o /\ th[c].pc = "push"
      <4>1. PICK c \in Callers : th[c].obj = o /\ th[c].pc = "push"
        BY <3>2
      <4>2. c # t /\ c \in Threads
        BY <4>1 DEF Threads
      <4> QED
        BY <2>1, <4>1, <4>2 DEF Alone, Owned
    <3>3. CASE \E g \in Gens : run[g].obj = o /\ run[g].pc \in LivePcs \cup {"clean"}
      <4>1. PICK g \in Gens : run[g].obj = o /\ run[g].pc \in LivePcs \cup {"clean"}
        BY <3>3
      <4>2. g # th[t].gen
        BY <2>1, <4>1 DEF LivePcs
      <4> QED
        BY <2>1, <4>1, <4>2 DEF Owned
    <3> QED
      BY <3>1, <3>2, <3>3 DEF Owned
  <2> QED
    BY <2>3, <2>4 DEF ProcsOwned
<1>2. ASSUME NEW c \in Callers, NEW g \in Gens, NEW o \in Objs, Acquire(c, g, o), c = t
      PROVE  ProcsOwned'
  <2>1. ~wired[o]
    BY <1>2 DEF Acquire
  <2>2. run[g].pc = "none" /\ \A h \in Gens \ {g} : run'[h] = run[h]
    BY <1>2, <2>1, AcquireFresh
  <2>3. \A x \in Threads : th[x].pc = "push" => th'[x].pc = "push" /\ th'[x].obj = th[x].obj
    <3>1. th[c].pc = "acquire"
      BY <1>2 DEF Acquire
    <3>2. ~OpenPusher(t) /\ ~PusherFails(t)
      BY <1>2, <3>1 DEF OpenPusher, PusherFails
    <3> QED
      BY <3>2, PushersStay
  <2>4. OwnersStay
    BY <2>2, <2>3 DEF OwnersStay, Owning, LivePcs
  <2>5. UNCHANGED procs
    BY <1>2 DEF Acquire
  <2> QED
    BY <2>4, <2>5, OwnersStayOwned
<1>3. CASE ~Starting(t)
  <2>1. ~(t \in Callers /\ (OpenPusher(t) \/ PusherFails(t)))
    BY <1>3 DEF Starting, PusherFails
  <2>2. OwnersStay
    <3>1. \A g \in Gens :
            run[g].pc \in Owning => run'[g].pc \in Owning /\ run'[g].obj = run[g].obj
      BY <1>3, StepsKillAtMost, KilledOwnersStay
    <3> QED
      BY <2>1, <3>1, PushersStay DEF OwnersStay
  <2>3. CASE t \in Callers /\ OpenPuller(t)
    <3>1. /\ th[t].obj \in Objs /\ th'[t].pc = "push" /\ th'[t].obj = th[t].obj
      <4>1. th \in [Threads -> ThreadState] /\ "push" \in ThreadPcs
        BY DEF TypeInv, TypeOK, ThreadPcs, HandlerPcs
      <4> QED
        BY <2>3, <4>1, GotoEffect DEF OpenPuller, TypeInv, Holding, HoldsWhatItNeeds
    <3> PICK p \in Objs : p = th[t].obj
      BY <3>1
    <3>2. Owned(p)'
      BY <2>3, <3>1 DEF Owned
    <3>3. \A o \in Objs \ {p} : procs'[o] = procs[o]
      BY <1>0, <2>3 DEF OpenPuller, PullerStarts
    <3> QED
      BY <2>2, <3>2, <3>3, OwnersStayOwned
  <2>4. CASE ~(t \in Callers /\ OpenPuller(t))
    <3>1. \A o \in Objs : procs'[o] \subseteq procs[o]
      <4>1. CASE /\ t \in Callers
                 /\ (\E op \in Ops, id \in Ids : Request(t, op, id)) \/ HandlerStep(t)
        BY <1>0, <1>3, <2>1, <2>4, <4>1
           DEF Starting, Request, HandlerStep, LookupSession, CheckAbsent, StoreSession,
               PullerFails, PullerDoesNotStart, FindByID, SetFlag, Drop, fields, media
      <4>2. CASE TeardownStep(t) \/ StopLoop(t) \/ RangeStep(t)
        BY <1>0, <4>2
           DEF TeardownStep, CancelSession, DeleteEntry, ResetFlags, ResetFields, PutBack,
               StopLoop, RangeStep, Skip, Visit, fields, media
      <4>3. CASE Receive \/ Tick \/ Claim \/ EndTick \/ StartClose \/ EndClose
        BY <4>3 DEF Receive, Tick, Claim, EndTick, StartClose, EndClose, fields, media
      <4> QED
        BY <4>1, <4>2, <4>3 DEF StepOf
    <3> QED
      BY <2>2, <3>1, OwnersStayOwned
  <2> QED
    BY <2>3, <2>4
<1> QED
  BY <1>1, <1>2, <1>3 DEF Starting

LEMMA RunsLeaveThreads ==
  ASSUME NEW g \in Gens, RunMoves(g) \/ RunReads(g)
  PROVE  UNCHANGED <<sessions, idOf, ctxOf, th>>
  BY DEF RunMoves, RunReads, RunStart, RunCannotStart, RunHead, RunStops, RunUpdates,
         RunReopens, RunClean, RunMark, RunName, RunSend, RunFrame, RunEOF, RunFails,
         fields, identity

LEMMA RecordersLeaveThreads ==
  ASSUME NEW o \in Objs, RecorderStep(o)
  PROVE  UNCHANGED <<sessions, idOf, ctxOf, th>>
  BY DEF RecorderStep, RecorderHead, RecorderEnds, RecorderSegment, RecorderFails,
         RecorderAsks, RecorderReopens, fields, identity

\* Runs keep owning their processes until the deferred function.
LEMMA RunOwnersStay ==
  ASSUME TypeInv, NEW g \in Gens, RunMoves(g) \/ RunReads(g), ~RunClean(g)
  PROVE  OwnersStay
<1>0. UNCHANGED th
  BY RunsLeaveThreads
<1>1. run[g].obj \in Objs /\ run \in [Gens -> RunState]
  BY RunHasObject DEF TypeInv, TypeOK
<1>2. ASSUME NEW pc \in RunPcs, RunGoto(g, pc), run[g].pc \in Owning => pc \in Owning
      PROVE  OwnersStay
  BY <1>0, <1>1, <1>2, RunGotoEffect DEF OwnersStay
<1>3. Owning \cup {"mark", "name", "done"} \subseteq RunPcs
  BY DEF RunPcs, Owning, LivePcs
<1>4. CASE RunStart(g) \/ RunCannotStart(g) \/ RunHead(g) \/ RunStops(g)
  BY <1>2, <1>3, <1>4 DEF RunStart, RunCannotStart, RunHead, RunStops, Owning, LivePcs
<1>5. CASE RunUpdates(g)
  BY <1>0, <1>1, <1>5, KilledOwnersStay DEF RunUpdates, OwnersStay
<1>6. CASE RunReopens(g)
  <2>1. CASE run' = [PullerKilled(run[g].obj) EXCEPT ![g].pc = "loop"]
    <3>1. RunsStay /\ \A h \in Gens \ {g} : \/ run'[h].pc = run[h].pc
                                            \/ {run[h].pc, run'[h].pc} \subseteq LivePcs
      <4>1. "loop" \in RunPcs /\ run[g].pc \in LivePcs
        BY <1>6 DEF RunPcs, LivePcs, RunReopens
      <4> QED
        BY <1>1, <2>1, <4>1, KilledGotoRunsStay
    <3>2. run'[g].pc = "loop"
      <4>1. "loop" \in RunPcs /\ run[g].pc \in LivePcs
        BY <1>6 DEF RunPcs, LivePcs, RunReopens
      <4> QED
        BY <1>1, <2>1, <4>1, KilledGotoRunsStay
    <3> QED
      BY <1>0, <3>1, <3>2 DEF OwnersStay, RunsStay, Owning, LivePcs
  <2> QED
    BY <1>2, <1>3, <1>6, <2>1 DEF RunReopens, Owning, LivePcs
<1>7. CASE RunMark(g) \/ RunSend(g)
  BY <1>2, <1>3, <1>7 DEF RunMark, RunSend, Owning, LivePcs
<1>8. CASE RunName(g)
  <2>1. idOf[run[g].obj] \in Ids \cup {NoId} /\ run[g].pc = "name"
    BY <1>1, <1>8 DEF RunName, TypeInv, TypeOK
  <2>2. \A h \in Gens \ {g} : run'[h] = run[h]
    BY <1>1, <1>8, <2>1, RunNameEffect DEF RunName
  <2> QED
    BY <1>0, <2>1, <2>2 DEF OwnersStay, Owning, LivePcs
<1>9. CASE RunFrame(g) \/ RunEOF(g) \/ RunFails(g)
  BY <1>2, <1>3, <1>9 DEF RunFrame, RunEOF, RunFails, Owning, LivePcs
<1> QED
  BY <1>4, <1>5, <1>6, <1>7, <1>8, <1>9 DEF RunMoves, RunReads

LEMMA RunProcsOwned ==
  ASSUME TypeInv, ProcsOwned, NEW g \in Gens, RunMoves(g) \/ RunReads(g)
  PROVE  ProcsOwned'
<1>0. /\ run[g].obj \in Objs /\ procs \in [Objs -> SUBSET {"pull", "push"}]
      /\ run \in [Gens -> RunState]
  BY RunHasObject DEF TypeInv, TypeOK
<1> PICK p \in Objs : p = run[g].obj
  BY <1>0
<1>1. CASE RunClean(g)
  <2>1. /\ UNCHANGED th
        /\ procs'[p] = {} /\ \A o \in Objs \ {p} : procs'[o] = procs[o]
        /\ run' = [PullerKilled(p) EXCEPT ![g].pc = "mark"]
    BY <1>0, <1>1 DEF RunClean
  <2>2. RunsStay /\ \A h \in Gens \ {g} : \/ run'[h].pc = run[h].pc
                                          \/ {run[h].pc, run'[h].pc} \subseteq LivePcs
    <3>1. "mark" \in RunPcs /\ "mark" \notin LivePcs
      BY DEF RunPcs, LivePcs
    <3> QED
      BY <2>1, <3>1, KilledGotoRunsStay
  <2>3. ASSUME NEW o \in Objs \ {p}, Owned(o) PROVE Owned(o)'
    <3>1. \A h \in Gens : run[h].obj = o => h # g
      OBVIOUS
    <3> QED
      BY <2>1, <2>2, <2>3, <3>1 DEF Owned, RunsStay
  <2> QED
    BY <2>1, <2>3 DEF ProcsOwned
<1>2. CASE ~RunClean(g)
  <2>1. OwnersStay
    BY <1>2, RunOwnersStay
  <2>2. \A o \in Objs \ {p} : procs'[o] = procs[o]
    BY <1>0, <1>2
       DEF RunMoves, RunReads, RunStart, RunCannotStart, RunHead, RunStops, RunUpdates,
           RunReopens, RunMark, RunName, RunSend, RunFrame, RunEOF, RunFails,
           PullerStarts, PullerDoesNotStart, fields, media
  <2>3. \/ procs'[p] \subseteq procs[p]
        \/ RunStart(g) \/ RunUpdates(g) \/ RunReopens(g)
    BY <1>0, <1>2
       DEF RunMoves, RunReads, RunCannotStart, RunHead, RunStops,
           RunMark, RunName, RunSend, RunFrame, RunEOF, RunFails, fields, media
  <2>4. ASSUME RunStart(g) \/ RunUpdates(g) \/ RunReopens(g) PROVE Owned(p)'
    <3>1. run[g].pc \in Owning
      BY <2>4 DEF RunStart, RunUpdates, RunReopens, Owning, LivePcs
    <3> QED
      BY <2>1, <3>1 DEF OwnersStay, Owned, Owning
  <2> QED
    BY <2>1, <2>2, <2>3, <2>4, OwnersStayOwned
<1> QED
  BY <1>1, <1>2

LEMMA RecorderProcsOwned ==
  ASSUME TypeInv, ProcsOwned, NoRenewal, NEW o \in Objs, RecorderStep(o)
  PROVE  ProcsOwned'
<1>1. UNCHANGED <<procs, th, run>>
  BY DEF NoRenewal, RecorderStep, RecorderHead, RecorderEnds, RecorderSegment, RecorderFails,
         RecorderAsks, RecorderReopens
<1>2. OwnersStay
  BY <1>1 DEF OwnersStay
<1> QED
  BY <1>1, <1>2, OwnersStayOwned

\* A handler serves one request until it has finished it.
LEMMA OpsStay ==
  ASSUME TypeInv, NEW c \in Callers, StepOf(c)
  PROVE  th'[c].op \in Ops \cup {th[c].op, "none"}
<1>0. /\ th \in [Threads -> ThreadState] /\ c \in Threads /\ c \notin Managers
      /\ HoldsWhatItNeeds(c) /\ c \notin {Receiver, Ticker, Closer}
  BY ConstantsAssumption DEF TypeInv, TypeOK, Threads, Holding, Managers
<1>1. ASSUME NEW pc \in ThreadPcs, Goto(c, pc) PROVE th'[c].op = th[c].op
  BY <1>0, <1>1, GotoEffect
<1>2. ASSUME Finish(c) PROVE th'[c].op = "none"
  BY <1>0, <1>2 DEF Finish, Resting
<1>3. ASSUME NEW pc \in ThreadPcs, NEW o \in Objs, Take(c, pc, o) PROVE th'[c].op = th[c].op
  BY <1>0, <1>3, FindEffect
<1>4. HandlerPcs \cup TeardownPcs \cup {"stopped"} \subseteq ThreadPcs
  BY DEF ThreadPcs
<1>5. ASSUME NEW op \in Ops, NEW id \in Ids, Request(c, op, id) PROVE th'[c].op = op
  BY <1>0, <1>5 DEF Request, Resting
<1>6. CASE LookupSession(c)
  <2>1. th[c].id \in Ids /\ th[c].op \in AllOps
    BY <1>0, <1>6 DEF LookupSession, HoldsWhatItNeeds, HandlerPcs
  <2>2. CASE /\ sessions[th[c].id] # NoObj /\ th[c].op # "CreateSession"
             /\ Take(c, FoundPc[th[c].op], sessions[th[c].id])
    <3>1. sessions[th[c].id] \in Objs
      BY <2>1, <2>2 DEF TypeInv, TypeOK
    <3>2. FoundPc[th[c].op] \in ThreadPcs
      BY <1>4, <2>1, <2>2 DEF FoundPc, AllOps, Creating, HandlerPcs
    <3> QED
      BY <1>3, <2>2, <3>1, <3>2
  <2> QED
    BY <1>1, <1>2, <1>4, <1>6, <2>2 DEF LookupSession, HandlerPcs
<1>7. CASE CheckAbsent(c) \/ StoreSession(c) \/ OpenPuller(c) \/ Drop(c)
  BY <1>1, <1>2, <1>4, <1>7
     DEF CheckAbsent, StoreSession, OpenPuller, Drop, HandlerPcs, TeardownPcs
<1>8. ASSUME NEW g \in Gens, NEW o \in Objs, Acquire(c, g, o) PROVE th'[c].op = th[c].op
  BY <1>0, <1>4, <1>8, AcquireEffect DEF Acquire, HandlerPcs
<1>9. CASE PullerFails(c) \/ OpenPusher(c) \/ PusherFails(c) \/ SetFlag(c)
  BY <1>1, <1>2, <1>4, <1>9 DEF PullerFails, OpenPusher, PusherFails, SetFlag, HandlerPcs
<1>10. CASE FindByID(c)
  <2> DEFINE o == Lookup(idOf[th[c].obj])
  <2>1. o \in Objs \cup {NoObj} /\ "flag" \in ThreadPcs
    BY <1>4 DEF Lookup, TypeInv, TypeOK, HandlerPcs
  <2>2. IF o = NoObj THEN Finish(c) ELSE Take(c, "flag", o)
    BY <1>10 DEF FindByID
  <2> HIDE DEF o
  <2> QED
    BY <1>2, <1>3, <2>1, <2>2
<1>11. CASE TeardownStep(c) \/ StopLoop(c) \/ RangeStep(c)
  BY <1>0, <1>1, <1>2, <1>4, <1>11
     DEF TeardownStep, CancelSession, DeleteEntry, ResetFlags, ResetFields, PutBack,
         StopLoop, RangeStep, Skip, Visit, TeardownPcs
<1> QED
  BY <1>0, <1>5, <1>6, <1>7, <1>8, <1>9, <1>10, <1>11 DEF StepOf, HandlerStep

LEMMA ThreadNoRenewal ==
  ASSUME TypeInv, NoRenewal, AutoRestart => "StartRecord" \notin Ops,
         NEW t \in Threads, StepOf(t)
  PROVE  NoRenewal'
<1>0. rec \in [Objs -> {"none", "head", "segment", "renew"}] /\ Callers \subseteq Threads
  BY DEF TypeInv, TypeOK, Threads
<1>1. \/ UNCHANGED rec
      \/ /\ t \in Callers /\ th[t].op = "StartRecord"
         /\ \E o \in Objs : rec' = [rec EXCEPT ![o] = "head"]
  <2>1. CASE t \in Callers /\ ((\E op \in Ops, id \in Ids : Request(t, op, id)) \/ HandlerStep(t))
    <3>1. CASE SetFlag(t)
      <4>1. th[t].obj \in Objs
        BY <1>0, <3>1 DEF SetFlag, TypeInv, Holding, HoldsWhatItNeeds
      <4> QED
        BY <2>1, <3>1, <4>1 DEF SetFlag, SetDetect, StopRecord, StartRecord
    <3> QED
      BY <2>1, <3>1
         DEF Request, HandlerStep, LookupSession, CheckAbsent, Acquire, StoreSession,
             OpenPuller, PullerFails, OpenPusher, PusherFails, FindByID, Drop, fields, media
  <2>2. CASE TeardownStep(t) \/ StopLoop(t) \/ RangeStep(t)
    BY <2>2
       DEF TeardownStep, CancelSession, DeleteEntry, ResetFlags, ResetFields, PutBack,
           StopLoop, RangeStep, Skip, Visit, fields, media
  <2>3. CASE Receive \/ Tick \/ Claim \/ EndTick \/ StartClose \/ EndClose
    BY <2>3 DEF Receive, Tick, Claim, EndTick, StartClose, EndClose, fields, media
  <2> QED
    BY <2>1, <2>2, <2>3 DEF StepOf
<1>2. \A o \in Objs : rec'[o] # "renew"
  BY <1>0, <1>1 DEF NoRenewal
<1>3. ASSUME AutoRestart PROVE UNCHANGED rec
  BY <1>0, <1>1, <1>3 DEF NoRenewal
<1>4. ASSUME AutoRestart, NEW c \in Callers PROVE th'[c].op # "StartRecord"
  <2>1. CASE c = t
    BY <1>4, <2>1, OpsStay DEF NoRenewal
  <2>2. CASE c # t
    BY <1>0, <1>4, <2>2, OthersStay DEF NoRenewal, Alone
  <2> QED
    BY <2>1, <2>2
<1> QED
  BY <1>2, <1>3, <1>4 DEF NoRenewal

LEMMA RecorderNoRenewal ==
  ASSUME TypeInv, NoRenewal, NEW o \in Objs, RecorderStep(o)
  PROVE  NoRenewal'
<1>0. rec \in [Objs -> {"none", "head", "segment", "renew"}] /\ UNCHANGED th
  BY RecordersLeaveThreads DEF TypeInv, TypeOK
<1>1. rec[o] # "none" /\ rec[o] # "renew"
  BY DEF NoRenewal, RecorderStep, RecorderHead, RecorderEnds, RecorderSegment, RecorderFails,
         RecorderAsks, RecorderReopens
<1>2. ~AutoRestart
  BY <1>1 DEF NoRenewal
<1>3. rec' = [rec EXCEPT ![o] = "segment"] \/ rec' = [rec EXCEPT ![o] = "none"]
      \/ rec' = [rec EXCEPT ![o] = "head"]
  BY <1>1, <1>2 DEF RecorderStep, RecorderHead, RecorderEnds, RecorderSegment, RecorderFails,
         RecorderAsks, RecorderReopens
<1> QED
  BY <1>0, <1>2, <1>3 DEF NoRenewal

LEMMA OwnersInit == Init => OwnersInv
<1> SUFFICES ASSUME Init PROVE OwnersInv
  OBVIOUS
<1>1. /\ \A o \in Objs : procs[o] = {} /\ rec[o] = "none"
      /\ \A t \in Threads : th[t].pc = "idle" /\ th[t].op = "none"
      /\ Callers \subseteq Threads
  BY DEF Init, Resting, Threads
<1> QED
  BY <1>1 DEF OwnersInv, OneMaker, ProcsOwned, NoRenewal

LEMMA OwnersStep ==
  ASSUME Recycle = FALSE, PushMayFail = FALSE, AutoRestart => "StartRecord" \notin Ops,
         TypeInv, Sound, OwnersInv, [Next]_vars
  PROVE  OwnersInv'
<1> USE DEF OwnersInv
<1>1. OneMaker'
  BY OneMakerStep
<1>2. CASE UNCHANGED vars
  BY <1>1, <1>2 DEF vars, fields, media, ProcsOwned, Owned, NoRenewal
<1>3. ASSUME NEW t \in Threads, StepOf(t) PROVE OwnersInv'
  BY <1>1, <1>3, ThreadProcsOwned, ThreadNoRenewal
<1>4. ASSUME NEW g \in Gens, RunMoves(g) \/ RunReads(g) PROVE OwnersInv'
  <2>1. UNCHANGED <<rec, th>>
    BY <1>4
       DEF RunMoves, RunReads, RunStart, RunCannotStart, RunHead, RunStops, RunUpdates,
           RunReopens, RunClean, RunMark, RunName, RunSend, RunFrame, RunEOF, RunFails,
           fields, media
  <2> QED
    BY <1>1, <1>4, <2>1, RunProcsOwned DEF NoRenewal
<1>5. ASSUME NEW o \in Objs, RecorderStep(o) PROVE OwnersInv'
  BY <1>1, <1>5, RecorderProcsOwned, RecorderNoRenewal
<1> QED
  BY <1>2, <1>3, <1>4, <1>5, WhoSteps

\* While every Get returns a new object, every pusher starts and no recorder
\* opens a puller of its own, the ffmpeg processes of a session that is no
\* longer in the map (CreateSession, Run's deferred function, Reset) still
\* have an owner that will end them.
THEOREM FreshNoStrayProcess ==
  ASSUME Recycle = FALSE, PushMayFail = FALSE, AutoRestart => "StartRecord" \notin Ops
  PROVE  Spec => []NoStrayProcess
<1>1. Init => TypeInv /\ Sound /\ OwnersInv
  BY TypeInit, SoundInit, OwnersInit
<1>2. TypeInv /\ Sound /\ OwnersInv /\ [Next]_vars => (TypeInv /\ Sound /\ OwnersInv)'
  BY TypeStep, SoundStep, OwnersStep
<1>3. OwnersInv => NoStrayProcess
  BY DEF OwnersInv, ProcsOwned, Owned, NoStrayProcess, LivePcs
<1> QED
  BY <1>1, <1>2, <1>3, PTL DEF Spec

(***************************************************************************)
(* Which Runs can be found: who serves a session after a step              *)
(***************************************************************************)
\* Whoever serves a session served it before, but for a session just made:
\* nobody knew its object, and its context is its own.
Fresh(g, o) ==
  /\ ctxOf'[o] = g
  /\ \A x \in Threads : th[x].obj # o
  /\ \A h \in Gens : run[h].obj # o
  /\ \E c \in Threads : th'[c].pc = "store" /\ th'[c].obj = o

ServersStay ==
  \A g \in Gens, o \in Objs, id \in Ids : Serves(g, o, id)' => Serves(g, o, id) \/ Fresh(g, o)

LEMMA QuietServersStay == MakersStay /\ RunsStay => ServersStay
  BY DEF MakersStay, RunsStay, ServersStay, Serves, Making

LEMMA AcquireServersStay ==
  ASSUME TypeInv, Sound, NEW c \in Callers, NEW g \in Gens, NEW o \in Objs,
         Acquire(c, g, o), ~wired[o]
  PROVE  ServersStay
<1>1. /\ c \in Threads /\ Alone(c)
      /\ th'[c].pc = "store" /\ th'[c].obj = o /\ th'[c].gen = g
      /\ \A x \in Threads : th[x].obj # o
      /\ \A h \in Gens : run[h].obj # o
      /\ run'[g].pc = "held" /\ \A h \in Gens \ {g} : run'[h] = run[h]
  BY AcquireFresh
<1>2. ctxOf'[o] = g
  BY DEF Acquire, TypeInv, TypeOK
<1> SUFFICES ASSUME NEW h \in Gens, NEW p \in Objs, NEW id \in Ids, Serves(h, p, id)'
             PROVE  Serves(h, p, id) \/ Fresh(h, p)
  BY DEF ServersStay
<1>3. CASE run'[h].pc \in LivePcs /\ run'[h].obj = p /\ run'[h].home = id
  <2>1. run'[h] = run[h]
    BY <1>1, <1>3 DEF LivePcs
  <2> QED
    BY <1>3, <2>1 DEF Serves
<1>4. ASSUME NEW d \in Threads, th'[d].pc \in {"store", "pull", "push"},
             th'[d].gen = h, th'[d].obj = p, th'[d].id = id
      PROVE  Serves(h, p, id) \/ Fresh(h, p)
  <2>1. CASE d = c
    BY <1>1, <1>2, <1>4, <2>1 DEF Fresh
  <2>2. CASE d # c
    <3>1. th'[d] = th[d]
      BY <1>1, <2>2 DEF Alone
    <3> QED
      BY <1>4, <3>1 DEF Serves
  <2> QED
    BY <2>1, <2>2
<1> QED
  BY <1>3, <1>4 DEF Serves

LEMMA OpenPusherServersStay ==
  ASSUME TypeInv, Sound, NEW c \in Callers, OpenPusher(c)
  PROVE  ServersStay
<1>1. /\ c \in Threads /\ MakersStay
      /\ th[c].pc = "push"
      /\ run'[th[c].gen].obj = th[c].obj /\ run'[th[c].gen].home = th[c].id
      /\ \A h \in Gens \ {th[c].gen} : run'[h] = run[h]
  BY OpenPusherHandsOver
<1> SUFFICES ASSUME NEW h \in Gens, NEW p \in Objs, NEW id \in Ids, Serves(h, p, id)'
             PROVE  Serves(h, p, id)
  BY DEF ServersStay
<1>2. CASE run'[h].pc \in LivePcs /\ run'[h].obj = p /\ run'[h].home = id
  BY <1>1, <1>2 DEF Serves
<1> QED
  BY <1>1, <1>2 DEF Serves, MakersStay, Making

LEMMA ServersStep ==
  ASSUME Recycle = FALSE, TypeInv, Sound, [Next]_vars
  PROVE  ServersStay
<1>1. CASE UNCHANGED vars
  BY <1>1, SameMakersStay, SameRunsStay, QuietServersStay DEF vars
<1>2. ASSUME NEW t \in Threads, StepOf(t) PROVE ServersStay
  <2>1. CASE ~Starting(t)
    BY <1>2, <2>1, QuietSteps, QuietServersStay
  <2>2. ASSUME NEW c \in Callers, NEW g \in Gens, NEW o \in Objs, Acquire(c, g, o)
        PROVE  ServersStay
    <3>1. ~wired[o]
      BY <2>2 DEF Acquire
    <3> QED
      BY <2>2, <3>1, AcquireServersStay
  <2> QED
    BY <2>1, <2>2, OpenPusherServersStay DEF Starting
<1>3. ASSUME NEW g \in Gens, RunMoves(g) \/ RunReads(g) PROVE ServersStay
  BY <1>3, RunsLeaveThreads, RunStepsStay, SameMakersStay, QuietServersStay
<1>4. ASSUME NEW o \in Objs, RecorderStep(o) PROVE ServersStay
  BY <1>4, RecordersLeaveThreads, RecorderStepsStay, SameMakersStay, QuietServersStay
<1> QED
  BY <1>1, <1>2, <1>3, <1>4, WhoSteps

(***************************************************************************)
(* Which Runs can be found: contexts and teardowns                         *)
(***************************************************************************)
LEMMA CancelledGrows ==
  ASSUME TypeInv, [Next]_vars
  PROVE  cancelled \subseteq cancelled'
<1>0. cancelled \subseteq Gens
  BY DEF TypeInv, TypeOK
<1>1. CASE UNCHANGED vars
  BY <1>1 DEF vars
<1>2. ASSUME NEW t \in Threads, StepOf(t) PROVE cancelled \subseteq cancelled'
  BY <1>0, <1>2
     DEF StepOf, Request, HandlerStep, LookupSession, CheckAbsent, Acquire, StoreSession,
         OpenPuller, PullerFails, OpenPusher, PusherFails, FindByID, SetFlag, Drop,
         TeardownStep, CancelSession, DeleteEntry, ResetFlags, ResetFields, PutBack,
         StopLoop, RangeStep, Skip, Visit, Receive, Tick, Claim, EndTick, StartClose,
         EndClose, Cancelling
<1>3. ASSUME NEW g \in Gens, RunMoves(g) \/ RunReads(g) PROVE cancelled \subseteq cancelled'
  BY <1>3
     DEF RunMoves, RunReads, RunStart, RunCannotStart, RunHead, RunStops, RunUpdates,
         RunReopens, RunClean, RunMark, RunName, RunSend, RunFrame, RunEOF, RunFails,
         Cancelling
<1>4. ASSUME NEW o \in Objs, RecorderStep(o) PROVE cancelled \subseteq cancelled'
  BY <1>4
     DEF RecorderStep, RecorderHead, RecorderEnds, RecorderSegment, RecorderFails,
         RecorderAsks, RecorderReopens, Cancelling
<1> QED
  BY <1>1, <1>2, <1>3, <1>4, WhoSteps

\* A session's context changes when it is got and when it is emptied.
LEMMA ContextsStay ==
  ASSUME Recycle = FALSE, TypeInv, Sound, [Next]_vars, NEW o \in Objs
  PROVE  \/ ctxOf'[o] = ctxOf[o]
         \/ \E t \in Threads : th[t].pc = "clear" /\ th[t].obj = o
         \/ /\ \A x \in Threads : th[x].obj # o
            /\ \A h \in Gens : run[h].obj # o
<1>0. ctxOf \in [Objs -> Gens \cup {NoGen}]
  BY DEF TypeInv, TypeOK
<1>1. CASE UNCHANGED vars
  BY <1>1 DEF vars, fields, identity
<1>2. ASSUME NEW t \in Threads, StepOf(t), ctxOf'[o] # ctxOf[o]
      PROVE  \/ th[t].pc = "clear" /\ th[t].obj = o
             \/ /\ \A x \in Threads : th[x].obj # o
                /\ \A h \in Gens : run[h].obj # o
  <2>1. ASSUME NEW c \in Callers, NEW g \in Gens, NEW p \in Objs, Acquire(c, g, p)
        PROVE  /\ \A x \in Threads : th[x].obj # o
               /\ \A h \in Gens : run[h].obj # o
    <3>1. p = o /\ ~wired[o]
      BY <1>0, <1>2, <2>1 DEF Acquire
    <3> QED
      BY <3>1 DEF Sound, OnlyWiredInUse
  <2>2. CASE ResetFields(t)
    BY <1>0, <1>2, <2>2 DEF ResetFields
  <2>3. CASE ~ResetFields(t) /\ ~\E g \in Gens, p \in Objs : Acquire(t, g, p)
    BY <1>2, <2>3
       DEF StepOf, Request, HandlerStep, LookupSession, CheckAbsent, StoreSession,
           OpenPuller, PullerFails, OpenPusher, PusherFails, FindByID, SetFlag, Drop,
           TeardownStep, CancelSession, DeleteEntry, ResetFlags, PutBack,
           StopLoop, RangeStep, Skip, Visit, Receive, Tick, Claim, EndTick, StartClose,
           EndClose, fields, identity
  <2>4. CASE \E g \in Gens, p \in Objs : Acquire(t, g, p)
    <3>1. t \in Callers
      <4>1. th[t].pc = "acquire"
        BY <2>4 DEF Acquire
      <4> QED
        BY <1>2, <4>1
           DEF StepOf, TeardownStep, CancelSession, DeleteEntry, ResetFlags, ResetFields,
               PutBack, StopLoop, RangeStep, Skip, Visit, Receive, Tick, Claim, EndTick,
               StartClose, EndClose
    <3> QED
      BY <2>1, <2>4, <3>1
  <2> QED
    BY <2>2, <2>3, <2>4
<1>3. ASSUME NEW g \in Gens, RunMoves(g) \/ RunReads(g) PROVE UNCHANGED ctxOf
  BY <1>3, RunsLeaveThreads
<1>4. ASSUME NEW p \in Objs, RecorderStep(p) PROVE UNCHANGED ctxOf
  BY <1>4, RecordersLeaveThreads
<1> QED
  BY <1>1, <1>2, <1>3, <1>4, WhoSteps

\* Where a goroutine needs the contexts of its session to be cancelled.
NeedsCancelled(t) == th[t].pc = "clear" \/ (th[t].pc = "delete" /\ t \in Managers)

\* The context that o has is cancelled once the step is taken.
Cancels(o) == ctxOf[o] \in Gens => ctxOf[o] \in cancelled'

\* A goroutine that comes to such a point has just cancelled its session's.
LEMMA TeardownCancels ==
  ASSUME TypeInv, NEW t \in Threads, StepOf(t), NeedsCancelled(t)'
  PROVE  th'[t] = th[t] \/ (th'[t].obj \in Objs /\ Cancels(th'[t].obj))
<1>0. /\ th \in [Threads -> ThreadState] /\ HoldsWhatItNeeds(t)
      /\ t \in Callers => t \notin Managers
  BY ConstantsAssumption DEF TypeInv, TypeOK, Holding
<1>1. HandlerPcs \cup RangePcs \cup TeardownPcs \cup {"stopped"} \subseteq ThreadPcs
  BY DEF ThreadPcs
<1>2. th'[t].pc \in {"clear", "delete"} /\ (th'[t].pc = "delete" => t \in Managers)
  BY DEF NeedsCancelled
<1>3. ASSUME NEW pc \in ThreadPcs \ {"clear", "delete"}, Goto(t, pc) PROVE FALSE
  BY <1>0, <1>2, <1>3, GotoEffect
<1>4. ASSUME Finish(t) \/ RangeOn(t) \/ StartRange(t) PROVE FALSE
  BY <1>0, <1>2, <1>4, FinishEffect, RangeOnEffect, StartRangeEffect
<1>5. CASE t \in Callers /\ ((\E op \in Ops, id \in Ids : Request(t, op, id)) \/ HandlerStep(t))
  <2>1. ASSUME NEW op \in Ops, NEW id \in Ids, Request(t, op, id) PROVE FALSE
    <3>1. th'[t].pc = "lookup"
      BY <1>0, <2>1 DEF Request, Resting
    <3> QED
      BY <1>2, <3>1
  <2>2. ASSUME NEW pc \in {"flag", "byid", "drop"}, NEW o \in Objs, Take(t, pc, o) PROVE FALSE
    <3>1. pc \in ThreadPcs
      BY <1>1 DEF HandlerPcs
    <3>2. th'[t].pc = pc
      BY <1>0, <2>2, <3>1, FindEffect
    <3> QED
      BY <1>2, <3>2
  <2>3. CASE LookupSession(t)
    <3>1. th[t].id \in Ids /\ th[t].op \in AllOps
      BY <1>0, <2>3 DEF LookupSession, HoldsWhatItNeeds, HandlerPcs
    <3>2. CASE /\ sessions[th[t].id] # NoObj /\ th[t].op # "CreateSession"
               /\ Take(t, FoundPc[th[t].op], sessions[th[t].id])
      <4>1. sessions[th[t].id] \in Objs
        BY <3>1, <3>2 DEF TypeInv, TypeOK
      <4>2. FoundPc[th[t].op] \in {"flag", "byid", "drop"}
        BY <3>1, <3>2 DEF FoundPc, AllOps, Creating
      <4> QED
        BY <2>2, <3>2, <4>1, <4>2
    <3> QED
      BY <1>1, <1>3, <1>4, <2>3, <3>2 DEF LookupSession, HandlerPcs
  <2>4. CASE CheckAbsent(t) \/ StoreSession(t) \/ OpenPuller(t)
    BY <1>1, <1>3, <1>4, <2>4 DEF CheckAbsent, StoreSession, OpenPuller, HandlerPcs
  <2>5. ASSUME NEW g \in Gens, NEW o \in Objs, Acquire(t, g, o) PROVE FALSE
    <3>1. th'[t].pc = "store"
      BY <1>0, <1>1, <2>5, AcquireEffect DEF Acquire, HandlerPcs
    <3> QED
      BY <1>2, <3>1
  <2>6. CASE PullerFails(t) \/ OpenPusher(t) \/ PusherFails(t) \/ SetFlag(t)
    BY <1>1, <1>3, <1>4, <2>6 DEF PullerFails, OpenPusher, PusherFails, SetFlag, HandlerPcs
  <2>7. CASE FindByID(t)
    <3> DEFINE o == Lookup(idOf[th[t].obj])
    <3>1. o \in Objs \cup {NoObj}
      BY DEF Lookup, TypeInv, TypeOK
    <3>2. IF o = NoObj THEN Finish(t) ELSE Take(t, "flag", o)
      BY <2>7 DEF FindByID
    <3> HIDE DEF o
    <3> QED
      BY <1>4, <2>2, <3>1, <3>2
  <2>8. CASE Drop(t)
    <3>1. th'[t].pc = "delete"
      BY <1>0, <1>1, <2>8, GotoEffect DEF Drop, TeardownPcs
    <3> QED
      BY <1>0, <1>2, <1>5, <3>1
  <2> QED
    BY <1>5, <2>1, <2>3, <2>4, <2>5, <2>6, <2>7, <2>8 DEF HandlerStep
<1>6. CASE CancelSession(t) \/ ResetFlags(t)
  <2>1. th[t].pc \in {"cancel", "reset"} /\ th[t].obj \in Objs
    BY <1>0, <1>6 DEF CancelSession, ResetFlags, HoldsWhatItNeeds, TeardownPcs
  <2>2. th'[t].obj = th[t].obj
    BY <1>0, <1>1, <1>6, GotoEffect DEF CancelSession, ResetFlags, TeardownPcs
  <2>3. Cancels(th[t].obj)
    BY <1>6 DEF CancelSession, ResetFlags, Cancelling, Cancels
  <2> QED
    BY <2>1, <2>2, <2>3
<1>7. CASE DeleteEntry(t) \/ ResetFields(t) \/ PutBack(t) \/ StopLoop(t)
  BY <1>1, <1>3, <1>4, <1>7 DEF DeleteEntry, ResetFields, PutBack, StopLoop, TeardownPcs
<1>8. CASE RangeStep(t)
  <2>1. ASSUME NEW id \in Ids, Skip(t, id) PROVE FALSE
    <3>1. th'[t].pc = "range"
      BY <1>0, <2>1, SkipEffect DEF Skip
    <3> QED
      BY <1>2, <3>1
  <2>2. ASSUME NEW id \in Ids, Visit(t, id) PROVE FALSE
    <3>1. sessions[id] \in Objs
      BY <2>2 DEF Visit, TypeInv, TypeOK
    <3>2. PICK pc \in {"claim", "cancel"} : TurnTo(t, pc, id)
      BY <2>2 DEF Visit
    <3>3. pc \in ThreadPcs
      BY <1>1 DEF RangePcs, TeardownPcs
    <3>4. th'[t].pc = pc
      BY <1>0, <3>1, <3>2, <3>3, TurnToEffect
    <3> QED
      BY <1>2, <3>4
  <2> QED
    BY <1>8, <2>1, <2>2 DEF RangeStep
<1>9. CASE t = Receiver /\ Receive
  <2> DEFINE k == Head(closeCh)
  <2>1. IF Lookup(k) = NoObj THEN UNCHANGED th ELSE TurnTo(t, "cancel", k)
    BY <1>9 DEF Receive
  <2>2. Lookup(k) # NoObj => k \in Ids /\ sessions[k] \in Objs
    BY DEF Lookup, TypeInv, TypeOK
  <2>3. "cancel" \in ThreadPcs
    BY <1>1 DEF TeardownPcs
  <2> HIDE DEF k
  <2>4. CASE Lookup(k) # NoObj
    <3>1. th'[t].pc = "cancel"
      BY <1>0, <2>1, <2>2, <2>3, <2>4, TurnToEffect
    <3> QED
      BY <1>2, <3>1
  <2> QED
    BY <2>1, <2>4
<1>10. CASE \/ t = Ticker /\ (Tick \/ Claim \/ EndTick)
            \/ t = Closer /\ (StartClose \/ EndClose)
  BY <1>1, <1>3, <1>4, <1>10 DEF Tick, Claim, EndTick, StartClose, EndClose, TeardownPcs
<1> QED
  BY <1>5, <1>6, <1>7, <1>8, <1>9, <1>10 DEF StepOf, TeardownStep

LEMMA TeardownsStep ==
  ASSUME TypeInv, [Next]_vars, NEW x \in Threads, NeedsCancelled(x)'
  PROVE  th'[x] = th[x] \/ (th'[x].obj \in Objs /\ Cancels(th'[x].obj))
<1>1. CASE UNCHANGED vars
  BY <1>1 DEF vars
<1>2. ASSUME NEW t \in Threads, StepOf(t)
      PROVE  th'[x] = th[x] \/ (th'[x].obj \in Objs /\ Cancels(th'[x].obj))
  BY <1>2, OthersStay, TeardownCancels DEF Alone
<1>3. ASSUME NEW g \in Gens, RunMoves(g) \/ RunReads(g) PROVE UNCHANGED th
  BY <1>3, RunsLeaveThreads
<1>4. ASSUME NEW o \in Objs, RecorderStep(o) PROVE UNCHANGED th
  BY <1>4, RecordersLeaveThreads
<1> QED
  BY <1>1, <1>2, <1>3, <1>4, WhoSteps

\* RemoveSession's Reset cancels the context of the session it removed.
LEMMA ResetCancels ==
  ASSUME TypeInv, [Next]_vars, NEW x \in Threads, th[x].pc = "reset"
  PROVE  th'[x] = th[x] \/ Cancels(th[x].obj)
<1>1. CASE UNCHANGED vars
  BY <1>1 DEF vars
<1>2. ASSUME NEW t \in Threads, StepOf(t) PROVE th'[x] = th[x] \/ Cancels(th[x].obj)
  <2>1. CASE t # x
    BY <1>2, <2>1, OthersStay DEF Alone
  <2>2. CASE t = x
    <3>1. ResetFlags(x)
      BY <1>2, <2>2
         DEF StepOf, Request, HandlerStep, LookupSession, CheckAbsent, Acquire, StoreSession,
             OpenPuller, PullerFails, OpenPusher, PusherFails, FindByID, SetFlag, Drop,
             TeardownStep, CancelSession, DeleteEntry, ResetFields, PutBack,
             StopLoop, RangeStep, Skip, Visit, Receive, Tick, Claim, EndTick, StartClose,
             EndClose
    <3> QED
      BY <3>1 DEF ResetFlags, Cancelling, Cancels
  <2> QED
    BY <2>1, <2>2
<1>3. ASSUME NEW g \in Gens, RunMoves(g) \/ RunReads(g) PROVE UNCHANGED th
  BY <1>3, RunsLeaveThreads
<1>4. ASSUME NEW o \in Objs, RecorderStep(o) PROVE UNCHANGED th
  BY <1>4, RecordersLeaveThreads
<1> QED
  BY <1>1, <1>2, <1>3, <1>4, WhoSteps

(***************************************************************************)
(* Which Runs can be found: the map                                        *)
(***************************************************************************)
ChangesEntry(t) == (t \in Callers /\ (StoreSession(t) \/ PullerFails(t))) \/ DeleteEntry(t)

LEMMA EntriesStay ==
  ASSUME [Next]_vars
  PROVE  UNCHANGED sessions \/ \E t \in Threads : ChangesEntry(t)
<1>1. CASE UNCHANGED vars
  BY <1>1 DEF vars
<1>2. ASSUME NEW t \in Threads, StepOf(t) PROVE UNCHANGED sessions \/ ChangesEntry(t)
  <2>1. CASE t \in Callers /\ ((\E op \in Ops, id \in Ids : Request(t, op, id)) \/ HandlerStep(t))
    BY <2>1
       DEF ChangesEntry, Request, HandlerStep, LookupSession, CheckAbsent, Acquire,
           OpenPuller, OpenPusher, PusherFails, FindByID, SetFlag, Drop
  <2>2. CASE TeardownStep(t) \/ StopLoop(t) \/ RangeStep(t)
    BY <2>2 DEF ChangesEntry, TeardownStep, CancelSession, ResetFlags, ResetFields, PutBack,
                StopLoop, RangeStep, Skip, Visit
  <2>3. CASE Receive \/ Tick \/ Claim \/ EndTick \/ StartClose \/ EndClose
    BY <2>3 DEF Receive, Tick, Claim, EndTick, StartClose, EndClose
  <2> QED
    BY <1>2, <2>1, <2>2, <2>3 DEF StepOf
<1>3. ASSUME NEW g \in Gens, RunMoves(g) \/ RunReads(g) PROVE UNCHANGED sessions
  BY <1>3, RunsLeaveThreads
<1>4. ASSUME NEW o \in Objs, RecorderStep(o) PROVE UNCHANGED sessions
  BY <1>4, RecordersLeaveThreads
<1> QED
  BY <1>1, <1>2, <1>3, <1>4, WhoSteps

\* The goroutine that changes an entry, and where that leaves it.
LEMMA ChangesEntryEffect ==
  ASSUME TypeInv, NEW t \in Threads, ChangesEntry(t)
  PROVE  /\ Alone(t) /\ th'[t] # th[t]
         /\ th[t].id \in Ids /\ th[t].obj \in Objs
         /\ \A k \in Ids \ {th[t].id} : sessions'[k] = sessions[k]
         /\ \/ /\ th[t].pc = "store" /\ sessions'[th[t].id] = th[t].obj
            \/ /\ th[t].pc = "pull" /\ th'[t].pc = "idle" /\ run' = PullerKilled(th[t].obj)
            \/ /\ th[t].pc = "delete"
               /\ t \notin Managers =>
                    th'[t].pc = "reset" /\ th'[t].id = th[t].id /\ th'[t].obj = th[t].obj
<1>0. /\ th \in [Threads -> ThreadState] /\ sessions \in [Ids -> Objs \cup {NoObj}]
      /\ {"pull", "put", "reset"} \subseteq ThreadPcs
  BY DEF TypeInv, TypeOK, ThreadPcs, HandlerPcs, TeardownPcs
<1>1. th[t].pc \in {"store", "pull", "delete"}
  BY DEF ChangesEntry, StoreSession, PullerFails, DeleteEntry
<1>2. th[t].id \in Ids /\ th[t].obj \in Objs
  BY <1>1 DEF TypeInv, Holding, HoldsWhatItNeeds, HandlerPcs, TeardownPcs
<1>3. \A k \in Ids \ {th[t].id} : sessions'[k] = sessions[k]
  BY <1>0 DEF ChangesEntry, StoreSession, PullerFails, DeleteEntry
<1>4. Alone(t)
  BY OthersStay DEF ChangesEntry, StepOf, HandlerStep, TeardownStep
<1>5. CASE t \in Callers /\ StoreSession(t)
  <2>1. th[t].pc = "store" /\ sessions'[th[t].id] = th[t].obj
    BY <1>0, <1>2, <1>5 DEF StoreSession
  <2>2. th'[t].pc = "pull"
    BY <1>0, <1>5, GotoEffect DEF StoreSession
  <2> QED
    BY <1>2, <1>3, <1>4, <2>1, <2>2
<1>6. CASE t \in Callers /\ PullerFails(t)
  <2>1. th[t].pc = "pull" /\ run' = PullerKilled(th[t].obj)
    BY <1>6 DEF PullerFails
  <2>2. th'[t].pc = "idle"
    BY <1>0, <1>6, FinishEffect DEF PullerFails
  <2> QED
    BY <1>2, <1>3, <1>4, <2>1, <2>2
<1>7. CASE DeleteEntry(t)
  <2>1. th[t].pc = "delete"
    BY <1>7 DEF DeleteEntry
  <2>2. /\ th'[t].pc = (IF t = Ticker THEN "put" ELSE "reset")
        /\ th'[t].id = th[t].id /\ th'[t].obj = th[t].obj
    BY <1>0, <1>7, GotoEffect DEF DeleteEntry
  <2> QED
    BY <1>2, <1>3, <1>4, <2>1, <2>2 DEF Managers
<1> QED
  BY <1>5, <1>6, <1>7 DEF ChangesEntry

\* What serves a session in the making is its maker.
LEMMA MakerServes ==
  ASSUME OneMaker, NEW c \in Threads, th[c].pc \in Making,
         NEW g \in Gens, NEW id \in Ids, Serves(g, th[c].obj, id)
  PROVE  th[c].gen = g /\ th[c].id = id
  BY DEF OneMaker, Serves, Making

(***************************************************************************)
(* The inductive invariant                                                 *)
(***************************************************************************)
LEMMA HistoryInvInit == HistoryInit => HistoryInv
<1> SUFFICES ASSUME HistoryInit PROVE HistoryInv
  OBVIOUS
<1>1. /\ \A t \in Threads : th[t].pc = "idle"
      /\ \A g \in Gens : run[g].pc = "none"
  BY DEF HistoryInit, Init, Resting
<1>2. \A g \in Gens, o \in Objs, id \in Ids : ~Serves(g, o, id)
  BY <1>1 DEF Serves, LivePcs
<1>3. OwnContextKept /\ CancelledBefore /\ Found
  BY <1>1, <1>2 DEF OwnContextKept, CancelledBefore, Found
<1>4. RunAtHome
  BY <1>1 DEF RunAtHome, LivePcs
<1> QED
  BY <1>3, <1>4 DEF HistoryInv, HistoryInit

LEMMA OwnContextStep ==
  ASSUME Recycle = FALSE, TypeInv, Sound, HistoryInv, [Next]_vars
  PROVE  OwnContextKept'
<1> SUFFICES ASSUME NEW g \in Gens, NEW o \in Objs, NEW id \in Ids,
                    Serves(g, o, id)', g \notin cancelled'
             PROVE  ctxOf'[o] = g
  BY DEF OwnContextKept
<1>1. Serves(g, o, id) \/ Fresh(g, o)
  BY ServersStep DEF ServersStay
<1>2. g \notin cancelled
  BY CancelledGrows
<1>3. CASE Serves(g, o, id)
  <2>1. ctxOf[o] = g
    BY <1>2, <1>3 DEF HistoryInv, OwnContextKept
  <2>2. ~\E t \in Threads : th[t].pc = "clear" /\ th[t].obj = o
    BY <1>2, <1>3 DEF HistoryInv, CancelledBefore
  <2>3. ~((\A x \in Threads : th[x].obj # o) /\ (\A h \in Gens : run[h].obj # o))
    BY <1>3 DEF Serves
  <2> QED
    BY <2>1, <2>2, <2>3, ContextsStay
<1> QED
  BY <1>1, <1>3 DEF Fresh

LEMMA CancelledStep ==
  ASSUME Recycle = FALSE, TypeInv, Sound, HistoryInv, [Next]_vars
  PROVE  CancelledBefore'
<1> SUFFICES ASSUME NEW t \in Threads, NeedsCancelled(t)', NEW g \in Gens, NEW id \in Ids,
                    Serves(g, th[t].obj, id)', g \notin cancelled'
             PROVE  FALSE
  BY DEF CancelledBefore, NeedsCancelled
<1>1. g \notin cancelled /\ th'[t].obj \in Objs
  <2>1. TypeInv'
    BY TypeStep
  <2>2. th'[t].pc \in TeardownPcs
    BY DEF NeedsCancelled, TeardownPcs
  <2> QED
    BY <2>1, <2>2, CancelledGrows DEF TypeInv, Holding, HoldsWhatItNeeds
<1> PICK o \in Objs : o = th'[t].obj
  BY <1>1
<1>2. Serves(g, o, id)' /\ (Serves(g, o, id) \/ Fresh(g, o))
  BY ServersStep DEF ServersStay
<1>3. CASE th'[t] = th[t]
  BY <1>1, <1>2, <1>3 DEF HistoryInv, CancelledBefore, NeedsCancelled, Fresh
<1>4. CASE Cancels(o) /\ Serves(g, o, id)
  BY <1>1, <1>4 DEF HistoryInv, OwnContextKept, Cancels
<1>5. CASE Fresh(g, o) /\ th'[t] # th[t]
  <2>1. \A x \in Threads : th[x].obj # o
    BY <1>5 DEF Fresh
  <2>2. PICK c \in Threads : th'[c].pc = "store" /\ th'[c].obj = o
    BY <1>5 DEF Fresh
  <2>3. c # t
    BY <2>2 DEF NeedsCancelled
  <2>4. \A x \in Threads \ {c} : th'[x].obj # o
    <3>1. Sound'
      BY SoundStep
    <3> QED
      BY <2>2, <3>1 DEF Sound, CreatorAlone
  <2> QED
    BY <2>3, <2>4
<1> QED
  BY <1>2, <1>3, <1>4, <1>5, TeardownsStep

LEMMA AtHomeStep ==
  ASSUME Recycle = FALSE, TypeInv, Sound, RunAtHome, [Next]_vars
  PROVE  RunAtHome'
<1>1. CASE RunsStay
  BY <1>1 DEF RunsStay, RunAtHome
<1>2. CASE UNCHANGED vars
  BY <1>1, <1>2, SameRunsStay DEF vars
<1>3. ASSUME NEW t \in Threads, StepOf(t) PROVE RunAtHome'
  <2>1. CASE ~Starting(t)
    BY <1>1, <1>3, <2>1, QuietSteps
  <2>2. ASSUME NEW c \in Callers, NEW g \in Gens, NEW o \in Objs, Acquire(c, g, o)
        PROVE  RunAtHome'
    <3>1. run'[g].pc = "held" /\ \A h \in Gens \ {g} : run'[h] = run[h]
      <4>1. ~wired[o]
        BY <2>2 DEF Acquire
      <4> QED
        BY <2>2, <4>1, AcquireFresh
    <3> QED
      BY <3>1 DEF RunAtHome, LivePcs
  <2>3. ASSUME NEW c \in Callers, OpenPusher(c) PROVE RunAtHome'
    <3>1. /\ th[c].id \in Ids /\ run'[th[c].gen].home = th[c].id
          /\ \A h \in Gens \ {th[c].gen} : run'[h] = run[h]
      BY <2>3, OpenPusherHandsOver
    <3> QED
      BY <3>1 DEF RunAtHome
  <2> QED
    BY <2>1, <2>2, <2>3 DEF Starting
<1>4. ASSUME NEW g \in Gens, RunMoves(g) \/ RunReads(g) PROVE RunAtHome'
  BY <1>1, <1>4, RunStepsStay
<1>5. ASSUME NEW o \in Objs, RecorderStep(o) PROVE RunAtHome'
  BY <1>1, <1>5, RecorderStepsStay
<1> QED
  BY <1>2, <1>3, <1>4, <1>5, WhoSteps

\* An entry is overwritten or deleted for its own session alone, unless the
\* step races.
LEMMA FoundStep ==
  ASSUME Recycle = FALSE, TypeInv, Sound, OneMaker, HistoryInv, Found, [Next]_vars,
         \A t \in Threads : ~TakesOver(t)
  PROVE  Found'
<1> SUFFICES ASSUME NEW g \in Gens, NEW o \in Objs, NEW id \in Ids,
                    Serves(g, o, id)', g \notin cancelled',
                    ~(\E c \in Threads : th'[c].pc = "store" /\ th'[c].obj = o)
             PROVE  sessions'[id] = o \/ Removed(o, id)'
  BY DEF Found
<1>1. g \notin cancelled /\ Serves(g, o, id) /\ ctxOf[o] = g
  <2>1. g \notin cancelled
    BY CancelledGrows
  <2>2. Serves(g, o, id)
    BY ServersStep DEF ServersStay, Fresh
  <2> QED
    BY <2>1, <2>2 DEF HistoryInv, OwnContextKept
<1>2. ASSUME NEW t \in Threads, ChangesEntry(t) PROVE th[t].obj = o => sessions'[id] = o \/ Removed(o, id)' \/ th[t].pc = "delete"
  <2> SUFFICES ASSUME th[t].obj = o, th[t].pc # "delete" PROVE sessions'[id] = o
    OBVIOUS
  <2>1. CASE th[t].pc = "store"
    BY <1>1, <1>2, <2>1, MakerServes, ChangesEntryEffect DEF Making
  <2>2. CASE th[t].pc = "pull" /\ th'[t].pc = "idle" /\ run' = PullerKilled(o) /\ Alone(t)
    <3>1. \A h \in Gens : run'[h].obj # o
      BY <2>2, PullerKilledEffect DEF OneMaker, TypeInv, TypeOK
    <3>2. \A d \in Threads : th'[d].pc \in Making => th'[d].obj # o
      BY <2>2 DEF OneMaker, Making, Alone
    <3> QED
      BY <3>1, <3>2 DEF Serves, Making
  <2> QED
    BY <1>2, <2>1, <2>2, ChangesEntryEffect
<1>3. CASE sessions[id] = o
  <2>1. CASE sessions'[id] = sessions[id]
    BY <1>3, <2>1
  <2>2. CASE sessions'[id] # sessions[id]
    <3>1. PICK t \in Threads : ChangesEntry(t)
      BY <2>2, EntriesStay
    <3>2. /\ th'[t] # th[t] /\ th[t].id = id
          /\ th[t].pc \in {"store", "pull", "delete"}
          /\ th[t].pc = "delete" /\ t \notin Managers =>
               th'[t].pc = "reset" /\ th'[t].id = th[t].id /\ th'[t].obj = th[t].obj
      BY <2>2, <3>1, ChangesEntryEffect
    <3>3. th[t].obj = o
      BY <1>3, <2>2, <3>2, ConstantsAssumption DEF TakesOver
    <3>4. CASE th[t].pc = "delete"
      <4>1. t \notin Managers
        BY <1>1, <3>3, <3>4 DEF HistoryInv, CancelledBefore
      <4> QED
        BY <3>2, <3>3, <3>4, <4>1 DEF Removed
    <3> QED
      BY <1>2, <3>1, <3>3, <3>4
  <2> QED
    BY <2>1, <2>2
<1>4. CASE Removed(o, id)
  <2>1. PICK t \in Threads : th[t].pc = "reset" /\ th[t].id = id /\ th[t].obj = o
    BY <1>4 DEF Removed
  <2>2. ~Cancels(o)
    BY <1>1 DEF Cancels
  <2>3. th'[t] = th[t]
    BY <2>1, <2>2, ResetCancels
  <2> QED
    BY <2>1, <2>3 DEF Removed
<1>5. CASE \E c \in Threads : th[c].pc = "store" /\ th[c].obj = o
  <2>1. PICK c \in Threads : th[c].pc = "store" /\ th[c].obj = o
    BY <1>5
  <2>2. th'[c] # th[c]
    BY <2>1
  <2>3. c \in Callers /\ StoreSession(c)
    <3>1. ~UNCHANGED th
      BY <2>2
    <3>2. PICK t \in Threads : StepOf(t)
      BY <3>1, WhoSteps, RunsLeaveThreads, RecordersLeaveThreads DEF vars
    <3>3. t = c
      BY <2>2, <3>2, OthersStay DEF Alone
    <3> QED
      BY <2>1, <3>2, <3>3
         DEF StepOf, Request, HandlerStep, LookupSession, CheckAbsent, Acquire, OpenPuller,
             PullerFails, OpenPusher, PusherFails, FindByID, SetFlag, Drop,
             TeardownStep, CancelSession, DeleteEntry, ResetFlags, ResetFields, PutBack,
             StopLoop, RangeStep, Skip, Visit, Receive, Tick, Claim, EndTick, StartClose,
             EndClose
  <2> QED
    BY <1>2, <2>1, <2>3, ChangesEntryEffect DEF ChangesEntry
<1> QED
  BY <1>1, <1>3, <1>4, <1>5 DEF HistoryInv, Found

LEMMA HistoryInvStep ==
  ASSUME Recycle = FALSE, TypeInv, Sound, OneMaker, HistoryInv, [HistoryNext]_historyVars
  PROVE  HistoryInv'
<1>1. [Next]_vars
  BY DEF HistoryNext, historyVars
<1>2. OwnContextKept' /\ CancelledBefore' /\ RunAtHome'
  BY <1>1, OwnContextStep, CancelledStep, AtHomeStep DEF HistoryInv
<1>3. ASSUME ~raced' PROVE Found'
  <2>1. ~raced /\ Found
    BY <1>3 DEF HistoryNext, historyVars, HistoryInv, TakesOver
  <2>2. \A t \in Threads : ~TakesOver(t)
    BY <1>3 DEF HistoryNext, historyVars, vars, TakesOver
  <2> QED
    BY <1>1, <2>1, <2>2, FoundStep
<1>4. raced' \in BOOLEAN
  BY DEF HistoryNext, historyVars, HistoryInv
<1> QED
  BY <1>2, <1>3, <1>4 DEF HistoryInv

\* While every Get returns a new object, a Run that nobody has stopped can be
\* found by its id (or is in the hands of RemoveSession, which will stop it),
\* however creations, removals, ticks, notices and a shutdown overlap, unless
\* a goroutine at work on another session has overwritten or deleted its entry
\* (Store and Delete by id in CreateSession and in each teardown).
THEOREM OnlyTakeoversHideRuns ==
  ASSUME Recycle = FALSE
  PROVE  HistorySpec => []OnlyRacesHideRuns
<1>1. HistoryInit => TypeInv /\ Sound /\ OneMaker /\ HistoryInv
  <2>1. Init => OneMaker
    BY DEF Init, Resting, OneMaker
  <2> QED
    BY <2>1, TypeInit, SoundInit, HistoryInvInit DEF HistoryInit
<1>2. TypeInv /\ Sound /\ OneMaker /\ HistoryInv /\ [HistoryNext]_historyVars =>
        (TypeInv /\ Sound /\ OneMaker /\ HistoryInv)'
  <2>1. [HistoryNext]_historyVars => [Next]_vars
    BY DEF HistoryNext, historyVars
  <2> QED
    BY <2>1, TypeStep, SoundStep, OneMakerStep, HistoryInvStep
<1>3. TypeInv /\ Sound /\ HistoryInv => OnlyRacesHideRuns
  <2> SUFFICES ASSUME TypeInv, Sound, HistoryInv, ~raced,
                      NEW g \in Gens, run[g].pc \in LivePcs, g \notin cancelled
               PROVE  \/ sessions[run[g].home] = run[g].obj
                      \/ \E t \in Threads : /\ th[t].pc = "reset" /\ th[t].id = run[g].home
                                           /\ th[t].obj = run[g].obj
    BY DEF OnlyRacesHideRuns, LiveRunIsFound
  <2>1. run[g].obj \in Objs /\ run[g].home \in Ids
    BY DEF TypeInv, Holding, HistoryInv, RunAtHome, LivePcs
  <2>2. Serves(g, run[g].obj, run[g].home)
    BY DEF Serves
  <2>3. ~\E c \in Threads : th[c].pc = "store" /\ th[c].obj = run[g].obj
    BY DEF Sound, CreatorAlone
  <2> QED
    BY <2>1, <2>2, <2>3 DEF HistoryInv, Found, Removed
<1> QED
  BY <1>1, <1>2, <1>3, PTL DEF HistorySpec
=============================================================================
