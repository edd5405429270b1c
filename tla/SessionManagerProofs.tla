------------------------ MODULE SessionManagerProofs ------------------------
(***************************************************************************)
(* Proofs about SessionManager, for every value of its constants.          *)
(***************************************************************************)
EXTENDS SessionManager, SequenceTheorems, TLAPS

(***************************************************************************)
(* What the helpers that write th and run do                               *)
(***************************************************************************)
ThreadPcs == {"idle", "stopped"} \cup HandlerPcs \cup RangePcs \cup TeardownPcs

LEMMA GotoEffect ==
  ASSUME th \in [Threads -> ThreadState], NEW t \in Threads, NEW pc \in ThreadPcs,
         Goto(t, pc)
  PROVE  /\ th' \in [Threads -> ThreadState]
         /\ \A x \in Threads \ {t} : th'[x] = th[x]
         /\ th'[t].pc = pc /\ th'[t].op = th[t].op /\ th'[t].id = th[t].id
         /\ th'[t].obj = th[t].obj /\ th'[t].gen = th[t].gen
  BY DEF Goto, ThreadState, ThreadPcs

LEMMA FinishEffect ==
  ASSUME th \in [Threads -> ThreadState], NEW t \in Threads, Finish(t)
  PROVE  /\ th' \in [Threads -> ThreadState]
         /\ \A x \in Threads \ {t} : th'[x] = th[x]
         /\ th'[t].pc = "idle" /\ th'[t].id = NoId /\ th'[t].obj = NoObj
         /\ th'[t].gen = NoGen
  BY DEF Finish, Resting, ThreadState

LEMMA RunGotoEffect ==
  ASSUME run \in [Gens -> RunState], NEW g \in Gens, NEW pc \in RunPcs, RunGoto(g, pc)
  PROVE  /\ run' \in [Gens -> RunState]
         /\ \A h \in Gens \ {g} : run'[h] = run[h]
         /\ run'[g].pc = pc /\ run'[g].obj = run[g].obj /\ run'[g].msg = run[g].msg
         /\ run'[g].home = run[g].home
  BY DEF RunGoto, RunState

LEMMA PullerKilledEffect ==
  ASSUME run \in [Gens -> RunState], NEW o \in Objs
  PROVE  /\ PullerKilled(o) \in [Gens -> RunState]
         /\ \A g \in Gens :
              /\ PullerKilled(o)[g].obj = run[g].obj
              /\ PullerKilled(o)[g].home = run[g].home
              /\ PullerKilled(o)[g].msg = run[g].msg
              /\ \/ PullerKilled(o)[g].pc = run[g].pc
                 \/ run[g].pc = "read" /\ PullerKilled(o)[g].pc = "eof"
<1>1. ASSUME NEW r \in RunState PROVE [r EXCEPT !.pc = "eof"] \in RunState
  BY DEF RunState, RunPcs
<1>2. PullerKilled(o) \in [Gens -> RunState]
  BY <1>1 DEF PullerKilled
<1>3. ASSUME NEW g \in Gens
      PROVE  \/ PullerKilled(o)[g] = run[g]
             \/ run[g].pc = "read" /\ PullerKilled(o)[g] = [run[g] EXCEPT !.pc = "eof"]
  BY DEF PullerKilled
<1> QED
  BY <1>2, <1>3 DEF RunState

\* A step of a handler or a manager goroutine that finds a session.
LEMMA FindEffect ==
  ASSUME th \in [Threads -> ThreadState], NEW t \in Threads, NEW pc \in ThreadPcs,
         NEW o \in Objs, Take(t, pc, o)
  PROVE  /\ th' \in [Threads -> ThreadState]
         /\ \A x \in Threads \ {t} : th'[x] = th[x]
         /\ th'[t].pc = pc /\ th'[t].op = th[t].op /\ th'[t].id = th[t].id
         /\ th'[t].obj = o /\ th'[t].gen = th[t].gen
  BY DEF Take, ThreadState, ThreadPcs

LEMMA AcquireEffect ==
  ASSUME th \in [Threads -> ThreadState], NEW c \in Threads, NEW o \in Objs,
         NEW g \in Gens, NEW pc \in ThreadPcs,
         TakeNew(c, pc, o, g)
  PROVE  /\ th' \in [Threads -> ThreadState]
         /\ \A x \in Threads \ {c} : th'[x] = th[x]
         /\ th'[c].pc = pc /\ th'[c].op = th[c].op /\ th'[c].id = th[c].id
         /\ th'[c].obj = o /\ th'[c].gen = g
<1> DEFINE r == [th[c] EXCEPT !.pc = pc, !.obj = o, !.gen = g]
<1>1. th[c] \in ThreadState
  OBVIOUS
<1>2. /\ r \in ThreadState
      /\ r.pc = pc /\ r.op = th[c].op /\ r.id = th[c].id /\ r.obj = o /\ r.gen = g
  BY <1>1 DEF ThreadState, ThreadPcs
<1>3. th' = [th EXCEPT ![c] = r]
  BY DEF TakeNew
<1> HIDE DEF r
<1> QED
  BY <1>2, <1>3

LEMMA TurnToEffect ==
  ASSUME th \in [Threads -> ThreadState], NEW t \in Threads, NEW pc \in ThreadPcs,
         NEW id \in Ids, sessions[id] \in Objs, TurnTo(t, pc, id)
  PROVE  /\ th' \in [Threads -> ThreadState]
         /\ \A x \in Threads \ {t} : th'[x] = th[x]
         /\ th'[t].pc = pc /\ th'[t].id = id /\ th'[t].obj = sessions[id]
<1> DEFINE r == [th[t] EXCEPT !.pc = pc, !.id = id, !.obj = sessions[id],
                              !.todo = th[t].todo \ {id}]
<1>1. th[t] \in ThreadState
  OBVIOUS
<1>2. r \in ThreadState /\ r.pc = pc /\ r.id = id /\ r.obj = sessions[id]
  BY <1>1 DEF ThreadState, ThreadPcs
<1>3. th' = [th EXCEPT ![t] = r]
  BY DEF TurnTo
<1> HIDE DEF r
<1> QED
  BY <1>2, <1>3

LEMMA RangeOnEffect ==
  ASSUME th \in [Threads -> ThreadState], NEW t \in Threads, RangeOn(t)
  PROVE  /\ th' \in [Threads -> ThreadState]
         /\ \A x \in Threads \ {t} : th'[x] = th[x]
         /\ th'[t].pc = "range" /\ th'[t].id = NoId /\ th'[t].obj = NoObj
<1> DEFINE r == [th[t] EXCEPT !.pc = "range", !.id = NoId, !.obj = NoObj]
<1>1. th[t] \in ThreadState
  OBVIOUS
<1>2. r \in ThreadState /\ r.pc = "range" /\ r.id = NoId /\ r.obj = NoObj
  <2>1. "range" \in ThreadPcs
    BY DEF ThreadPcs, RangePcs
  <2> QED
    BY <1>1, <2>1 DEF ThreadState, ThreadPcs
<1>3. th' = [th EXCEPT ![t] = r]
  BY DEF RangeOn
<1> HIDE DEF r
<1> QED
  BY <1>2, <1>3

LEMMA StartRangeEffect ==
  ASSUME th \in [Threads -> ThreadState], NEW t \in Threads, StartRange(t)
  PROVE  /\ th' \in [Threads -> ThreadState]
         /\ \A x \in Threads \ {t} : th'[x] = th[x]
         /\ th'[t].pc = "range" /\ th'[t].obj = th[t].obj
<1> DEFINE r == [th[t] EXCEPT !.pc = "range", !.todo = Ids]
<1>1. th[t] \in ThreadState
  OBVIOUS
<1>2. r \in ThreadState /\ r.pc = "range" /\ r.obj = th[t].obj
  BY <1>1 DEF ThreadState, RangePcs
<1>3. th' = [th EXCEPT ![t] = r]
  BY DEF StartRange
<1> HIDE DEF r
<1> QED
  BY <1>2, <1>3

LEMMA SkipEffect ==
  ASSUME th \in [Threads -> ThreadState], NEW t \in Threads, NEW id \in Ids,
         th' = [th EXCEPT ![t].todo = @ \ {id}]
  PROVE  /\ th' \in [Threads -> ThreadState]
         /\ \A x \in Threads \ {t} : th'[x] = th[x]
         /\ th'[t].pc = th[t].pc /\ th'[t].obj = th[t].obj
  BY DEF ThreadState

LEMMA RunNameEffect ==
  ASSUME run \in [Gens -> RunState], NEW g \in Gens, NEW k \in Ids \cup {NoId},
         run' = [run EXCEPT ![g].pc = "send", ![g].msg = k]
  PROVE  /\ run' \in [Gens -> RunState]
         /\ \A h \in Gens \ {g} : run'[h] = run[h]
         /\ run'[g].pc = "send" /\ run'[g].obj = run[g].obj /\ run'[g].msg = k
         /\ run'[g].home = run[g].home
<1> DEFINE r == [run[g] EXCEPT !.pc = "send", !.msg = k]
<1>1. run[g] \in RunState /\ "send" \in RunPcs
  BY DEF RunPcs
<1>2. r \in RunState /\ r.pc = "send" /\ r.obj = run[g].obj /\ r.msg = k
      /\ r.home = run[g].home
  BY <1>1 DEF RunState
<1>3. run' = [run EXCEPT ![g] = r]
  OBVIOUS
<1> HIDE DEF r
<1> QED
  BY <1>2, <1>3

(***************************************************************************)
(* Types, with what a goroutine holds at each point of its code            *)
(***************************************************************************)
TypeInv == TypeOK /\ Holding

LEMMA TypeInit == Init => TypeInv
  BY ConstantsAssumption, SMT
  DEF Init, TypeInv, TypeOK, Holding, HoldsWhatItNeeds, RunState, RunPcs, ThreadState, Resting,
      Threads, HandlerPcs, RangePcs, TeardownPcs, AllOps, Creating

\* th changes at t only, and t then holds what it needs.
LEMMA ThreadStepHolds ==
  ASSUME Holding, NEW t \in Threads,
         \A x \in Threads \ {t} : th'[x] = th[x],
         HoldsWhatItNeeds(t)',
         \A g \in Gens : run'[g].pc \notin {"none", "held"} => run'[g].obj \in Objs
  PROVE  Holding'
  BY DEF Holding, HoldsWhatItNeeds

\* A goroutine goes on holding what it holds.
LEMMA GotoHolds ==
  ASSUME TypeInv, NEW t \in Threads, NEW pc \in ThreadPcs, Goto(t, pc),
         pc \in HandlerPcs => th[t].pc \in HandlerPcs,
         pc \in {"claim"} \cup TeardownPcs =>
           th[t].pc \in {"drop", "claim"} \cup TeardownPcs,
         pc \in {"store", "pull", "push", "byid", "flag", "drop"} =>
           th[t].pc \in {"store", "pull", "push"},
         \A g \in Gens : run'[g].pc \notin {"none", "held"} => run'[g].obj \in Objs
  PROVE  Holding'
<1>1. /\ \A x \in Threads \ {t} : th'[x] = th[x]
      /\ th'[t].pc = pc /\ th'[t].op = th[t].op /\ th'[t].id = th[t].id
      /\ th'[t].obj = th[t].obj /\ th'[t].gen = th[t].gen
  BY GotoEffect DEF TypeInv, TypeOK
<1>2. HoldsWhatItNeeds(t)
  BY DEF TypeInv, Holding
<1>3. HoldsWhatItNeeds(t)'
  BY <1>1, <1>2 DEF HoldsWhatItNeeds, HandlerPcs, TeardownPcs
<1> QED
  BY <1>1, <1>3, ThreadStepHolds DEF TypeInv

LEMMA FinishHolds ==
  ASSUME TypeInv, NEW t \in Threads, Finish(t),
         \A g \in Gens : run'[g].pc \notin {"none", "held"} => run'[g].obj \in Objs
  PROVE  Holding'
<1>1. /\ \A x \in Threads \ {t} : th'[x] = th[x]
      /\ th'[t].pc = "idle"
  BY FinishEffect DEF TypeInv, TypeOK
<1>2. HoldsWhatItNeeds(t)'
  BY <1>1 DEF HoldsWhatItNeeds, HandlerPcs, TeardownPcs
<1> QED
  BY <1>1, <1>2, ThreadStepHolds DEF TypeInv

\* Killing a puller moves a Run, and leaves it its object.
LEMMA KilledHolds ==
  ASSUME TypeInv, NEW o \in Objs, run' = PullerKilled(o)
  PROVE  /\ run' \in [Gens -> RunState]
         /\ \A g \in Gens : run'[g].pc \notin {"none", "held"} => run'[g].obj \in Objs
<1>1. /\ PullerKilled(o) \in [Gens -> RunState]
      /\ \A g \in Gens :
           /\ PullerKilled(o)[g].obj = run[g].obj
           /\ \/ PullerKilled(o)[g].pc = run[g].pc
              \/ run[g].pc = "read" /\ PullerKilled(o)[g].pc = "eof"
  BY PullerKilledEffect DEF TypeInv, TypeOK
<1> QED
  BY <1>1 DEF TypeInv, Holding

\* A goroutine that found a session.
LEMMA FindHolds ==
  ASSUME TypeInv, NEW t \in Threads, NEW o \in Objs,
         NEW pc \in {"flag", "byid", "drop"},
         th[t].pc \in HandlerPcs,
         Take(t, pc, o), run' = run
  PROVE  th' \in [Threads -> ThreadState] /\ Holding'
<1>0. pc \in ThreadPcs /\ th \in [Threads -> ThreadState]
  BY DEF ThreadPcs, HandlerPcs, TypeInv, TypeOK
<1>1. /\ th' \in [Threads -> ThreadState]
      /\ \A x \in Threads \ {t} : th'[x] = th[x]
      /\ th'[t].pc = pc /\ th'[t].op = th[t].op /\ th'[t].id = th[t].id
      /\ th'[t].obj = o
  BY <1>0, FindEffect
<1>2. HoldsWhatItNeeds(t)
  BY DEF TypeInv, Holding
<1>3. HoldsWhatItNeeds(t)'
  BY <1>1, <1>2 DEF HoldsWhatItNeeds, HandlerPcs, TeardownPcs
<1> QED
  BY <1>1, <1>3, ThreadStepHolds DEF TypeInv, Holding

LEMMA TurnToHolds ==
  ASSUME TypeInv, NEW t \in Threads, NEW pc \in {"claim", "cancel"}, NEW id \in Ids,
         sessions[id] \in Objs, TurnTo(t, pc, id), run' = run
  PROVE  th' \in [Threads -> ThreadState] /\ Holding'
<1>0. pc \in ThreadPcs /\ th \in [Threads -> ThreadState]
  BY DEF ThreadPcs, RangePcs, TeardownPcs, TypeInv, TypeOK
<1>1. /\ th' \in [Threads -> ThreadState]
      /\ \A x \in Threads \ {t} : th'[x] = th[x]
      /\ th'[t].pc = pc /\ th'[t].id = id /\ th'[t].obj = sessions[id]
  BY <1>0, TurnToEffect
<1>2. HoldsWhatItNeeds(t)'
  BY <1>1 DEF HoldsWhatItNeeds, HandlerPcs, TeardownPcs
<1> QED
  BY <1>1, <1>2, ThreadStepHolds DEF TypeInv, Holding

\* A Range goes on, or begins.
LEMMA RangeOnHolds ==
  ASSUME TypeInv, NEW t \in Threads, RangeOn(t), run' = run
  PROVE  th' \in [Threads -> ThreadState] /\ Holding'
<1>1. /\ th' \in [Threads -> ThreadState]
      /\ \A x \in Threads \ {t} : th'[x] = th[x]
      /\ th'[t].pc = "range"
  BY RangeOnEffect DEF TypeInv, TypeOK
<1>2. HoldsWhatItNeeds(t)'
  BY <1>1 DEF HoldsWhatItNeeds, HandlerPcs, TeardownPcs
<1> QED
  BY <1>1, <1>2, ThreadStepHolds DEF TypeInv, Holding

LEMMA StartRangeHolds ==
  ASSUME TypeInv, NEW t \in Threads, StartRange(t), run' = run
  PROVE  th' \in [Threads -> ThreadState] /\ Holding'
<1>1. /\ th' \in [Threads -> ThreadState]
      /\ \A x \in Threads \ {t} : th'[x] = th[x]
      /\ th'[t].pc = "range"
  BY StartRangeEffect DEF TypeInv, TypeOK
<1>2. HoldsWhatItNeeds(t)'
  BY <1>1 DEF HoldsWhatItNeeds, HandlerPcs, TeardownPcs
<1> QED
  BY <1>1, <1>2, ThreadStepHolds DEF TypeInv, Holding

LEMMA HandlerTypes ==
  ASSUME TypeInv, NEW c \in Callers,
         \/ \E op \in Ops, id \in Ids : Request(c, op, id)
         \/ HandlerStep(c)
  PROVE  TypeInv'
<1>0. c \in Threads
  BY DEF Threads
<1> USE <1>0 DEF TypeInv
<1>1. ASSUME NEW op \in Ops, NEW id \in Ids, Request(c, op, id) PROVE TypeInv'
  <2>1. /\ th' \in [Threads -> ThreadState]
        /\ \A x \in Threads \ {c} : th'[x] = th[x]
        /\ th'[c].pc = "lookup" /\ th'[c].op = op /\ th'[c].id = id
    BY <1>1, ConstantsAssumption DEF Request, TypeOK, ThreadState, Resting, HandlerPcs
  <2>2. TypeOK'
    BY <1>1, <2>1 DEF Request, TypeOK, fields, identity, flags, media
  <2>3. HoldsWhatItNeeds(c)'
    BY <2>1, ConstantsAssumption DEF HoldsWhatItNeeds, HandlerPcs, TeardownPcs
  <2>4. Holding'
    BY <1>1, <2>1, <2>3, ThreadStepHolds DEF Request, Holding
  <2> QED
    BY <2>2, <2>4
<1>2. CASE LookupSession(c)
  <2>1. th[c].pc = "lookup" /\ th[c].id \in Ids /\ th[c].op \in AllOps
    BY <1>2 DEF LookupSession, Holding, HoldsWhatItNeeds, HandlerPcs
  <2>2. run' = run
    BY <1>2 DEF LookupSession
  <2>3. th' \in [Threads -> ThreadState] /\ Holding'
    <3>1. CASE Goto(c, "check")
      BY <2>1, <2>2, <3>1, GotoEffect, GotoHolds
      DEF TypeOK, Holding, ThreadPcs, HandlerPcs, TeardownPcs
    <3>2. CASE Finish(c)
      BY <2>2, <3>2, FinishEffect, FinishHolds DEF TypeOK, Holding
    <3>3. CASE /\ sessions[th[c].id] # NoObj /\ th[c].op # "CreateSession"
               /\ Take(c, FoundPc[th[c].op], sessions[th[c].id])
      <4>1. sessions[th[c].id] \in Objs
        BY <2>1, <3>3 DEF TypeOK
      <4>2. FoundPc[th[c].op] \in {"flag", "byid", "drop"}
        BY <2>1, <3>3 DEF FoundPc, AllOps, Creating
      <4> QED
        BY <2>1, <2>2, <3>3, <4>1, <4>2, FindHolds DEF HandlerPcs
    <3> QED
      BY <1>2, <3>1, <3>2, <3>3 DEF LookupSession
  <2>4. TypeOK'
    BY <1>2, <2>3 DEF LookupSession, TypeOK, fields, identity, flags, media
  <2> QED
    BY <2>3, <2>4
<1>3. CASE CheckAbsent(c)
  <2>1. th' \in [Threads -> ThreadState] /\ Holding'
    <3>1. CASE Finish(c)
      BY <1>3, <3>1, FinishEffect, FinishHolds DEF CheckAbsent, TypeOK, Holding
    <3>2. CASE Goto(c, "acquire")
      BY <1>3, <3>2, GotoEffect, GotoHolds
      DEF CheckAbsent, TypeOK, Holding, ThreadPcs, HandlerPcs, TeardownPcs
    <3> QED
      BY <1>3, <3>1, <3>2 DEF CheckAbsent
  <2>2. TypeOK'
    BY <1>3, <2>1 DEF CheckAbsent, TypeOK, fields, identity, flags, media
  <2> QED
    BY <2>1, <2>2
<1>4. ASSUME NEW g \in Gens, NEW o \in Objs, Acquire(c, g, o) PROVE TypeInv'
  <2>1. th[c].pc = "acquire" /\ th[c].id \in Ids /\ th[c].op \in AllOps
    BY <1>4 DEF Acquire, Holding, HoldsWhatItNeeds, HandlerPcs
  <2>2. /\ th' \in [Threads -> ThreadState]
        /\ \A x \in Threads \ {c} : th'[x] = th[x]
        /\ th'[c].pc = "store" /\ th'[c].op = th[c].op /\ th'[c].id = th[c].id
        /\ th'[c].obj = o /\ th'[c].gen = g
    <3>1. "store" \in ThreadPcs /\ th \in [Threads -> ThreadState]
      BY DEF ThreadPcs, HandlerPcs, TypeOK
    <3>2. TakeNew(c, "store", o, g)
      BY <1>4 DEF Acquire
    <3> QED
      BY <3>1, <3>2, AcquireEffect
  <2>3. /\ run' \in [Gens -> RunState]
        /\ \A h \in Gens \ {g} : run'[h] = run[h]
        /\ run'[g].pc = "held"
    BY <1>4, RunGotoEffect DEF Acquire, RunGoto, TypeOK, RunPcs
  <2>4. TypeOK'
    BY <1>4, <2>1, <2>2, <2>3 DEF Acquire, TypeOK, flags
  <2>5. HoldsWhatItNeeds(c)'
    BY <2>1, <2>2 DEF HoldsWhatItNeeds, HandlerPcs, TeardownPcs
  <2>6. Holding'
    BY <2>2, <2>3, <2>5, ThreadStepHolds DEF Holding
  <2> QED
    BY <2>4, <2>6
<1>5. CASE StoreSession(c)
  <2>1. th[c].pc = "store" /\ th[c].id \in Ids /\ th[c].obj \in Objs
    BY <1>5 DEF StoreSession, Holding, HoldsWhatItNeeds, HandlerPcs
  <2>2. th' \in [Threads -> ThreadState] /\ Holding'
    BY <1>5, <2>1, GotoEffect, GotoHolds
    DEF StoreSession, TypeOK, Holding, ThreadPcs, HandlerPcs, TeardownPcs
  <2>3. TypeOK'
    BY <1>5, <2>1, <2>2 DEF StoreSession, TypeOK, fields, identity, flags, media
  <2> QED
    BY <2>2, <2>3
<1>6. CASE OpenPuller(c)
  <2>1. th[c].pc = "pull" /\ th[c].id \in Ids /\ th[c].obj \in Objs
    BY <1>6 DEF OpenPuller, Holding, HoldsWhatItNeeds, HandlerPcs
  <2>2. /\ run' \in [Gens -> RunState]
        /\ \A g \in Gens : run'[g].pc \notin {"none", "held"} => run'[g].obj \in Objs
    BY <1>6, <2>1, KilledHolds DEF OpenPuller
  <2>3. th' \in [Threads -> ThreadState] /\ Holding'
    BY <1>6, <2>1, <2>2, GotoEffect, GotoHolds
    DEF OpenPuller, TypeOK, Holding, ThreadPcs, HandlerPcs, TeardownPcs
  <2>4. TypeOK'
    BY <1>6, <2>1, <2>2, <2>3 DEF OpenPuller, PullerStarts, TypeOK, identity
  <2> QED
    BY <2>3, <2>4
<1>7. CASE PullerFails(c)
  <2>1. th[c].pc = "pull" /\ th[c].id \in Ids /\ th[c].obj \in Objs
    BY <1>7 DEF PullerFails, Holding, HoldsWhatItNeeds, HandlerPcs
  <2>2. /\ run' \in [Gens -> RunState]
        /\ \A g \in Gens : run'[g].pc \notin {"none", "held"} => run'[g].obj \in Objs
    BY <1>7, <2>1, KilledHolds DEF PullerFails
  <2>3. th' \in [Threads -> ThreadState] /\ Holding'
    BY <1>7, <2>2, FinishEffect, FinishHolds DEF PullerFails, TypeOK, Holding
  <2>4. TypeOK'
    BY <1>7, <2>1, <2>2, <2>3 DEF PullerFails, PullerDoesNotStart, TypeOK, identity
  <2> QED
    BY <2>3, <2>4
<1>8. CASE OpenPusher(c)
  <2>1. th[c].pc = "push" /\ th[c].id \in Ids /\ th[c].obj \in Objs /\ th[c].gen \in Gens
    BY <1>8 DEF OpenPusher, Holding, HoldsWhatItNeeds, HandlerPcs
  <2>2. /\ run' \in [Gens -> RunState]
        /\ \A g \in Gens : run'[g].pc \notin {"none", "held"} => run'[g].obj \in Objs
    <3>1. [pc |-> "start", obj |-> th[c].obj, home |-> th[c].id, msg |-> NoId] \in RunState
      BY <2>1 DEF RunState, RunPcs
    <3>2. /\ run' \in [Gens -> RunState]
          /\ \A g \in Gens \ {th[c].gen} : run'[g] = run[g]
          /\ run'[th[c].gen] = [pc |-> "start", obj |-> th[c].obj, home |-> th[c].id,
                                msg |-> NoId]
      BY <1>8, <2>1, <3>1 DEF OpenPusher, TypeOK
    <3> QED
      BY <2>1, <3>2 DEF Holding
  <2>3. th' \in [Threads -> ThreadState] /\ Holding'
    <3>1. CASE Finish(c)
      BY <2>2, <3>1, FinishEffect, FinishHolds DEF TypeOK
    <3>2. CASE Goto(c, "byid")
      BY <2>1, <2>2, <3>2, GotoEffect, GotoHolds
      DEF TypeOK, ThreadPcs, HandlerPcs, TeardownPcs
    <3> QED
      BY <1>8, <3>1, <3>2 DEF OpenPusher
  <2>4. TypeOK'
    BY <1>8, <2>1, <2>2, <2>3 DEF OpenPusher, TypeOK, identity, flags
  <2> QED
    BY <2>3, <2>4
<1>9. CASE PusherFails(c)
  <2>1. th[c].pc = "push" /\ th[c].obj \in Objs
    BY <1>9 DEF PusherFails, Holding, HoldsWhatItNeeds
  <2>2. th' \in [Threads -> ThreadState] /\ Holding'
    BY <1>9, FinishEffect, FinishHolds DEF PusherFails, TypeOK, Holding
  <2>3. TypeOK'
    BY <1>9, <2>1, <2>2 DEF PusherFails, TypeOK, identity, flags
  <2> QED
    BY <2>2, <2>3
<1>10. CASE FindByID(c)
  <2>1. th[c].pc = "byid" /\ th[c].obj \in Objs /\ run' = run
    BY <1>10 DEF FindByID, Holding, HoldsWhatItNeeds
  <2>2. th' \in [Threads -> ThreadState] /\ Holding'
    <3>1. CASE Finish(c)
      BY <2>1, <3>1, FinishEffect, FinishHolds DEF TypeOK, Holding
    <3>2. CASE ~Finish(c)
      <4> DEFINE o == Lookup(idOf[th[c].obj])
      <4>1. o \in Objs /\ Take(c, "flag", o)
        BY <1>10, <2>1, <3>2 DEF FindByID, Lookup, TypeOK
      <4> HIDE DEF o
      <4> QED
        BY <2>1, <4>1, FindHolds DEF HandlerPcs
    <3> QED
      BY <3>1, <3>2
  <2>3. TypeOK'
    BY <1>10, <2>2 DEF FindByID, TypeOK, fields, identity, flags, media
  <2> QED
    BY <2>2, <2>3
<1>11. CASE SetFlag(c)
  <2>1. th[c].pc = "flag" /\ th[c].obj \in Objs
    BY <1>11 DEF SetFlag, Holding, HoldsWhatItNeeds
  <2>2. th' \in [Threads -> ThreadState] /\ Holding'
    BY <1>11, FinishEffect, FinishHolds DEF SetFlag, TypeOK, Holding
  <2>3. TypeOK'
    BY <1>11, <2>1, <2>2 DEF SetFlag, SetDetect, StopRecord, StartRecord, TypeOK, identity
  <2> QED
    BY <2>2, <2>3
<1>12. CASE Drop(c)
  <2>1. th[c].pc = "drop" /\ th[c].obj \in Objs
    BY <1>12 DEF Drop, Holding, HoldsWhatItNeeds
  <2>2. th' \in [Threads -> ThreadState] /\ Holding'
    BY <1>12, <2>1, GotoEffect, GotoHolds
    DEF Drop, TypeOK, Holding, ThreadPcs, HandlerPcs, TeardownPcs
  <2>3. TypeOK'
    BY <1>12, <2>1, <2>2 DEF Drop, TypeOK, identity, media
  <2> QED
    BY <2>2, <2>3
<1> QED
  BY <1>1, <1>2, <1>3, <1>4, <1>5, <1>6, <1>7, <1>8, <1>9, <1>10, <1>11, <1>12
  DEF HandlerStep

LEMMA TeardownTypes ==
  ASSUME TypeInv, NEW t \in Threads, TeardownStep(t)
  PROVE  TypeInv'
<1> USE DEF TypeInv
<1>0. ASSUME NEW g PROVE Cancelling(g) \subseteq Gens
  BY DEF Cancelling, TypeOK
<1>1. CASE CancelSession(t)
  <2>1. th[t].pc = "cancel" /\ th[t].obj \in Objs
    BY <1>1 DEF CancelSession, Holding, HoldsWhatItNeeds, TeardownPcs
  <2>2. th' \in [Threads -> ThreadState] /\ Holding'
    BY <1>1, <2>1, GotoEffect, GotoHolds
    DEF CancelSession, TypeOK, Holding, ThreadPcs, HandlerPcs, TeardownPcs
  <2>3. TypeOK'
    BY <1>0, <1>1, <2>2 DEF CancelSession, TypeOK, fields, identity, flags, media
  <2> QED
    BY <2>2, <2>3
<1>2. CASE DeleteEntry(t)
  <2>1. th[t].pc = "delete" /\ th[t].id \in Ids
    BY <1>2 DEF DeleteEntry, Holding, HoldsWhatItNeeds, TeardownPcs
  <2>2. th' \in [Threads -> ThreadState] /\ Holding'
    <3>1. ASSUME NEW pc \in {"put", "reset"}, Goto(t, pc)
          PROVE  th' \in [Threads -> ThreadState] /\ Holding'
      BY <1>2, <2>1, <3>1, GotoEffect, GotoHolds
      DEF DeleteEntry, TypeOK, Holding, ThreadPcs, HandlerPcs, TeardownPcs
    <3> QED
      BY <1>2, <3>1 DEF DeleteEntry
  <2>3. TypeOK'
    BY <1>2, <2>1, <2>2 DEF DeleteEntry, TypeOK, fields, identity, flags, media
  <2> QED
    BY <2>2, <2>3
<1>3. CASE ResetFlags(t)
  <2>1. th[t].pc = "reset" /\ th[t].obj \in Objs
    BY <1>3 DEF ResetFlags, Holding, HoldsWhatItNeeds, TeardownPcs
  <2>2. th' \in [Threads -> ThreadState] /\ Holding'
    BY <1>3, <2>1, GotoEffect, GotoHolds
    DEF ResetFlags, TypeOK, Holding, ThreadPcs, HandlerPcs, TeardownPcs
  <2>3. TypeOK'
    BY <1>0, <1>3, <2>1, <2>2 DEF ResetFlags, TypeOK, identity, media
  <2> QED
    BY <2>2, <2>3
<1>4. CASE ResetFields(t)
  <2>1. th[t].pc = "clear" /\ th[t].obj \in Objs
    BY <1>4 DEF ResetFields, Holding, HoldsWhatItNeeds, TeardownPcs
  <2>2. /\ run' \in [Gens -> RunState]
        /\ \A g \in Gens : run'[g].pc \notin {"none", "held"} => run'[g].obj \in Objs
    BY <1>4, <2>1, KilledHolds DEF ResetFields
  <2>3. th' \in [Threads -> ThreadState] /\ Holding'
    BY <1>4, <2>1, <2>2, GotoEffect, GotoHolds
    DEF ResetFields, TypeOK, ThreadPcs, HandlerPcs, TeardownPcs
  <2>4. TypeOK'
    BY <1>4, <2>1, <2>2, <2>3 DEF ResetFields, TypeOK, flags
  <2> QED
    BY <2>3, <2>4
<1>5. CASE PutBack(t)
  <2>1. th[t].pc = "put" /\ th[t].obj \in Objs
    BY <1>5 DEF PutBack, Holding, HoldsWhatItNeeds, TeardownPcs
  <2>2. th' \in [Threads -> ThreadState] /\ Holding'
    <3>1. CASE RangeOn(t)
      BY <1>5, <3>1, RangeOnHolds DEF PutBack
    <3>2. CASE Finish(t)
      BY <1>5, <3>2, FinishEffect, FinishHolds DEF PutBack, TypeOK, Holding
    <3> QED
      BY <1>5, <3>1, <3>2 DEF PutBack
  <2>3. TypeOK'
    BY <1>5, <2>1, <2>2 DEF PutBack, TypeOK, fields, identity, flags, media
  <2> QED
    BY <2>2, <2>3
<1> QED
  BY <1>1, <1>2, <1>3, <1>4, <1>5 DEF TeardownStep

LEMMA RangeTypes ==
  ASSUME TypeInv, NEW t \in Threads, RangeStep(t)
  PROVE  TypeInv'
<1> USE DEF TypeInv
<1>1. ASSUME NEW id \in Ids, Skip(t, id) PROVE TypeInv'
  <2>1. /\ th' \in [Threads -> ThreadState]
        /\ \A x \in Threads \ {t} : th'[x] = th[x]
        /\ th'[t].pc = "range"
    BY <1>1, SkipEffect DEF Skip, TypeOK
  <2>2. HoldsWhatItNeeds(t)'
    BY <2>1 DEF HoldsWhatItNeeds, HandlerPcs, TeardownPcs
  <2>3. Holding'
    BY <1>1, <2>1, <2>2, ThreadStepHolds DEF Skip, Holding
  <2>4. TypeOK'
    BY <1>1, <2>1 DEF Skip, TypeOK, fields, identity, flags, media
  <2> QED
    BY <2>3, <2>4
<1>2. ASSUME NEW id \in Ids, Visit(t, id) PROVE TypeInv'
  <2>1. sessions[id] \in Objs
    BY <1>2 DEF Visit, TypeOK
  <2>2. th' \in [Threads -> ThreadState] /\ Holding'
    <3>1. ASSUME NEW pc \in {"claim", "cancel"}, TurnTo(t, pc, id)
          PROVE  th' \in [Threads -> ThreadState] /\ Holding'
      BY <1>2, <2>1, <3>1, TurnToHolds DEF Visit
    <3> QED
      BY <1>2, <3>1 DEF Visit
  <2>3. TypeOK'
    BY <1>2, <2>2 DEF Visit, TypeOK, fields, identity, flags, media
  <2> QED
    BY <2>2, <2>3
<1> QED
  BY <1>1, <1>2 DEF RangeStep

LEMMA ManagerTypes ==
  ASSUME TypeInv,
         \/ \E t \in Threads : StopLoop(t)
         \/ Receive \/ Tick \/ Claim \/ EndTick \/ StartClose \/ EndClose
  PROVE  TypeInv'
<1> USE DEF TypeInv
<1>0. Receiver \in Threads /\ Ticker \in Threads /\ Closer \in Threads
  BY DEF Threads, Managers
<1>1. ASSUME NEW t \in Threads, StopLoop(t) PROVE TypeInv'
  <2>1. th' \in [Threads -> ThreadState] /\ Holding'
    BY <1>1, GotoEffect, GotoHolds
    DEF StopLoop, TypeOK, Holding, ThreadPcs, HandlerPcs, TeardownPcs
  <2>2. TypeOK'
    BY <1>1, <2>1 DEF StopLoop, TypeOK, fields, identity, flags, media
  <2> QED
    BY <2>1, <2>2
<1>2. CASE Receive
  <2>1. /\ closeCh' \in Seq(Ids \cup {NoId})
        /\ Len(closeCh') <= CloseChanCap
        /\ Head(closeCh) \in Ids \cup {NoId}
    <3>1. /\ closeCh' \in Seq(Ids \cup {NoId}) /\ Len(closeCh') = Len(closeCh) - 1
          /\ Head(closeCh) \in Ids \cup {NoId}
      BY <1>2, HeadTailProperties DEF Receive, TypeOK
    <3>2. Len(closeCh) \in Nat /\ Len(closeCh) <= CloseChanCap /\ CloseChanCap \in Nat
      BY LenProperties, ConstantsAssumption DEF TypeOK
    <3> QED
      BY <3>1, <3>2
  <2>2. th' \in [Threads -> ThreadState] /\ Holding'
    <3>1. CASE UNCHANGED th
      BY <1>2, <3>1 DEF Receive, TypeOK, Holding, HoldsWhatItNeeds
    <3>2. CASE Lookup(Head(closeCh)) # NoObj /\ TurnTo(Receiver, "cancel", Head(closeCh))
      <4>1. Head(closeCh) \in Ids /\ sessions[Head(closeCh)] \in Objs
        BY <2>1, <3>2 DEF Lookup, TypeOK
      <4> QED
        BY <1>0, <1>2, <3>2, <4>1, TurnToHolds DEF Receive
    <3> QED
      BY <1>2, <3>1, <3>2 DEF Receive
  <2>3. TypeOK'
    BY <1>2, <2>1, <2>2 DEF Receive, TypeOK, fields, identity, flags, media
  <2> QED
    BY <2>2, <2>3
<1>3. CASE Tick
  <2>1. th' \in [Threads -> ThreadState] /\ Holding'
    BY <1>0, <1>3, StartRangeHolds DEF Tick
  <2>2. TypeOK'
    BY <1>3, <2>1 DEF Tick, TypeOK, fields, identity, flags, media
  <2> QED
    BY <2>1, <2>2
<1>4. CASE Claim
  <2>1. th[Ticker].pc = "claim" /\ th[Ticker].obj \in Objs
    BY <1>0, <1>4 DEF Claim, Holding, HoldsWhatItNeeds
  <2>2. th' \in [Threads -> ThreadState] /\ Holding'
    <3>1. CASE RangeOn(Ticker)
      BY <1>0, <1>4, <3>1, RangeOnHolds DEF Claim
    <3>2. CASE Goto(Ticker, "cancel")
      BY <1>0, <1>4, <2>1, <3>2, GotoEffect, GotoHolds
      DEF Claim, TypeOK, Holding, ThreadPcs, HandlerPcs, TeardownPcs
    <3> QED
      BY <1>4, <3>1, <3>2 DEF Claim
  <2>3. handled' \in [Objs -> BOOLEAN]
    BY <1>4, <2>1 DEF Claim, TypeOK
  <2>4. TypeOK'
    BY <1>4, <2>2, <2>3 DEF Claim, TypeOK, identity, flags, media
  <2> QED
    BY <2>2, <2>4
<1>5. CASE EndTick
  <2>1. th' \in [Threads -> ThreadState] /\ Holding'
    BY <1>0, <1>5, FinishEffect, FinishHolds DEF EndTick, TypeOK, Holding
  <2>2. TypeOK'
    BY <1>5, <2>1 DEF EndTick, TypeOK, fields, identity, flags, media
  <2> QED
    BY <2>1, <2>2
<1>6. CASE StartClose
  <2>1. th' \in [Threads -> ThreadState] /\ Holding'
    BY <1>0, <1>6, StartRangeHolds DEF StartClose
  <2>2. TypeOK'
    BY <1>6, <2>1 DEF StartClose, TypeOK, fields, identity, flags, media
  <2> QED
    BY <2>1, <2>2
<1>7. CASE EndClose
  <2>1. th' \in [Threads -> ThreadState] /\ Holding'
    BY <1>0, <1>7, GotoEffect, GotoHolds
    DEF EndClose, TypeOK, Holding, ThreadPcs, HandlerPcs, TeardownPcs
  <2>2. TypeOK'
    BY <1>7, <2>1 DEF EndClose, TypeOK, fields, identity, flags, media
  <2> QED
    BY <2>1, <2>2
<1> QED
  BY <1>1, <1>2, <1>3, <1>4, <1>5, <1>6, <1>7

\* A step of Run that only goes somewhere.
LEMMA RunGotoHolds ==
  ASSUME TypeInv, NEW g \in Gens, NEW pc \in RunPcs, RunGoto(g, pc), th' = th,
         run[g].obj \in Objs
  PROVE  run' \in [Gens -> RunState] /\ Holding'
<1>1. /\ run' \in [Gens -> RunState]
      /\ \A h \in Gens \ {g} : run'[h] = run[h]
      /\ run'[g].obj = run[g].obj
  BY RunGotoEffect DEF TypeInv, TypeOK
<1> QED
  BY <1>1 DEF TypeInv, Holding, HoldsWhatItNeeds

\* A step of Run that kills the puller and then goes somewhere.
LEMMA KilledGotoEffect ==
  ASSUME run \in [Gens -> RunState], NEW o \in Objs, NEW g \in Gens, NEW pc \in RunPcs,
         run' = [PullerKilled(o) EXCEPT ![g].pc = pc]
  PROVE  /\ run' \in [Gens -> RunState]
         /\ \A h \in Gens : /\ run'[h].obj = run[h].obj /\ run'[h].msg = run[h].msg
                            /\ run'[h].home = run[h].home
         /\ \A h \in Gens \ {g} : \/ run'[h].pc = run[h].pc
                                  \/ run[h].pc = "read" /\ run'[h].pc = "eof"
         /\ run'[g].pc = pc
<1> DEFINE f == PullerKilled(o)
<1>1. /\ f \in [Gens -> RunState]
      /\ \A h \in Gens :
           /\ f[h].obj = run[h].obj
           /\ f[h].msg = run[h].msg /\ f[h].home = run[h].home
           /\ \/ f[h].pc = run[h].pc
              \/ run[h].pc = "read" /\ f[h].pc = "eof"
  BY PullerKilledEffect
<1>2. run' = [f EXCEPT ![g].pc = pc]
  OBVIOUS
<1> HIDE DEF f
<1>3. /\ run' \in [Gens -> RunState]
      /\ \A h \in Gens \ {g} : run'[h] = f[h]
      /\ run'[g].pc = pc /\ run'[g].obj = f[g].obj /\ run'[g].msg = f[g].msg
      /\ run'[g].home = f[g].home
  <2>1. f[g] \in RunState /\ pc \in RunPcs
    BY <1>1
  <2>2. [f[g] EXCEPT !.pc = pc] \in RunState
    BY <2>1 DEF RunState
  <2>3. /\ [f[g] EXCEPT !.pc = pc].pc = pc
        /\ [f[g] EXCEPT !.pc = pc].obj = f[g].obj
        /\ [f[g] EXCEPT !.pc = pc].msg = f[g].msg
        /\ [f[g] EXCEPT !.pc = pc].home = f[g].home
    BY <2>1 DEF RunState
  <2>4. run' = [f EXCEPT ![g] = [f[g] EXCEPT !.pc = pc]]
    BY <1>2
  <2> QED
    BY <1>1, <2>2, <2>3, <2>4
<1> QED
  BY <1>1, <1>3

LEMMA KilledGotoHolds ==
  ASSUME TypeInv, NEW o \in Objs, NEW g \in Gens, NEW pc \in RunPcs,
         run' = [PullerKilled(o) EXCEPT ![g].pc = pc], th' = th,
         run[g].obj \in Objs
  PROVE  run' \in [Gens -> RunState] /\ Holding'
<1>0. run \in [Gens -> RunState]
  BY DEF TypeInv, TypeOK
<1>1. /\ run' \in [Gens -> RunState]
      /\ \A h \in Gens : run'[h].obj = run[h].obj
      /\ \A h \in Gens \ {g} : \/ run'[h].pc = run[h].pc
                               \/ run[h].pc = "read" /\ run'[h].pc = "eof"
  BY <1>0, KilledGotoEffect
<1> QED
  BY <1>1 DEF TypeInv, Holding, HoldsWhatItNeeds

\* Opening a puller, or failing to.
LEMMA PullerTypes ==
  ASSUME TypeInv, NEW o \in Objs, PullerStarts(o) \/ PullerDoesNotStart(o)
  PROVE  procs' \in [Objs -> SUBSET {"pull", "push"}] /\ running' \in [Objs -> BOOLEAN]
<1>1. CASE PullerStarts(o)
  BY <1>1 DEF PullerStarts, TypeInv, TypeOK
<1>2. CASE PullerDoesNotStart(o)
  BY <1>2 DEF PullerDoesNotStart, TypeInv, TypeOK
<1> QED
  BY <1>1, <1>2

LEMMA RunTypes ==
  ASSUME TypeInv, NEW g \in Gens, RunMoves(g) \/ RunReads(g)
  PROVE  TypeInv'
<1> USE DEF TypeInv
<1>0. run[g].obj \in Objs
  BY DEF RunMoves, RunReads, RunStart, RunCannotStart, RunHead, RunStops, RunUpdates,
         RunReopens, RunClean, RunMark, RunName, RunSend, RunFrame, RunEOF, RunFails,
         Holding
<1>1. CASE RunStart(g)
  <2>1. run' \in [Gens -> RunState] /\ Holding'
    BY <1>0, <1>1, RunGotoHolds DEF RunStart, RunPcs
  <2>2. TypeOK'
    <3>1. procs' \in [Objs -> SUBSET {"pull", "push"}] /\ running' \in [Objs -> BOOLEAN]
      BY <1>0, <1>1, PullerTypes DEF RunStart, TypeOK
    <3> QED
      BY <1>1, <2>1, <3>1 DEF RunStart, TypeOK, identity
  <2> QED
    BY <2>1, <2>2
<1>2. CASE RunCannotStart(g) \/ RunStops(g) \/ RunHead(g) \/ RunEOF(g)
  <2>1. run' \in [Gens -> RunState] /\ Holding'
    <3>1. ASSUME NEW pc \in {"clean", "read", "eof"}, RunGoto(g, pc)
          PROVE  run' \in [Gens -> RunState] /\ Holding'
      BY <1>0, <1>2, <3>1, RunGotoHolds
      DEF RunCannotStart, RunStops, RunHead, RunEOF, RunPcs
    <3> QED
      BY <1>2, <3>1 DEF RunCannotStart, RunStops, RunHead, RunEOF
  <2>2. UNCHANGED <<sessions, pool, fields, cancelled, closeCh, th, up>>
    BY <1>2 DEF RunCannotStart, RunStops, RunHead, RunEOF
  <2>3. TypeOK'
    BY <2>1, <2>2 DEF TypeOK, fields, identity, flags, media
  <2> QED
    BY <2>1, <2>3
<1>3. CASE RunUpdates(g)
  <2>1. /\ run' \in [Gens -> RunState]
        /\ \A h \in Gens : run'[h].pc \notin {"none", "held"} => run'[h].obj \in Objs
    BY <1>0, <1>3, KilledHolds DEF RunUpdates
  <2>2. Holding'
    BY <1>3, <2>1 DEF RunUpdates, Holding, HoldsWhatItNeeds
  <2>3. TypeOK'
    <3>1. procs' \in [Objs -> SUBSET {"pull", "push"}] /\ running' \in [Objs -> BOOLEAN]
      BY <1>0, <1>3, PullerTypes DEF RunUpdates
    <3> QED
      BY <1>3, <2>1, <3>1 DEF RunUpdates, TypeOK, identity
  <2> QED
    BY <2>2, <2>3
<1>4. CASE RunReopens(g)
  <2>1. run' \in [Gens -> RunState] /\ Holding'
    <3>1. CASE run' = [PullerKilled(run[g].obj) EXCEPT ![g].pc = "loop"]
      BY <1>0, <1>4, <3>1, KilledGotoHolds DEF RunReopens, RunPcs
    <3>2. CASE RunGoto(g, "loop")
      BY <1>0, <1>4, <3>2, RunGotoHolds DEF RunReopens, RunPcs
    <3> QED
      BY <1>4, <3>1, <3>2 DEF RunReopens
  <2>2. TypeOK'
    <3>1. /\ procs' \in [Objs -> SUBSET {"pull", "push"}] /\ running' \in [Objs -> BOOLEAN]
          /\ update' \in [Objs -> BOOLEAN]
      BY <1>0, <1>4, PullerTypes DEF RunReopens, TypeOK
    <3> QED
      BY <1>4, <2>1, <3>1 DEF RunReopens, TypeOK, identity
  <2> QED
    BY <2>1, <2>2
<1>5. CASE RunClean(g)
  <2>1. run' \in [Gens -> RunState] /\ Holding'
    BY <1>0, <1>5, KilledGotoHolds DEF RunClean, RunPcs
  <2>2. TypeOK'
    BY <1>0, <1>5, <2>1 DEF RunClean, TypeOK, identity
  <2> QED
    BY <2>1, <2>2
<1>6. CASE RunMark(g)
  <2>1. run' \in [Gens -> RunState] /\ Holding'
    <3>1. ASSUME NEW pc \in {"done", "name"}, RunGoto(g, pc)
          PROVE  run' \in [Gens -> RunState] /\ Holding'
      BY <1>0, <1>6, <3>1, RunGotoHolds DEF RunMark, RunPcs
    <3> QED
      BY <1>6, <3>1 DEF RunMark
  <2>2. TypeOK'
    BY <1>0, <1>6, <2>1 DEF RunMark, TypeOK, identity, flags, media
  <2> QED
    BY <2>1, <2>2
<1>7. CASE RunName(g)
  <2>1. idOf[run[g].obj] \in Ids \cup {NoId}
    BY <1>0 DEF TypeOK
  <2>2. /\ run' \in [Gens -> RunState]
        /\ \A h \in Gens \ {g} : run'[h] = run[h]
        /\ run'[g].pc = "send" /\ run'[g].obj = run[g].obj
    BY <1>7, <2>1, RunNameEffect DEF RunName, TypeOK
  <2>3. Holding'
    BY <1>0, <1>7, <2>2 DEF RunName, Holding, HoldsWhatItNeeds
  <2>4. TypeOK'
    BY <1>7, <2>2 DEF RunName, TypeOK, fields, identity, flags, media
  <2> QED
    BY <2>3, <2>4
<1>8. CASE RunSend(g)
  <2>1. run' \in [Gens -> RunState] /\ Holding'
    BY <1>0, <1>8, RunGotoHolds DEF RunSend, RunPcs
  <2>2. run[g].msg \in Ids \cup {NoId}
    BY DEF TypeOK, RunState
  <2>3. /\ closeCh' \in Seq(Ids \cup {NoId})
        /\ Len(closeCh') = Len(closeCh) + 1
    BY <1>8, <2>2, AppendProperties DEF RunSend, TypeOK
  <2>4. Len(closeCh') <= CloseChanCap
    BY <1>8, <2>3, LenProperties, ConstantsAssumption DEF RunSend, TypeOK
  <2>5. TypeOK'
    BY <1>8, <2>1, <2>3, <2>4 DEF RunSend, TypeOK, fields, identity, flags, media
  <2> QED
    BY <2>1, <2>5
<1>9. CASE RunFrame(g)
  <2>1. run' \in [Gens -> RunState] /\ Holding'
    BY <1>0, <1>9, RunGotoHolds DEF RunFrame, RunPcs
  <2>2. TypeOK'
    BY <1>0, <1>9, <2>1 DEF RunFrame, TypeOK, identity, media
  <2> QED
    BY <2>1, <2>2
<1>10. CASE RunFails(g)
  <2>1. run' \in [Gens -> RunState] /\ Holding'
    BY <1>0, <1>10, RunGotoHolds DEF RunFails, RunPcs
  <2>2. TypeOK'
    BY <1>10, <2>1 DEF RunFails, Cancelling, TypeOK, fields, identity, flags, media
  <2> QED
    BY <2>1, <2>2
<1> QED
  BY <1>1, <1>2, <1>3, <1>4, <1>5, <1>6, <1>7, <1>8, <1>9, <1>10
  DEF RunMoves, RunReads

LEMMA RecorderTypes ==
  ASSUME TypeInv, NEW o \in Objs, RecorderStep(o)
  PROVE  TypeInv'
<1> USE DEF TypeInv
<1>1. CASE RecorderReopens(o)
  <2>1. run' = PullerKilled(o) \/ run' = run
    BY <1>1 DEF RecorderReopens
  <2>2. /\ run' \in [Gens -> RunState]
        /\ \A h \in Gens : run'[h].pc \notin {"none", "held"} => run'[h].obj \in Objs
    BY <2>1, KilledHolds DEF TypeOK, Holding
  <2>3. Holding'
    BY <1>1, <2>2 DEF RecorderReopens, Holding, HoldsWhatItNeeds
  <2>4. TypeOK'
    <3>1. /\ procs' \in [Objs -> SUBSET {"pull", "push"}] /\ running' \in [Objs -> BOOLEAN]
          /\ update' \in [Objs -> BOOLEAN]
      BY <1>1, PullerTypes DEF RecorderReopens, TypeOK
    <3> QED
      BY <1>1, <2>2, <3>1 DEF RecorderReopens, TypeOK, identity
  <2> QED
    BY <2>3, <2>4
<1>2. CASE ~RecorderReopens(o)
  <2>1. UNCHANGED <<run, th>>
    BY <1>2
    DEF RecorderStep, RecorderHead, RecorderEnds, RecorderSegment, RecorderFails,
        RecorderAsks
  <2>2. Holding'
    BY <2>1 DEF Holding, HoldsWhatItNeeds
  <2>3. TypeOK'
    BY <1>2
    DEF RecorderStep, RecorderHead, RecorderEnds, RecorderSegment, RecorderFails,
        RecorderAsks, Cancelling, TypeOK, identity, flags
  <2> QED
    BY <2>2, <2>3
<1> QED
  BY <1>1, <1>2

LEMMA TypeStep == TypeInv /\ [Next]_vars => TypeInv'
<1> SUFFICES ASSUME TypeInv, [Next]_vars PROVE TypeInv'
  OBVIOUS
<1>1. CASE UNCHANGED vars
  BY <1>1
  DEF TypeInv, TypeOK, Holding, HoldsWhatItNeeds, vars, fields, identity, flags, media
<1>2. ASSUME NEW c \in Callers,
             (\E op \in Ops, id \in Ids : Request(c, op, id)) \/ HandlerStep(c)
      PROVE  TypeInv'
  BY <1>2, HandlerTypes
<1>3. ASSUME NEW t \in Threads, TeardownStep(t) PROVE TypeInv'
  BY <1>3, TeardownTypes
<1>4. ASSUME NEW t \in Threads, RangeStep(t) PROVE TypeInv'
  BY <1>4, RangeTypes
<1>5. ASSUME \/ \E t \in Threads : StopLoop(t)
             \/ Receive \/ Tick \/ Claim \/ EndTick \/ StartClose \/ EndClose
      PROVE  TypeInv'
  BY <1>5, ManagerTypes
<1>6. ASSUME NEW g \in Gens, RunMoves(g) \/ RunReads(g) PROVE TypeInv'
  BY <1>6, RunTypes
<1>7. ASSUME NEW o \in Objs, RecorderStep(o) PROVE TypeInv'
  BY <1>7, RecorderTypes
<1> QED
  BY <1>1, <1>2, <1>3, <1>4, <1>5, <1>6, <1>7 DEF Next

\* Every field keeps its type, and closeCh never holds more than its capacity.
THEOREM TypeCorrect == Spec => []TypeOK
<1>1. TypeInv => TypeOK
  BY DEF TypeInv
<1> QED
  BY TypeInit, TypeStep, <1>1, PTL DEF Spec
=============================================================================
