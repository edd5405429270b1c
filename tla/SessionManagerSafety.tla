------------------------ MODULE SessionManagerSafety ------------------------
(***************************************************************************)
(* The registry is sound as long as every sessionPool.Get returns a new    *)
(* object: Inv of SessionManager is inductive under Recycle = FALSE, and   *)
(* with it NoZombie and PooledUnregistered hold of every reachable state.  *)
(* (With Recycle = TRUE they do not: a recycled object keeps its           *)
(* handledClose and the goroutines of its previous session.)               *)
(***************************************************************************)
EXTENDS SessionManagerProofs

\* Inv without its types.
Sound ==
  /\ OnlyWiredInUse /\ NamedByKey /\ CreatorAlone /\ OwnContext
  /\ TornDown /\ HandledLeaves /\ EndedIsHandled /\ PooledUnregistered

LEMMA InvIsSound == Inv <=> TypeInv /\ Sound
  BY DEF Inv, TypeInv, Sound

LEMMA SoundInit == Init => Sound
<1> SUFFICES ASSUME Init PROVE Sound
  OBVIOUS
<1>1. /\ \A id \in Ids : sessions[id] = NoObj
      /\ \A o \in Objs : pool[o] = 0 /\ ~handled[o]
      /\ \A g \in Gens : run[g].pc = "none" /\ run[g].obj = NoObj
      /\ \A t \in Threads : th[t].pc = "idle" /\ th[t].obj = NoObj
  BY DEF Init, Resting
<1>2. NoObj \notin Objs
  BY ConstantsAssumption
<1>3. OnlyWiredInUse /\ PooledUnregistered /\ NamedByKey
  BY <1>1, <1>2 DEF OnlyWiredInUse, PooledUnregistered, NamedByKey, Registered
<1>4. CreatorAlone /\ OwnContext /\ TornDown
  BY <1>1 DEF CreatorAlone, OwnContext, TornDown
<1>5. HandledLeaves /\ EndedIsHandled
  BY <1>1, <1>2 DEF HandledLeaves, EndedIsHandled
<1> QED
  BY <1>3, <1>4, <1>5 DEF Sound

(***************************************************************************)
(* Steps that touch neither the map, the pool, an id, handledClose nor the *)
(* channel                                                                 *)
(***************************************************************************)
\* What Run does before it claims handledClose.
Working == {"start", "loop", "read", "eof", "clean", "mark"}

\* Runs only move within their work.
RunsWork ==
  \A h \in Gens :
    /\ run'[h].obj = run[h].obj /\ run'[h].msg = run[h].msg
    /\ run'[h].pc = run[h].pc \/ {run[h].pc, run'[h].pc} \subseteq Working

LEMMA KilledRunsWork ==
  ASSUME TypeInv, NEW o \in Objs, run' = PullerKilled(o)
  PROVE  RunsWork
  BY PullerKilledEffect DEF RunsWork, Working, TypeInv, TypeOK

\* Such a step keeps every part of Sound.
LEMMA RunsWorkSound ==
  ASSUME TypeInv, Sound, RunsWork, UNCHANGED <<sessions, pool, idOf, wired, handled, closeCh, th>>
  PROVE  Sound'
<1> USE DEF Sound
<1>1. OnlyWiredInUse'
  BY DEF OnlyWiredInUse, RunsWork, Registered
<1>2. NamedByKey' /\ PooledUnregistered'
  BY DEF NamedByKey, PooledUnregistered, Registered
<1>3. CreatorAlone'
  BY DEF CreatorAlone, RunsWork, Registered
<1>4. OwnContext'
  <2>1. \A h \in Gens : run[h].pc = "held" => run'[h].pc = "held"
    BY DEF RunsWork, Working
  <2>2. \A t \in Threads : /\ th'[t].pc = th[t].pc
                          /\ th'[t].gen = th[t].gen
    OBVIOUS
  <2>3. \A t \in Threads : th[t].pc \in {"store", "pull", "push"} => th[t].gen \in Gens
    BY DEF TypeInv, Holding, HoldsWhatItNeeds
  <2> QED
    BY <2>1, <2>2, <2>3 DEF OwnContext
<1>5. TornDown'
  BY DEF TornDown, Registered
<1>6. HandledLeaves'
  BY DEF HandledLeaves, RunsWork, Working, Leaving
<1>7. EndedIsHandled'
  BY DEF EndedIsHandled, RunsWork, Working
<1> QED
  BY <1>1, <1>2, <1>3, <1>4, <1>5, <1>6, <1>7

LEMMA UnchangedRunsWork == UNCHANGED run => RunsWork
  BY DEF RunsWork

\* A goroutine moves on, with the session it holds, with one it found in the
\* map, or with none; it forgets no duty to delete an entry.
MovesOn(t) ==
  /\ \A x \in Threads \ {t} : th'[x] = th[x]
  /\ \/ th'[t].obj \in {th[t].obj, NoObj}
     \/ Registered(th'[t].obj)
  /\ th'[t].pc # "store"
  /\ th'[t].pc \in {"pull", "push"} =>
       th[t].pc \in {"pull", "push"} /\ th'[t].gen = th[t].gen
  /\ th'[t].pc \in {"drop", "claim", "cancel", "delete"} =>
       \A k \in Ids : sessions[k] = th'[t].obj => k = th'[t].id
  /\ th'[t].pc \in {"reset", "clear", "put"} => ~Registered(th'[t].obj)
  /\ th[t].pc \in {"drop", "cancel", "delete"} =>
       th'[t].pc \in {"drop", "cancel", "delete"} /\ th'[t].id = th[t].id

\* All of Sound but the part that closeCh has a share in.
Kept ==
  /\ OnlyWiredInUse /\ NamedByKey /\ CreatorAlone /\ OwnContext
  /\ TornDown /\ EndedIsHandled /\ PooledUnregistered

LEMMA MovesOnKeeps ==
  ASSUME TypeInv, Sound, NEW t \in Threads, MovesOn(t), RunsWork,
         UNCHANGED <<sessions, pool, idOf, wired, handled>>
  PROVE  Kept'
<1> USE DEF Sound, Kept
<1>0. \A x \in Threads : th[x].pc = "store" => th[x].obj \in Objs
  BY DEF TypeInv, Holding, HoldsWhatItNeeds
<1>1. OnlyWiredInUse'
  BY ConstantsAssumption DEF OnlyWiredInUse, RunsWork, Registered, MovesOn
<1>2. NamedByKey' /\ PooledUnregistered'
  BY DEF NamedByKey, PooledUnregistered, Registered
<1>3. CreatorAlone'
  BY <1>0, ConstantsAssumption DEF CreatorAlone, RunsWork, Registered, MovesOn
<1>4. OwnContext'
  <2>1. \A h \in Gens : run[h].pc = "held" => run'[h].pc = "held"
    BY DEF RunsWork, Working
  <2>2. \A x \in Threads : th[x].pc \in {"store", "pull", "push"} => th[x].gen \in Gens
    BY DEF TypeInv, Holding, HoldsWhatItNeeds
  <2>3. \A x \in Threads : th'[x].pc \in {"store", "pull", "push"} =>
          th[x].pc \in {"store", "pull", "push"} /\ th'[x].gen = th[x].gen
    BY DEF MovesOn
  <2> QED
    BY <2>1, <2>2, <2>3 DEF OwnContext
<1>5. TornDown'
  BY DEF TornDown, Registered, MovesOn
<1>6. EndedIsHandled'
  BY DEF EndedIsHandled, RunsWork, Working
<1> QED
  BY <1>1, <1>2, <1>3, <1>4, <1>5, <1>6

LEMMA MovesOnSound ==
  ASSUME TypeInv, Sound, NEW t \in Threads, MovesOn(t), RunsWork,
         UNCHANGED <<sessions, pool, idOf, wired, handled, closeCh>>
  PROVE  Sound'
<1>1. Kept'
  BY MovesOnKeeps
<1>2. \A id \in Ids : Leaving(id) => Leaving(id)'
  BY DEF Leaving, MovesOn
<1>3. HandledLeaves'
  BY <1>2 DEF Sound, HandledLeaves, RunsWork, Working
<1> QED
  BY <1>1, <1>3 DEF Sound, Kept

(***************************************************************************)
(* The other ways th changes, as instances of MovesOn                      *)
(***************************************************************************)
LEMMA FinishMovesOn ==
  ASSUME TypeInv, NEW t \in Threads, Finish(t),
         th[t].pc \notin {"drop", "cancel", "delete"}
  PROVE  MovesOn(t)
<1>1. /\ \A x \in Threads \ {t} : th'[x] = th[x]
      /\ th'[t].pc = "idle" /\ th'[t].obj = NoObj
  BY FinishEffect DEF TypeInv, TypeOK
<1> QED
  BY <1>1 DEF MovesOn

LEMMA GotoMovesOn ==
  ASSUME TypeInv, NEW t \in Threads, NEW pc \in ThreadPcs, Goto(t, pc),
         pc # "store",
         pc \in {"pull", "push"} => th[t].pc \in {"pull", "push"},
         pc \in {"drop", "claim", "cancel", "delete"} =>
           \A k \in Ids : sessions[k] = th[t].obj => k = th[t].id,
         pc \in {"reset", "clear", "put"} => ~Registered(th[t].obj),
         th[t].pc \in {"drop", "cancel", "delete"} => pc \in {"drop", "cancel", "delete"}
  PROVE  MovesOn(t)
<1>1. /\ \A x \in Threads \ {t} : th'[x] = th[x]
      /\ th'[t].pc = pc /\ th'[t].id = th[t].id
      /\ th'[t].obj = th[t].obj /\ th'[t].gen = th[t].gen
  BY GotoEffect DEF TypeInv, TypeOK
<1> QED
  BY <1>1 DEF MovesOn

\* A session found in the map under id, by name.
LEMMA TakeMovesOn ==
  ASSUME TypeInv, Sound, NEW t \in Threads, NEW pc \in {"flag", "byid", "drop"},
         NEW id \in Ids, sessions[id] \in Objs, Take(t, pc, sessions[id]),
         pc = "drop" => th[t].id = id,
         th[t].pc \notin {"drop", "cancel", "delete"}
  PROVE  MovesOn(t)
<1>1. pc \in ThreadPcs /\ th \in [Threads -> ThreadState]
  BY DEF ThreadPcs, HandlerPcs, TypeInv, TypeOK
<1>2. /\ \A x \in Threads \ {t} : th'[x] = th[x]
      /\ th'[t].pc = pc /\ th'[t].id = th[t].id /\ th'[t].obj = sessions[id]
  BY <1>1, FindEffect
<1>3. Registered(sessions[id])
  BY DEF Registered
<1>4. \A k \in Ids : sessions[k] = sessions[id] => k = id
  BY DEF Sound, NamedByKey
<1> QED
  BY <1>2, <1>3, <1>4 DEF MovesOn

LEMMA TurnToMovesOn ==
  ASSUME TypeInv, Sound, NEW t \in Threads, NEW pc \in {"claim", "cancel"},
         NEW id \in Ids, sessions[id] \in Objs, TurnTo(t, pc, id),
         th[t].pc \notin {"drop", "cancel", "delete"}
  PROVE  MovesOn(t) /\ th'[t].pc = pc /\ th'[t].id = id
<1>1. pc \in ThreadPcs /\ th \in [Threads -> ThreadState]
  BY DEF ThreadPcs, RangePcs, TeardownPcs, TypeInv, TypeOK
<1>2. /\ \A x \in Threads \ {t} : th'[x] = th[x]
      /\ th'[t].pc = pc /\ th'[t].id = id /\ th'[t].obj = sessions[id]
  BY <1>1, TurnToEffect
<1>3. Registered(sessions[id])
  BY DEF Registered
<1>4. \A k \in Ids : sessions[k] = sessions[id] => k = id
  BY DEF Sound, NamedByKey
<1> QED
  BY <1>2, <1>3, <1>4 DEF MovesOn

(***************************************************************************)
(* Handlers: the steps that leave the map alone                            *)
(***************************************************************************)
LEMMA HandlerMovesSound ==
  ASSUME TypeInv, Sound, NEW c \in Callers,
         \/ \E op \in Ops, id \in Ids : Request(c, op, id)
         \/ LookupSession(c) \/ CheckAbsent(c) \/ OpenPuller(c) \/ PusherFails(c)
         \/ FindByID(c) \/ SetFlag(c) \/ Drop(c)
  PROVE  Sound'
<1>0. c \in Threads /\ HoldsWhatItNeeds(c)
  BY DEF Threads, TypeInv, Holding
<1> USE <1>0
<1>1. ASSUME NEW op \in Ops, NEW id \in Ids, Request(c, op, id) PROVE Sound'
  <2>1. /\ \A x \in Threads \ {c} : th'[x] = th[x]
        /\ th'[c].pc = "lookup" /\ th'[c].obj = NoObj
    BY <1>1 DEF Request, Resting, TypeInv, TypeOK
  <2>2. MovesOn(c)
    BY <1>1, <2>1 DEF Request, MovesOn
  <2> QED
    BY <1>1, <2>2, MovesOnSound, UnchangedRunsWork DEF Request, fields, identity
<1>2. CASE LookupSession(c)
  <2>1. th[c].pc = "lookup" /\ th[c].id \in Ids /\ th[c].op \in AllOps
    BY <1>2 DEF LookupSession, HoldsWhatItNeeds, HandlerPcs
  <2>2. MovesOn(c)
    <3>1. CASE Goto(c, "check")
      BY <2>1, <3>1, GotoMovesOn DEF ThreadPcs, HandlerPcs
    <3>2. CASE Finish(c)
      BY <2>1, <3>2, FinishMovesOn
    <3>3. CASE /\ sessions[th[c].id] # NoObj /\ th[c].op # "CreateSession"
               /\ Take(c, FoundPc[th[c].op], sessions[th[c].id])
      <4>1. sessions[th[c].id] \in Objs
        BY <2>1, <3>3 DEF TypeInv, TypeOK
      <4>2. FoundPc[th[c].op] \in {"flag", "byid", "drop"}
        BY <2>1, <3>3 DEF FoundPc, AllOps, Creating
      <4> QED
        BY <2>1, <3>3, <4>1, <4>2, TakeMovesOn
    <3> QED
      BY <1>2, <3>1, <3>2, <3>3 DEF LookupSession
  <2> QED
    BY <1>2, <2>2, MovesOnSound, UnchangedRunsWork DEF LookupSession, fields, identity
<1>3. CASE CheckAbsent(c)
  <2>1. MovesOn(c)
    <3>1. CASE Goto(c, "acquire")
      BY <1>3, <3>1, GotoMovesOn DEF CheckAbsent, ThreadPcs, HandlerPcs
    <3>2. CASE Finish(c)
      BY <1>3, <3>2, FinishMovesOn DEF CheckAbsent
    <3> QED
      BY <1>3, <3>1, <3>2 DEF CheckAbsent
  <2> QED
    BY <1>3, <2>1, MovesOnSound, UnchangedRunsWork DEF CheckAbsent, fields, identity
<1>4. CASE OpenPuller(c)
  <2>1. th[c].pc = "pull" /\ th[c].obj \in Objs
    BY <1>4 DEF OpenPuller, HoldsWhatItNeeds
  <2>2. MovesOn(c)
    BY <1>4, <2>1, GotoMovesOn DEF OpenPuller, ThreadPcs, HandlerPcs
  <2>3. RunsWork
    BY <1>4, <2>1, KilledRunsWork DEF OpenPuller
  <2> QED
    BY <1>4, <2>2, <2>3, MovesOnSound DEF OpenPuller, identity
<1>5. CASE PusherFails(c)
  <2>1. MovesOn(c)
    BY <1>5, FinishMovesOn DEF PusherFails
  <2> QED
    BY <1>5, <2>1, MovesOnSound, UnchangedRunsWork DEF PusherFails, identity
<1>6. CASE FindByID(c)
  <2>1. MovesOn(c)
    <3>1. CASE Finish(c)
      BY <1>6, <3>1, FinishMovesOn DEF FindByID
    <3>2. CASE ~Finish(c)
      <4>1. th[c].pc = "byid" /\ th[c].obj \in Objs
        BY <1>6 DEF FindByID, HoldsWhatItNeeds
      <4> DEFINE k == idOf[th[c].obj]
      <4>2. k \in Ids /\ sessions[k] \in Objs /\ Take(c, "flag", sessions[k])
        BY <1>6, <3>2, <4>1 DEF FindByID, Lookup, TypeInv, TypeOK
      <4> HIDE DEF k
      <4> QED
        BY <4>1, <4>2, TakeMovesOn
    <3> QED
      BY <3>1, <3>2
  <2> QED
    BY <1>6, <2>1, MovesOnSound, UnchangedRunsWork DEF FindByID, fields, identity
<1>7. CASE SetFlag(c)
  <2>1. MovesOn(c)
    BY <1>7, FinishMovesOn DEF SetFlag
  <2> QED
    BY <1>7, <2>1, MovesOnSound, UnchangedRunsWork DEF SetFlag, identity
<1>8. CASE Drop(c)
  <2>1. \A k \in Ids : sessions[k] = th[c].obj => k = th[c].id
    BY <1>8 DEF Drop, Sound, TornDown
  <2>2. MovesOn(c)
    BY <1>8, <2>1, GotoMovesOn DEF Drop, ThreadPcs, TeardownPcs
  <2> QED
    BY <1>8, <2>2, MovesOnSound, UnchangedRunsWork DEF Drop, identity
<1> QED
  BY <1>1, <1>2, <1>3, <1>4, <1>5, <1>6, <1>7, <1>8

(***************************************************************************)
(* Handlers: a new session                                                 *)
(***************************************************************************)
LEMMA AcquireSound ==
  ASSUME Recycle = FALSE, TypeInv, Sound, NEW c \in Callers, NEW g \in Gens,
         NEW o \in Objs, Acquire(c, g, o)
  PROVE  Sound'
<1> USE DEF Sound
<1>1. c \in Threads /\ th[c].pc = "acquire"
  BY DEF Threads, Acquire
<1>2. /\ \A x \in Threads \ {c} : th'[x] = th[x]
      /\ th'[c].pc = "store" /\ th'[c].id = th[c].id
      /\ th'[c].obj = o /\ th'[c].gen = g
  <2>1. "store" \in ThreadPcs /\ th \in [Threads -> ThreadState]
    BY DEF ThreadPcs, HandlerPcs, TypeInv, TypeOK
  <2>2. TakeNew(c, "store", o, g)
    BY DEF Acquire
  <2> QED
    BY <1>1, <2>1, <2>2, AcquireEffect
<1>3. /\ \A h \in Gens \ {g} : run'[h] = run[h]
      /\ run[g].pc = "none" /\ run'[g].pc = "held" /\ run'[g].obj = run[g].obj
  BY RunGotoEffect DEF Acquire, RunGoto, TypeInv, TypeOK, RunPcs
\* The object is new: nobody knows it.
<1>4. /\ ~wired[o] /\ UNCHANGED <<pool, sessions, handled, closeCh>>
      /\ \A p \in Objs : wired'[p] = (IF p = o THEN TRUE ELSE wired[p])
      /\ \A p \in Objs : idOf'[p] = (IF p = o THEN th[c].id ELSE idOf[p])
  BY DEF Acquire, TypeInv, TypeOK
<1>5. /\ ~Registered(o) /\ pool[o] = 0 /\ ~handled[o]
      /\ \A t \in Threads : th[t].obj # o
      /\ \A h \in Gens : run[h].obj # o
  BY <1>4 DEF OnlyWiredInUse
<1>6. \A x \in Threads :
        th[x].pc \in {"store", "pull", "push"} => th[x].gen \in Gens /\ th[x].obj \in Objs
  BY DEF TypeInv, Holding, HoldsWhatItNeeds
<1>7. OnlyWiredInUse'
  <2>1. ASSUME NEW p \in Objs, ~wired'[p] PROVE p # o /\ ~wired[p]
    BY <1>4, <2>1
  <2>2. ASSUME NEW p \in Objs, ~wired'[p]
        PROVE  /\ \A t \in Threads : th'[t].obj # p
               /\ \A h \in Gens : run'[h].obj # p
    BY <1>1, <1>2, <1>3, <2>1, <2>2 DEF OnlyWiredInUse
  <2>3. ASSUME NEW p \in Objs, ~wired'[p]
        PROVE  (\A k \in Ids : sessions'[k] # p) /\ pool'[p] = 0 /\ ~handled'[p]
    BY <1>4, <2>1, <2>3 DEF OnlyWiredInUse, Registered
  <2> QED
    BY <2>2, <2>3 DEF OnlyWiredInUse, Registered
<1>8. NamedByKey' /\ PooledUnregistered'
  BY <1>4, <1>5 DEF NamedByKey, PooledUnregistered, Registered
<1>9. CreatorAlone'
  BY <1>1, <1>2, <1>3, <1>4, <1>5, <1>6 DEF CreatorAlone, Registered
<1>10. OwnContext'
  BY <1>1, <1>2, <1>3, <1>6 DEF OwnContext
<1>11. TornDown'
  BY <1>1, <1>2, <1>4 DEF TornDown, Registered
<1>12. HandledLeaves'
  BY <1>1, <1>2, <1>3, <1>4 DEF HandledLeaves, Leaving
<1>13. EndedIsHandled'
  BY <1>3, <1>4 DEF EndedIsHandled
<1> QED
  BY <1>7, <1>8, <1>9, <1>10, <1>11, <1>12, <1>13

LEMMA StoreSessionSound ==
  ASSUME TypeInv, Sound, NEW c \in Callers, StoreSession(c)
  PROVE  Sound'
<1> USE DEF Sound
<1>1. c \in Threads /\ th[c].pc = "store" /\ th[c].id \in Ids /\ th[c].obj \in Objs
  BY DEF Threads, StoreSession, TypeInv, Holding, HoldsWhatItNeeds, HandlerPcs
<1>2. /\ \A x \in Threads \ {c} : th'[x] = th[x]
      /\ th'[c].pc = "pull" /\ th'[c].id = th[c].id
      /\ th'[c].obj = th[c].obj /\ th'[c].gen = th[c].gen
  BY <1>1, GotoEffect DEF StoreSession, TypeInv, TypeOK, ThreadPcs, HandlerPcs
<1>3. /\ UNCHANGED <<pool, idOf, wired, handled, closeCh, run>>
      /\ \A k \in Ids : sessions'[k] = (IF k = th[c].id THEN th[c].obj ELSE sessions[k])
  BY DEF StoreSession, fields, identity, TypeInv, TypeOK
<1>4. /\ idOf[th[c].obj] = th[c].id /\ ~handled[th[c].obj]
      /\ ~Registered(th[c].obj) /\ pool[th[c].obj] = 0
      /\ \A t \in Threads \ {c} : th[t].obj # th[c].obj
      /\ \A g \in Gens : run[g].obj # th[c].obj
  BY <1>1 DEF CreatorAlone
<1>5. OnlyWiredInUse'
  BY <1>1, <1>2, <1>3 DEF OnlyWiredInUse, Registered
<1>6. NamedByKey' /\ PooledUnregistered'
  BY <1>3, <1>4 DEF NamedByKey, PooledUnregistered, Registered
<1>7. CreatorAlone'
  BY <1>1, <1>2, <1>3, <1>4 DEF CreatorAlone, Registered
<1>8. OwnContext'
  BY <1>1, <1>2, <1>3 DEF OwnContext
<1>9. TornDown'
  BY <1>1, <1>2, <1>3, <1>4 DEF TornDown, Registered
<1>10. HandledLeaves'
  BY <1>1, <1>2, <1>3, <1>4 DEF HandledLeaves, Leaving
<1>11. EndedIsHandled'
  BY <1>3, <1>4 DEF EndedIsHandled
<1> QED
  BY <1>5, <1>6, <1>7, <1>8, <1>9, <1>10, <1>11

\* The entry of id goes, by a failed creation or by a teardown.
LEMMA EntryGoneSound ==
  ASSUME TypeInv, Sound, NEW t \in Threads, RunsWork,
         sessions' = [sessions EXCEPT ![th[t].id] = NoObj], th[t].id \in Ids,
         UNCHANGED <<pool, idOf, wired, handled, closeCh>>,
         \A x \in Threads \ {t} : th'[x] = th[x],
         th'[t].obj \in {th[t].obj, NoObj},
         th'[t].pc \in {"idle", "reset", "put"},
         th'[t].pc # "idle" => /\ th[t].pc = "delete" /\ th'[t].obj \in Objs
  PROVE  Sound'
<1> USE DEF Sound
<1>1. \A k \in Ids : sessions'[k] = (IF k = th[t].id THEN NoObj ELSE sessions[k])
  BY DEF TypeInv, TypeOK
<1>2. NoObj \notin Objs
  BY ConstantsAssumption
<1>3. \A o \in Objs : Registered(o)' => Registered(o)
  BY <1>1, <1>2 DEF Registered
<1>4. OnlyWiredInUse'
  BY <1>2, <1>3 DEF OnlyWiredInUse, RunsWork
<1>5. NamedByKey' /\ PooledUnregistered'
  BY <1>1, <1>2, <1>3 DEF NamedByKey, PooledUnregistered
<1>6. CreatorAlone'
  <2>1. \A x \in Threads : th[x].pc = "store" => th[x].obj \in Objs
    BY DEF TypeInv, Holding, HoldsWhatItNeeds
  <2> QED
    BY <1>2, <1>3, <2>1 DEF CreatorAlone, RunsWork
<1>7. OwnContext'
  <2>1. \A h \in Gens : run[h].pc = "held" => run'[h].pc = "held"
    BY DEF RunsWork, Working
  <2>2. \A x \in Threads : th[x].pc \in {"store", "pull", "push"} => th[x].gen \in Gens
    BY DEF TypeInv, Holding, HoldsWhatItNeeds
  <2> QED
    BY <2>1, <2>2 DEF OwnContext
<1>8. TornDown'
  <2>1. \A x \in Threads :
          /\ th[x].pc \in {"drop", "claim", "cancel", "delete"} => th[x].obj \in Objs
          /\ th[x].pc \in {"reset", "clear", "put"} => th[x].obj \in Objs
    BY DEF TypeInv, Holding, HoldsWhatItNeeds, TeardownPcs
  <2>2. ASSUME NEW x \in Threads \ {t}
        PROVE  /\ th'[x].pc \in {"drop", "claim", "cancel", "delete"} =>
                    \A k \in Ids : sessions'[k] = th'[x].obj => k = th'[x].id
               /\ th'[x].pc \in {"reset", "clear", "put"} =>
                    \A k \in Ids : sessions'[k] # th'[x].obj
    BY <1>1, <1>2, <2>1 DEF TornDown, Registered
  <2>3. th'[t].pc # "idle" => \A k \in Ids : sessions'[k] # th'[t].obj
    BY <1>1, <1>2, <2>1 DEF TornDown, Registered
  <2> QED
    BY <2>2, <2>3 DEF TornDown, Registered
<1>9. HandledLeaves'
  BY <1>1, <1>2 DEF HandledLeaves, Leaving, RunsWork, Working
<1>10. EndedIsHandled'
  <2>1. \A g \in Gens : run'[g].pc \in {"name", "send", "done"} => run[g].obj \in Objs
    BY DEF RunsWork, Working, TypeInv, Holding
  <2> QED
    BY <1>1, <1>2, <2>1 DEF EndedIsHandled, RunsWork, Working
<1> QED
  BY <1>4, <1>5, <1>6, <1>7, <1>8, <1>9, <1>10

LEMMA PullerFailsSound ==
  ASSUME TypeInv, Sound, NEW c \in Callers, PullerFails(c)
  PROVE  Sound'
<1>1. c \in Threads /\ th[c].pc = "pull" /\ th[c].id \in Ids /\ th[c].obj \in Objs
  BY DEF Threads, PullerFails, TypeInv, Holding, HoldsWhatItNeeds, HandlerPcs
<1>2. /\ \A x \in Threads \ {c} : th'[x] = th[x]
      /\ th'[c].pc = "idle" /\ th'[c].obj = NoObj
  BY <1>1, FinishEffect DEF PullerFails, TypeInv, TypeOK
<1>3. RunsWork
  BY <1>1, KilledRunsWork DEF PullerFails
<1> QED
  BY <1>1, <1>2, <1>3, EntryGoneSound DEF PullerFails, identity

LEMMA OpenPusherSound ==
  ASSUME TypeInv, Sound, NEW c \in Callers, OpenPusher(c)
  PROVE  Sound'
<1> USE DEF Sound
<1>1. /\ c \in Threads /\ th[c].pc = "push" /\ th[c].id \in Ids
      /\ th[c].obj \in Objs /\ th[c].gen \in Gens
  BY DEF Threads, OpenPusher, TypeInv, Holding, HoldsWhatItNeeds, HandlerPcs
<1>2. /\ \A x \in Threads \ {c} : th'[x] = th[x]
      /\ th'[c].pc \in {"idle", "byid"} /\ th'[c].obj \in {th[c].obj, NoObj}
  <2>1. CASE Finish(c)
    BY <1>1, <2>1, FinishEffect DEF TypeInv, TypeOK
  <2>2. CASE Goto(c, "byid")
    BY <1>1, <2>2, GotoEffect DEF TypeInv, TypeOK, ThreadPcs, HandlerPcs
  <2> QED
    BY <2>1, <2>2 DEF OpenPusher
<1>3. /\ \A h \in Gens \ {th[c].gen} : run'[h] = run[h]
      /\ run'[th[c].gen].pc = "start" /\ run'[th[c].gen].obj = th[c].obj
      /\ run[th[c].gen].pc = "held"
  BY <1>1 DEF OpenPusher, TypeInv, TypeOK, OwnContext
<1>4. UNCHANGED <<sessions, pool, idOf, wired, handled, closeCh>>
  BY DEF OpenPusher, identity
<1>5. OnlyWiredInUse'
  BY <1>1, <1>2, <1>3, <1>4, ConstantsAssumption DEF OnlyWiredInUse, Registered
<1>6. NamedByKey' /\ PooledUnregistered'
  BY <1>4 DEF NamedByKey, PooledUnregistered, Registered
<1>7. CreatorAlone'
  <2>1. \A x \in Threads : th[x].pc = "store" => th[x].obj \in Objs
    BY DEF TypeInv, Holding, HoldsWhatItNeeds
  <2> QED
    BY <1>1, <1>2, <1>3, <1>4, <2>1, ConstantsAssumption DEF CreatorAlone, Registered
<1>8. OwnContext'
  <2>1. \A x \in Threads : th[x].pc \in {"store", "pull", "push"} => th[x].gen \in Gens
    BY DEF TypeInv, Holding, HoldsWhatItNeeds
  <2> QED
    BY <1>1, <1>2, <1>3, <2>1 DEF OwnContext
<1>9. TornDown'
  BY <1>2, <1>4 DEF TornDown, Registered
<1>10. HandledLeaves'
  BY <1>1, <1>2, <1>3, <1>4 DEF HandledLeaves, Leaving
<1>11. EndedIsHandled'
  BY <1>3, <1>4 DEF EndedIsHandled
<1> QED
  BY <1>5, <1>6, <1>7, <1>8, <1>9, <1>10, <1>11

(***************************************************************************)
(* Teardown                                                                *)
(***************************************************************************)
LEMMA CancelSessionSound ==
  ASSUME TypeInv, Sound, NEW t \in Threads, CancelSession(t)
  PROVE  Sound'
<1>1. \A k \in Ids : sessions[k] = th[t].obj => k = th[t].id
  BY DEF CancelSession, Sound, TornDown
<1>2. MovesOn(t)
  BY <1>1, GotoMovesOn DEF CancelSession, ThreadPcs, TeardownPcs
<1> QED
  BY <1>2, MovesOnSound, UnchangedRunsWork DEF CancelSession, fields, identity

LEMMA DeleteEntrySound ==
  ASSUME TypeInv, Sound, NEW t \in Threads, DeleteEntry(t)
  PROVE  Sound'
<1>1. th[t].pc = "delete" /\ th[t].id \in Ids /\ th[t].obj \in Objs
  BY DEF DeleteEntry, TypeInv, Holding, HoldsWhatItNeeds, TeardownPcs
<1>2. /\ \A x \in Threads \ {t} : th'[x] = th[x]
      /\ th'[t].pc \in {"put", "reset"} /\ th'[t].obj = th[t].obj
  <2>1. ASSUME NEW pc \in {"put", "reset"}, Goto(t, pc)
        PROVE  /\ \A x \in Threads \ {t} : th'[x] = th[x]
               /\ th'[t].pc = pc /\ th'[t].obj = th[t].obj
    BY <2>1, GotoEffect DEF TypeInv, TypeOK, ThreadPcs, TeardownPcs
  <2> QED
    BY <2>1 DEF DeleteEntry
<1> QED
  BY <1>1, <1>2, EntryGoneSound, UnchangedRunsWork DEF DeleteEntry, fields, identity

\* What the last steps of a teardown know of its session.
LEMMA TornDownAlone ==
  ASSUME TypeInv, Sound, NEW t \in Threads, th[t].pc \in {"reset", "clear", "put"}
  PROVE  /\ th[t].obj \in Objs /\ ~Registered(th[t].obj) /\ wired[th[t].obj]
         /\ \A c \in Threads : th[c].pc = "store" => th[c].obj # th[t].obj
<1>1. th[t].obj \in Objs
  BY DEF TypeInv, Holding, HoldsWhatItNeeds, TeardownPcs
<1>2. ~Registered(th[t].obj)
  BY DEF Sound, TornDown
<1>3. wired[th[t].obj]
  BY <1>1 DEF Sound, OnlyWiredInUse
<1>4. \A c \in Threads : th[c].pc = "store" => th[c].obj # th[t].obj
  BY DEF Sound, CreatorAlone
<1> QED
  BY <1>1, <1>2, <1>3, <1>4

LEMMA ResetFlagsSound ==
  ASSUME TypeInv, Sound, NEW t \in Threads, ResetFlags(t)
  PROVE  Sound'
<1> USE DEF Sound
<1>1. th[t].pc = "reset"
  BY DEF ResetFlags
<1>2. /\ th[t].obj \in Objs /\ ~Registered(th[t].obj) /\ wired[th[t].obj]
      /\ \A c \in Threads : th[c].pc = "store" => th[c].obj # th[t].obj
  BY <1>1, TornDownAlone
<1>3. /\ \A x \in Threads \ {t} : th'[x] = th[x]
      /\ th'[t].pc = "clear" /\ th'[t].obj = th[t].obj
  BY GotoEffect DEF ResetFlags, TypeInv, TypeOK, ThreadPcs, TeardownPcs
<1>4. /\ UNCHANGED <<sessions, pool, idOf, wired, closeCh, run>>
      /\ \A o \in Objs : handled'[o] = (IF o = th[t].obj THEN FALSE ELSE handled[o])
  BY DEF ResetFlags, identity, TypeInv, TypeOK
<1>5. OnlyWiredInUse'
  BY <1>3, <1>4 DEF OnlyWiredInUse, Registered
<1>6. NamedByKey' /\ PooledUnregistered'
  BY <1>4 DEF NamedByKey, PooledUnregistered, Registered
<1>7. CreatorAlone'
  <2>1. \A x \in Threads : th[x].pc = "store" => th[x].obj \in Objs
    BY DEF TypeInv, Holding, HoldsWhatItNeeds
  <2> QED
    <3>1. ASSUME NEW c \in Threads, th'[c].pc = "store"
          PROVE  th'[c] = th[c] /\ c # t /\ th[c].obj \in Objs
      BY <1>3, <2>1, <3>1
    <3>2. ASSUME NEW c \in Threads, th'[c].pc = "store"
          PROVE  /\ idOf'[th'[c].obj] = th'[c].id /\ ~handled'[th'[c].obj]
                 /\ (\A k \in Ids : sessions'[k] # th'[c].obj) /\ pool'[th'[c].obj] = 0
      <4>1. th[c].pc = "store" /\ th'[c] = th[c] /\ th[c].obj \in Objs
        BY <3>1, <3>2
      <4>2. /\ idOf[th[c].obj] = th[c].id /\ ~handled[th[c].obj]
            /\ ~Registered(th[c].obj) /\ pool[th[c].obj] = 0
        BY <4>1 DEF CreatorAlone
      <4> QED
        BY <1>4, <4>1, <4>2 DEF Registered
    <3>3. ASSUME NEW c \in Threads, th'[c].pc = "store"
          PROVE  /\ \A x \in Threads \ {c} : th'[x].obj # th'[c].obj
                 /\ \A g \in Gens : run'[g].obj # th'[c].obj
      BY <1>2, <1>3, <1>4, <3>1, <3>3 DEF CreatorAlone
    <3> QED
      BY <3>2, <3>3 DEF CreatorAlone, Registered
<1>8. OwnContext'
  BY <1>3, <1>4 DEF OwnContext
<1>9. TornDown'
  BY <1>2, <1>3, <1>4 DEF TornDown, Registered
<1>10. HandledLeaves'
  <2>1. \A id \in Ids : Leaving(id) => Leaving(id)'
    BY <1>1, <1>3, <1>4 DEF Leaving
  <2>2. \A o \in Objs : handled'[o] => handled[o]
    BY <1>4
  <2> QED
    BY <1>4, <2>1, <2>2 DEF HandledLeaves
<1>11. EndedIsHandled'
  <2>1. \A g \in Gens : run[g].pc \in {"name", "send", "done"} => run[g].obj \in Objs
    BY DEF TypeInv, Holding
  <2> QED
    BY <1>2, <1>4, <2>1 DEF EndedIsHandled, Registered
<1> QED
  BY <1>5, <1>6, <1>7, <1>8, <1>9, <1>10, <1>11

LEMMA ResetFieldsSound ==
  ASSUME TypeInv, Sound, NEW t \in Threads, ResetFields(t)
  PROVE  Sound'
<1> USE DEF Sound
<1>1. th[t].pc = "clear"
  BY DEF ResetFields
<1>2. /\ th[t].obj \in Objs /\ ~Registered(th[t].obj) /\ wired[th[t].obj]
      /\ \A c \in Threads : th[c].pc = "store" => th[c].obj # th[t].obj
  BY <1>1, TornDownAlone
<1>3. /\ \A x \in Threads \ {t} : th'[x] = th[x]
      /\ th'[t].pc = "put" /\ th'[t].obj = th[t].obj
  BY GotoEffect DEF ResetFields, TypeInv, TypeOK, ThreadPcs, TeardownPcs
<1>4. /\ UNCHANGED <<sessions, pool, wired, handled, closeCh>>
      /\ \A o \in Objs : idOf'[o] = (IF o = th[t].obj THEN NoId ELSE idOf[o])
  BY DEF ResetFields, TypeInv, TypeOK
<1>5. RunsWork
  BY <1>2, KilledRunsWork DEF ResetFields
<1>6. OnlyWiredInUse'
  BY <1>3, <1>4, <1>5 DEF OnlyWiredInUse, Registered, RunsWork
<1>7. NamedByKey' /\ PooledUnregistered'
  BY <1>2, <1>4 DEF NamedByKey, PooledUnregistered, Registered
<1>8. CreatorAlone'
  <2>1. \A x \in Threads : th[x].pc = "store" => th[x].obj \in Objs
    BY DEF TypeInv, Holding, HoldsWhatItNeeds
  <2> QED
    BY <1>2, <1>3, <1>4, <1>5, <2>1 DEF CreatorAlone, Registered, RunsWork
<1>9. OwnContext'
  <2>1. \A h \in Gens : run[h].pc = "held" => run'[h].pc = "held"
    BY <1>5 DEF RunsWork, Working
  <2>2. \A x \in Threads : th[x].pc \in {"store", "pull", "push"} => th[x].gen \in Gens
    BY DEF TypeInv, Holding, HoldsWhatItNeeds
  <2> QED
    BY <1>3, <2>1, <2>2 DEF OwnContext
<1>10. TornDown'
  BY <1>2, <1>3, <1>4 DEF TornDown, Registered
<1>11. HandledLeaves'
  BY <1>1, <1>3, <1>4, <1>5 DEF HandledLeaves, Leaving, RunsWork, Working
<1>12. EndedIsHandled'
  BY <1>4, <1>5 DEF EndedIsHandled, RunsWork, Working
<1> QED
  BY <1>6, <1>7, <1>8, <1>9, <1>10, <1>11, <1>12

LEMMA PutBackSound ==
  ASSUME TypeInv, Sound, NEW t \in Threads, PutBack(t)
  PROVE  Sound'
<1> USE DEF Sound
<1>1. th[t].pc = "put"
  BY DEF PutBack
<1>2. /\ th[t].obj \in Objs /\ ~Registered(th[t].obj) /\ wired[th[t].obj]
      /\ \A c \in Threads : th[c].pc = "store" => th[c].obj # th[t].obj
  BY <1>1, TornDownAlone
<1>3. /\ \A x \in Threads \ {t} : th'[x] = th[x]
      /\ th'[t].pc \in {"idle", "range"} /\ th'[t].obj = NoObj
  <2>1. CASE RangeOn(t)
    BY <2>1, RangeOnEffect DEF TypeInv, TypeOK
  <2>2. CASE Finish(t)
    BY <2>2, FinishEffect DEF TypeInv, TypeOK
  <2> QED
    BY <2>1, <2>2 DEF PutBack
<1>4. /\ UNCHANGED <<sessions, idOf, wired, handled, closeCh, run>>
      /\ \A o \in Objs : pool'[o] = (IF o = th[t].obj THEN pool[o] + 1 ELSE pool[o])
  BY DEF PutBack, fields, identity, TypeInv, TypeOK
<1>5. NoObj \notin Objs
  BY ConstantsAssumption
<1>6. OnlyWiredInUse'
  BY <1>2, <1>3, <1>4, <1>5 DEF OnlyWiredInUse, Registered
<1>7. NamedByKey' /\ PooledUnregistered'
  BY <1>2, <1>4 DEF NamedByKey, PooledUnregistered, Registered
<1>8. CreatorAlone'
  <2>1. \A x \in Threads : th[x].pc = "store" => th[x].obj \in Objs
    BY DEF TypeInv, Holding, HoldsWhatItNeeds
  <2> QED
    BY <1>2, <1>3, <1>4, <1>5, <2>1 DEF CreatorAlone, Registered
<1>9. OwnContext'
  BY <1>3, <1>4 DEF OwnContext
<1>10. TornDown'
  BY <1>2, <1>3, <1>4 DEF TornDown, Registered
<1>11. HandledLeaves'
  BY <1>1, <1>3, <1>4 DEF HandledLeaves, Leaving
<1>12. EndedIsHandled'
  BY <1>4 DEF EndedIsHandled
<1> QED
  BY <1>6, <1>7, <1>8, <1>9, <1>10, <1>11, <1>12

LEMMA TeardownSound ==
  ASSUME TypeInv, Sound, NEW t \in Threads, TeardownStep(t)
  PROVE  Sound'
  BY CancelSessionSound, DeleteEntrySound, ResetFlagsSound, ResetFieldsSound, PutBackSound
  DEF TeardownStep

(***************************************************************************)
(* The goroutines of the manager                                           *)
(***************************************************************************)
LEMMA RangeSound ==
  ASSUME TypeInv, Sound, NEW t \in Threads, RangeStep(t)
  PROVE  Sound'
<1>1. ASSUME NEW id \in Ids, Skip(t, id) PROVE Sound'
  <2>1. /\ \A x \in Threads \ {t} : th'[x] = th[x]
        /\ th'[t].pc = "range" /\ th'[t].obj = th[t].obj
    BY <1>1, SkipEffect DEF Skip, TypeInv, TypeOK
  <2>2. MovesOn(t)
    BY <1>1, <2>1 DEF Skip, MovesOn
  <2> QED
    BY <1>1, <2>2, MovesOnSound, UnchangedRunsWork DEF Skip, fields, identity
<1>2. ASSUME NEW id \in Ids, Visit(t, id) PROVE Sound'
  <2>1. sessions[id] \in Objs /\ th[t].pc = "range"
    BY <1>2 DEF Visit, TypeInv, TypeOK
  <2>2. MovesOn(t)
    <3>1. ASSUME NEW pc \in {"claim", "cancel"}, TurnTo(t, pc, id) PROVE MovesOn(t)
      BY <2>1, <3>1, TurnToMovesOn
    <3> QED
      BY <1>2, <3>1 DEF Visit
  <2> QED
    BY <1>2, <2>2, MovesOnSound, UnchangedRunsWork DEF Visit, fields, identity
<1> QED
  BY <1>1, <1>2 DEF RangeStep

\* The steps of the manager's goroutines that only move on.
LEMMA ManagerMovesSound ==
  ASSUME TypeInv, Sound,
         (\E t \in Threads : StopLoop(t)) \/ Tick \/ EndTick \/ StartClose \/ EndClose
  PROVE  Sound'
<1>0. Ticker \in Threads /\ Closer \in Threads
  BY DEF Threads, Managers
<1>1. ASSUME NEW t \in Threads, StopLoop(t) PROVE Sound'
  <2>1. MovesOn(t)
    BY <1>1, GotoMovesOn DEF StopLoop, ThreadPcs
  <2> QED
    BY <1>1, <2>1, MovesOnSound, UnchangedRunsWork DEF StopLoop, fields, identity
<1>2. ASSUME NEW t \in Threads, th[t].pc = "idle", StartRange(t)
      PROVE  MovesOn(t)
  <2>1. /\ \A x \in Threads \ {t} : th'[x] = th[x]
        /\ th'[t].pc = "range" /\ th'[t].obj = th[t].obj
    BY <1>2, StartRangeEffect DEF TypeInv, TypeOK
  <2> QED
    BY <1>2, <2>1 DEF MovesOn
<1>3. CASE Tick
  BY <1>0, <1>2, <1>3, MovesOnSound, UnchangedRunsWork DEF Tick, fields, identity
<1>4. CASE StartClose
  BY <1>0, <1>2, <1>4, MovesOnSound, UnchangedRunsWork DEF StartClose, fields, identity
<1>5. CASE EndTick
  <2>1. MovesOn(Ticker)
    BY <1>0, <1>5, FinishMovesOn DEF EndTick
  <2> QED
    BY <1>0, <1>5, <2>1, MovesOnSound, UnchangedRunsWork DEF EndTick, fields, identity
<1>6. CASE EndClose
  <2>1. MovesOn(Closer)
    BY <1>0, <1>6, GotoMovesOn DEF EndClose, ThreadPcs
  <2> QED
    BY <1>0, <1>6, <2>1, MovesOnSound, UnchangedRunsWork DEF EndClose, fields, identity
<1> QED
  BY <1>1, <1>3, <1>4, <1>5, <1>6

LEMMA ClaimSound ==
  ASSUME TypeInv, Sound, Claim
  PROVE  Sound'
<1> USE DEF Sound
<1>0. Ticker \in Threads
  BY DEF Threads, Managers
<1>a. th[Ticker].pc = "claim" /\ th[Ticker].obj \in Objs /\ th[Ticker].id \in Ids
  BY <1>0 DEF Claim, TypeInv, Holding, HoldsWhatItNeeds
<1>b. PICK o \in Objs : th[Ticker].obj = o
  BY <1>a
<1>c. PICK id \in Ids : th[Ticker].id = id
  BY <1>a
<1>1. th[Ticker].pc = "claim" /\ th[Ticker].obj = o /\ th[Ticker].id = id
  BY <1>a, <1>b, <1>c
<1>2. CASE handled[o]
  <2>1. MovesOn(Ticker)
    <3>1. /\ \A x \in Threads \ {Ticker} : th'[x] = th[x]
          /\ th'[Ticker].pc = "range" /\ th'[Ticker].obj = NoObj
      BY <1>0, <1>2, <1>1, RangeOnEffect DEF Claim, TypeInv, TypeOK
    <3> QED
      BY <1>1, <3>1 DEF MovesOn
  <2>2. UNCHANGED handled
    BY <1>1, <1>2 DEF Claim
  <2> QED
    BY <1>0, <2>1, <2>2, MovesOnSound, UnchangedRunsWork DEF Claim, identity
<1>3. CASE ~handled[o]
  <2>1. /\ \A x \in Threads \ {Ticker} : th'[x] = th[x]
        /\ th'[Ticker].pc = "cancel" /\ th'[Ticker].obj = o
        /\ th'[Ticker].id = id
    BY <1>0, <1>1, <1>3, GotoEffect DEF Claim, TypeInv, TypeOK, ThreadPcs, TeardownPcs
  <2>2. /\ UNCHANGED <<sessions, pool, idOf, wired, closeCh, run>>
        /\ \A p \in Objs : handled'[p] => p = o \/ handled[p]
        /\ \A p \in Objs : handled[p] => handled'[p]
    BY <1>1, <1>3 DEF Claim, identity, TypeInv, TypeOK
  <2>3. \A k \in Ids : sessions[k] = o => k = id
    BY <1>0, <1>1 DEF TornDown
  <2>4. OnlyWiredInUse'
    <3>1. wired[o]
      BY <1>0, <1>1 DEF OnlyWiredInUse
    <3>2. \A x \in Threads : th'[x].obj = th[x].obj
      BY <1>1, <2>1
    <3> QED
      BY <2>2, <3>1, <3>2 DEF OnlyWiredInUse, Registered
  <2>5. NamedByKey' /\ PooledUnregistered'
    BY <2>2 DEF NamedByKey, PooledUnregistered, Registered
  <2>6. CreatorAlone'
    <3>1. \A c \in Threads : th'[c].pc = "store" =>
            c # Ticker /\ th'[c] = th[c] /\ th[c].obj \in Objs /\ th[c].obj # o
      BY <1>0, <1>1, <2>1 DEF CreatorAlone, TypeInv, Holding, HoldsWhatItNeeds
    <3>2. \A x \in Threads : th'[x].obj = th[x].obj
      BY <1>1, <2>1
    <3>3. ASSUME NEW c \in Threads, th'[c].pc = "store"
          PROVE  /\ idOf'[th'[c].obj] = th'[c].id /\ ~handled'[th'[c].obj]
                 /\ (\A k \in Ids : sessions'[k] # th'[c].obj) /\ pool'[th'[c].obj] = 0
      <4>1. th[c].pc = "store" /\ th'[c] = th[c] /\ th[c].obj \in Objs /\ th[c].obj # o
        BY <3>1, <3>3
      <4>2. /\ idOf[th[c].obj] = th[c].id /\ ~handled[th[c].obj]
            /\ ~Registered(th[c].obj) /\ pool[th[c].obj] = 0
        BY <4>1 DEF CreatorAlone
      <4> QED
        BY <2>2, <4>1, <4>2 DEF Registered
    <3>4. ASSUME NEW c \in Threads, th'[c].pc = "store"
          PROVE  /\ \A x \in Threads \ {c} : th'[x].obj # th'[c].obj
                 /\ \A g \in Gens : run'[g].obj # th'[c].obj
      BY <2>2, <3>1, <3>2, <3>4 DEF CreatorAlone
    <3> QED
      BY <3>3, <3>4 DEF CreatorAlone, Registered
  <2>7. OwnContext'
    BY <2>1, <2>2 DEF OwnContext
  <2>8. TornDown'
    BY <2>1, <2>2, <2>3 DEF TornDown, Registered
  <2>9. HandledLeaves'
    <3>1. \A k \in Ids : Leaving(k) => Leaving(k)'
      BY <1>1, <2>1, <2>2 DEF Leaving
    <3>2. Leaving(id)'
      BY <1>0, <2>1 DEF Leaving
    <3> QED
      BY <2>2, <2>3, <3>1, <3>2 DEF HandledLeaves
  <2>10. EndedIsHandled'
    BY <2>2 DEF EndedIsHandled, TypeInv, Holding
  <2> QED
    BY <2>4, <2>5, <2>6, <2>7, <2>8, <2>9, <2>10
<1> QED
  BY <1>2, <1>3

LEMMA ReceiveSound ==
  ASSUME TypeInv, Sound, Receive
  PROVE  Sound'
<1> USE DEF Sound
<1>0. Receiver \in Threads
  BY DEF Threads, Managers
<1> DEFINE n == Len(closeCh)
<1>1. /\ closeCh \in Seq(Ids \cup {NoId}) /\ closeCh # <<>> /\ n \in Nat /\ n > 0
      /\ closeCh' = Tail(closeCh) /\ Len(closeCh') = n - 1
      /\ \A i \in 1..n - 1 : closeCh'[i] = closeCh[i + 1]
      /\ Head(closeCh) = closeCh[1]
  BY HeadTailProperties, LenProperties, EmptySeq DEF Receive, TypeInv, TypeOK
<1>2. UNCHANGED <<sessions, pool, idOf, wired, handled, run>>
  BY DEF Receive, fields, identity
\* Only the id received may lose its notice.
<1>3. ASSUME NEW id \in Ids, NEW i \in 1..n, closeCh[i] = id, id # Head(closeCh)
      PROVE  \E j \in 1..Len(closeCh') : closeCh'[j] = id
  <2>1. i - 1 \in 1..n - 1 /\ closeCh'[i - 1] = closeCh[i]
    <3>1. i # 1
      BY <1>1, <1>3
    <3> QED
      BY <1>1, <3>1
  <2> QED
    BY <1>1, <1>3, <2>1
<1> HIDE DEF n
<1>4. CASE UNCHANGED th /\ Lookup(Head(closeCh)) = NoObj
  <2>1. \A id \in Ids : sessions[id] # NoObj => (Leaving(id) => Leaving(id)')
    BY <1>3, <1>4 DEF Leaving, Lookup, n
  <2>2. OnlyWiredInUse' /\ NamedByKey' /\ CreatorAlone' /\ OwnContext' /\ TornDown'
        /\ EndedIsHandled' /\ PooledUnregistered'
    BY <1>2, <1>4
    DEF OnlyWiredInUse, NamedByKey, CreatorAlone, OwnContext, TornDown, EndedIsHandled,
        PooledUnregistered, Registered
  <2>3. HandledLeaves'
    BY <1>2, <2>1, ConstantsAssumption DEF HandledLeaves
  <2> QED
    BY <2>2, <2>3
<1>5. CASE TurnTo(Receiver, "cancel", Head(closeCh)) /\ Lookup(Head(closeCh)) # NoObj
  <2>1. Head(closeCh) \in Ids /\ sessions[Head(closeCh)] \in Objs
    BY <1>5 DEF Lookup, TypeInv, TypeOK
  <2>2. PICK k \in Ids : Head(closeCh) = k
    BY <2>1
  <2>3. th[Receiver].pc = "idle"
    BY DEF Receive
  <2>4. MovesOn(Receiver) /\ th'[Receiver].pc = "cancel" /\ th'[Receiver].id = k
    BY <1>0, <1>5, <2>1, <2>2, <2>3, TurnToMovesOn
  <2>5. \A id \in Ids : Leaving(id) => Leaving(id)'
    <3>1. ASSUME NEW id \in Ids, NEW t \in Threads, th[t].id = id,
                 th[t].pc \in {"drop", "cancel", "delete"}
          PROVE  th'[t] = th[t]
      BY <2>3, <2>4, <3>1 DEF MovesOn
    <3>2. ASSUME NEW id \in Ids, NEW i \in 1..Len(closeCh), closeCh[i] = id
          PROVE  Leaving(id)'
      BY <1>0, <1>3, <2>2, <2>4, <3>2 DEF Leaving, n
    <3> QED
      BY <3>1, <3>2 DEF Leaving
  <2>6. RunsWork
    BY <1>2, UnchangedRunsWork
  <2>7. HandledLeaves'
    BY <1>2, <2>5 DEF HandledLeaves
  <2>8. OnlyWiredInUse' /\ NamedByKey' /\ CreatorAlone' /\ OwnContext' /\ TornDown'
        /\ EndedIsHandled' /\ PooledUnregistered'
    BY <1>0, <1>2, <2>4, <2>6, MovesOnKeeps DEF Kept
  <2> QED
    BY <2>7, <2>8
<1> QED
  BY <1>4, <1>5 DEF Receive

(***************************************************************************)
(* Session.Run and the recorder                                            *)
(***************************************************************************)
\* The steps of Run before it claims handledClose.
LEMMA RunWorkSound ==
  ASSUME TypeInv, Sound, NEW g \in Gens,
         RunStart(g) \/ RunCannotStart(g) \/ RunHead(g) \/ RunStops(g) \/ RunUpdates(g)
         \/ RunReopens(g) \/ RunClean(g) \/ RunFrame(g) \/ RunEOF(g) \/ RunFails(g)
  PROVE  Sound'
<1>1. /\ run[g].obj \in Objs /\ run[g].pc \in Working
      /\ UNCHANGED <<sessions, pool, idOf, wired, handled, closeCh, th>>
  BY DEF RunStart, RunCannotStart, RunHead, RunStops, RunUpdates, RunReopens, RunClean,
         RunFrame, RunEOF, RunFails, Working, TypeInv, Holding, fields, identity
<1>2. RunsWork
  <2>1. ASSUME NEW pc \in Working, RunGoto(g, pc) PROVE RunsWork
    <3>1. pc \in RunPcs
      BY DEF Working, RunPcs
    <3>2. run \in [Gens -> RunState]
      BY DEF TypeInv, TypeOK
    <3>3. /\ \A h \in Gens \ {g} : run'[h] = run[h]
          /\ run'[g].pc = pc /\ run'[g].obj = run[g].obj /\ run'[g].msg = run[g].msg
      BY <2>1, <3>1, <3>2, RunGotoEffect
    <3>4. {run[g].pc, run'[g].pc} \subseteq Working
      BY <1>1, <3>3
    <3> QED
      BY <3>3, <3>4 DEF RunsWork
  <2>2. ASSUME NEW pc \in Working, run' = [PullerKilled(run[g].obj) EXCEPT ![g].pc = pc]
        PROVE  RunsWork
    <3>1. pc \in RunPcs /\ {"read", "eof"} \subseteq Working
      BY DEF Working, RunPcs
    <3>2. run \in [Gens -> RunState]
      BY DEF TypeInv, TypeOK
    <3>3. /\ \A h \in Gens : run'[h].obj = run[h].obj /\ run'[h].msg = run[h].msg
          /\ \A h \in Gens \ {g} : \/ run'[h].pc = run[h].pc
                                   \/ run[h].pc = "read" /\ run'[h].pc = "eof"
          /\ run'[g].pc = pc
      BY <1>1, <2>2, <3>1, <3>2, KilledGotoEffect
    <3> QED
      BY <1>1, <3>1, <3>3 DEF RunsWork
  <2>3. run' = PullerKilled(run[g].obj) => RunsWork
    BY <1>1, KilledRunsWork
  <2>4. {"loop", "clean", "read", "eof", "mark"} \subseteq Working
    BY DEF Working
  <2> QED
    BY <2>1, <2>2, <2>3, <2>4
    DEF RunStart, RunCannotStart, RunHead, RunStops, RunUpdates, RunReopens, RunClean,
        RunFrame, RunEOF, RunFails
<1> QED
  BY <1>1, <1>2, RunsWorkSound

LEMMA RecorderSound ==
  ASSUME TypeInv, Sound, NEW o \in Objs, RecorderStep(o)
  PROVE  Sound'
<1>1. UNCHANGED <<sessions, pool, idOf, wired, handled, closeCh, th>>
  BY DEF RecorderStep, RecorderHead, RecorderEnds, RecorderSegment, RecorderFails,
         RecorderAsks, RecorderReopens, fields, identity
<1>2. run' = run \/ run' = PullerKilled(o)
  BY DEF RecorderStep, RecorderHead, RecorderEnds, RecorderSegment, RecorderFails,
         RecorderAsks, RecorderReopens
<1> QED
  BY <1>1, <1>2, KilledRunsWork, UnchangedRunsWork, RunsWorkSound

LEMMA RunMarkSound ==
  ASSUME TypeInv, Sound, NEW g \in Gens, RunMark(g)
  PROVE  Sound'
<1> USE DEF Sound
<1>a. run[g].pc = "mark" /\ run[g].obj \in Objs
  BY DEF RunMark, TypeInv, Holding
<1>1. PICK o \in Objs : run[g].obj = o
  BY <1>a
<1>2. /\ \A h \in Gens \ {g} : run'[h] = run[h]
      /\ run'[g].pc \in {"name", "done"} /\ run'[g].obj = o
      /\ ~handled[o] => run'[g].pc = "name"
  <2>1. ASSUME NEW pc \in {"name", "done"}, RunGoto(g, pc)
        PROVE  /\ \A h \in Gens \ {g} : run'[h] = run[h]
               /\ run'[g].pc = pc /\ run'[g].obj = o
    BY <1>1, <2>1, RunGotoEffect DEF TypeInv, TypeOK, RunPcs
  <2> QED
    BY <1>1, <2>1 DEF RunMark
<1>3. /\ UNCHANGED <<sessions, pool, idOf, wired, closeCh, th>>
      /\ \A p \in Objs : handled'[p] => p = o \/ handled[p]
      /\ \A p \in Objs : handled[p] => handled'[p]
      /\ handled'[o]
  BY <1>1 DEF RunMark, identity, TypeInv, TypeOK
<1>4. OnlyWiredInUse'
  <2>1. wired[o]
    BY <1>1 DEF OnlyWiredInUse
  <2>2. \A h \in Gens : run'[h].obj = run[h].obj
    BY <1>1, <1>2
  <2> QED
    BY <1>3, <2>1, <2>2 DEF OnlyWiredInUse, Registered
<1>5. NamedByKey' /\ PooledUnregistered' /\ TornDown'
  BY <1>3 DEF NamedByKey, PooledUnregistered, TornDown, Registered
<1>6. CreatorAlone'
  <2>1. \A c \in Threads : th[c].pc = "store" => th[c].obj \in Objs /\ th[c].obj # o
    BY <1>1 DEF CreatorAlone, TypeInv, Holding, HoldsWhatItNeeds
  <2>2. \A h \in Gens : run'[h].obj = run[h].obj
    BY <1>1, <1>2
  <2> QED
    BY <1>3, <2>1, <2>2 DEF CreatorAlone, Registered
<1>7. OwnContext'
  <2>1. \A h \in Gens : run[h].pc = "held" => run'[h].pc = "held"
    BY <1>a, <1>2
  <2>2. \A x \in Threads : th[x].pc \in {"store", "pull", "push"} => th[x].gen \in Gens
    BY DEF TypeInv, Holding, HoldsWhatItNeeds
  <2> QED
    BY <1>3, <2>1, <2>2 DEF OwnContext
<1>8. HandledLeaves'
  <2>1. \A id \in Ids : Leaving(id) => Leaving(id)'
    BY <1>3 DEF Leaving
  <2>2. ASSUME NEW id \in Ids, NEW p \in Objs, sessions[id] = p, handled[p]
        PROVE  \/ Leaving(id)'
               \/ \E h \in Gens : /\ run'[h].obj = p
                                 /\ \/ run'[h].pc = "name"
                                    \/ run'[h].pc = "send" /\ run'[h].msg = id
    BY <1>a, <1>2, <2>1, <2>2 DEF HandledLeaves
  <2> QED
    BY <1>2, <1>3, <2>2 DEF HandledLeaves
<1>9. EndedIsHandled'
  <2>1. \A h \in Gens : run[h].pc \in {"name", "send", "done"} => run[h].obj \in Objs
    BY DEF TypeInv, Holding
  <2> QED
    BY <1>2, <1>3, <2>1 DEF EndedIsHandled
<1> QED
  BY <1>4, <1>5, <1>6, <1>7, <1>8, <1>9

\* Run names or sends what it owes; then the notice is in closeCh.
LEMMA RunSendSound ==
  ASSUME TypeInv, Sound, NEW g \in Gens, RunName(g) \/ RunSend(g)
  PROVE  Sound'
<1> USE DEF Sound
<1>0. /\ run[g].obj \in Objs /\ run[g].pc \in {"name", "send"}
      /\ UNCHANGED <<sessions, pool, idOf, wired, handled, th>>
  BY DEF RunName, RunSend, TypeInv, Holding, fields, identity
<1>1. /\ \A h \in Gens \ {g} : run'[h] = run[h]
      /\ run'[g].pc \in {"send", "done"} /\ run'[g].obj = run[g].obj
      /\ RunName(g) => run'[g].pc = "send" /\ run'[g].msg = idOf[run[g].obj]
  <2>1. CASE RunName(g)
    <3>1. idOf[run[g].obj] \in Ids \cup {NoId}
      BY <1>0 DEF TypeInv, TypeOK
    <3> QED
      BY <2>1, <3>1, RunNameEffect DEF RunName, TypeInv, TypeOK
  <2>2. CASE RunSend(g)
    BY <2>2, RunGotoEffect DEF RunSend, RunName, TypeInv, TypeOK, RunPcs
  <2> QED
    BY <2>1, <2>2
<1>2. \A h \in Gens : run'[h].obj = run[h].obj
  BY <1>1
<1>3. OnlyWiredInUse' /\ NamedByKey' /\ PooledUnregistered' /\ TornDown'
  BY <1>0, <1>2 DEF OnlyWiredInUse, NamedByKey, PooledUnregistered, TornDown, Registered
<1>4. CreatorAlone'
  BY <1>0, <1>2 DEF CreatorAlone, Registered
<1>5. OwnContext'
  <2>1. \A h \in Gens : run[h].pc = "held" => run'[h].pc = "held"
    BY <1>0, <1>1
  <2>2. \A x \in Threads : th[x].pc \in {"store", "pull", "push"} => th[x].gen \in Gens
    BY DEF TypeInv, Holding, HoldsWhatItNeeds
  <2> QED
    BY <1>0, <2>1, <2>2 DEF OwnContext
<1>6. EndedIsHandled'
  BY <1>0, <1>1 DEF EndedIsHandled
<1>7. HandledLeaves'
  <2>1. CASE RunName(g)
    <3>1. closeCh' = closeCh /\ \A id \in Ids : Leaving(id) => Leaving(id)'
      BY <1>0, <2>1 DEF RunName, Leaving
    <3>2. \A id \in Ids : sessions[id] = run[g].obj => run'[g].msg = id
      BY <1>0, <1>1, <2>1 DEF NamedByKey
    <3> QED
      BY <1>0, <1>1, <2>1, <3>1, <3>2 DEF HandledLeaves
  <2>2. CASE RunSend(g)
    <3> DEFINE n == Len(closeCh)
    <3>0. closeCh \in Seq(Ids \cup {NoId}) /\ run[g].msg \in Ids \cup {NoId}
      BY DEF TypeInv, TypeOK, RunState
    <3>1. /\ n \in Nat /\ Len(closeCh') = n + 1 /\ closeCh'[n + 1] = run[g].msg
          /\ \A i \in 1..n : closeCh'[i] = closeCh[i]
      BY <2>2, <3>0, AppendProperties, LenProperties DEF RunSend
    <3>2. \A i \in 1..n : i \in 1..Len(closeCh')
      BY <3>1
    <3>3. \A id \in Ids : Leaving(id) => Leaving(id)'
      BY <1>0, <3>1, <3>2 DEF Leaving
    <3>4. \A id \in Ids : run[g].msg = id => Leaving(id)'
      <4>1. n + 1 \in 1..Len(closeCh')
        BY <3>1
      <4> QED
        BY <3>1, <4>1 DEF Leaving
    <3>5. run[g].pc = "send"
      BY <2>2 DEF RunSend
    <3> QED
      BY <1>0, <1>1, <3>3, <3>4, <3>5 DEF HandledLeaves
  <2> QED
    BY <2>1, <2>2
<1> QED
  BY <1>3, <1>4, <1>5, <1>6, <1>7

(***************************************************************************)
(* The theorems                                                            *)
(***************************************************************************)
LEMMA SoundStep ==
  ASSUME Recycle = FALSE, TypeInv, Sound, [Next]_vars
  PROVE  Sound'
<1>1. CASE UNCHANGED vars
  BY <1>1, UnchangedRunsWork, RunsWorkSound DEF vars, fields, identity
<1>2. ASSUME NEW c \in Callers,
             (\E op \in Ops, id \in Ids : Request(c, op, id)) \/ HandlerStep(c)
      PROVE  Sound'
  BY <1>2, HandlerMovesSound, AcquireSound, StoreSessionSound, PullerFailsSound,
     OpenPusherSound
  DEF HandlerStep
<1>3. ASSUME NEW t \in Threads, TeardownStep(t) \/ RangeStep(t) \/ StopLoop(t)
      PROVE  Sound'
  BY <1>3, TeardownSound, RangeSound, ManagerMovesSound
<1>4. CASE Receive \/ Tick \/ Claim \/ EndTick \/ StartClose \/ EndClose
  BY <1>4, ReceiveSound, ClaimSound, ManagerMovesSound
<1>5. ASSUME NEW g \in Gens, RunMoves(g) \/ RunReads(g) PROVE Sound'
  BY <1>5, RunWorkSound, RunMarkSound, RunSendSound DEF RunMoves, RunReads
<1>6. ASSUME NEW o \in Objs, RecorderStep(o) PROVE Sound'
  BY <1>6, RecorderSound
<1> QED
  BY <1>1, <1>2, <1>3, <1>4, <1>5, <1>6 DEF Next

\* While no object is recycled, the map, the pool, handledClose and closeCh
\* agree with each other in every reachable state.
THEOREM FreshInv == ASSUME Recycle = FALSE PROVE Spec => []Inv
<1>1. Init => TypeInv /\ Sound
  BY TypeInit, SoundInit
<1>2. TypeInv /\ Sound /\ [Next]_vars => (TypeInv /\ Sound)'
  BY TypeStep, SoundStep
<1>3. TypeInv /\ Sound => Inv
  BY InvIsSound
<1> QED
  BY <1>1, <1>2, <1>3, PTL DEF Spec

\* A session whose Run has returned was claimed through handledClose, and one
\* that was claimed is about to leave the map.
THEOREM FreshNoZombie == ASSUME Recycle = FALSE PROVE Spec => []NoZombie
<1>1. Inv => NoZombie
  <2> SUFFICES ASSUME Inv, NEW id \in Ids, NEW o \in Objs, sessions[id] = o, Ended(o)
               PROVE  Leaving(id)
    BY DEF NoZombie
  <2>1. handled[o]
    BY DEF Inv, EndedIsHandled, Ended
  <2>2. ~\E g \in Gens : run[g].obj = o /\ run[g].pc \in {"name", "send"}
    BY DEF Ended
  <2> QED
    BY <2>1, <2>2 DEF Inv, HandledLeaves
<1> QED
  BY <1>1, FreshInv, PTL
=============================================================================
