------------------- MODULE SessionManagerRefinementProofs -------------------
(***************************************************************************)
(* While every sessionPool.Get returns a new object, the goroutines of     *)
(* SessionManager implement the safety part of SessionRegistry, for any    *)
(* number of ids, sessions, clients and notices. Its liveness part is left *)
(* to TLC.                                                                 *)
(***************************************************************************)
EXTENDS SessionManagerRefinement, SessionManagerSafety

(***************************************************************************)
(* A shutdown: the handlers have gone, and the Range of Close has yet to   *)
(* come to each session that is left                                       *)
(***************************************************************************)
\* The Range has yet to come to id, or is about to delete it.
ToBeClosed(id) ==
  \/ id \in th[Closer].todo
  \/ th[Closer].id = id /\ th[Closer].pc \in {"cancel", "delete"}

ShutdownInv ==
  /\ up # "serving" => \A c \in Callers : th[c].pc = "idle"
  /\ up = "serving" => th[Closer].pc = "idle"
  /\ up = "closing" => th[Closer].pc \in {"range"} \cup TeardownPcs
  /\ up = "down" => th[Closer].pc = "stopped"
  /\ up = "closing" => \A id \in Ids : sessions[id] # NoObj => ToBeClosed(id)

LEMMA ShutdownInit == Init => ShutdownInv
  BY ConstantsAssumption DEF Init, ShutdownInv, Resting, Threads, Managers

LEMMA CloserIsAlone == Closer \in Threads /\ Closer \notin Callers
                       /\ Closer # Receiver /\ Closer # Ticker
  BY ConstantsAssumption DEF Threads, Managers, Closer, Receiver, Ticker

\* A step of a handler, which takes place while the engine serves.
LEMMA HandlerKeepsShutdown ==
  ASSUME TypeInv, ShutdownInv, NEW c \in Callers,
         (\E op \in Ops, id \in Ids : Request(c, op, id)) \/ HandlerStep(c) \/ TeardownStep(c)
  PROVE  up = "serving" /\ up' = up /\ ShutdownInv'
<1>0. c \in Threads /\ c # Closer /\ th \in [Threads -> ThreadState]
  BY CloserIsAlone DEF Threads, TypeInv, TypeOK
<1>1. up' = up /\ th'[Closer] = th[Closer]
  <2> USE <1>0, CloserIsAlone DEF Goto, Finish, Take, TakeNew, RangeOn
  <2>1. CASE \E op \in Ops, id \in Ids : Request(c, op, id)
    BY <2>1 DEF Request
  <2>2. CASE LookupSession(c) \/ CheckAbsent(c) \/ StoreSession(c) \/ FindByID(c)
    BY <2>2 DEF LookupSession, CheckAbsent, StoreSession, FindByID
  <2>3. ASSUME NEW g \in Gens, NEW o \in Objs, Acquire(c, g, o)
        PROVE  up' = up /\ th'[Closer] = th[Closer]
    BY <2>3 DEF Acquire
  <2>4. CASE OpenPuller(c) \/ PullerFails(c) \/ OpenPusher(c) \/ PusherFails(c)
    BY <2>4 DEF OpenPuller, PullerFails, OpenPusher, PusherFails
  <2>5. CASE SetFlag(c) \/ Drop(c)
    BY <2>5 DEF SetFlag, Drop
  <2>6. CASE TeardownStep(c)
    BY <2>6 DEF TeardownStep, CancelSession, DeleteEntry, ResetFlags, ResetFields, PutBack
  <2> QED
    BY <2>1, <2>2, <2>3, <2>4, <2>5, <2>6 DEF HandlerStep
<1>2. up = "serving"
  <2>1. (\E op \in Ops, id \in Ids : Request(c, op, id)) \/ th[c].pc # "idle"
    BY DEF HandlerStep, LookupSession, CheckAbsent, Acquire, StoreSession, OpenPuller,
           PullerFails, OpenPusher, PusherFails, FindByID, SetFlag, Drop,
           TeardownStep, CancelSession, DeleteEntry, ResetFlags, ResetFields, PutBack
  <2> QED
    BY <2>1 DEF Request, ShutdownInv
<1> QED
  BY <1>1, <1>2 DEF ShutdownInv

\* A step of anybody else that neither adds a session nor moves Close.
LEMMA OthersKeepShutdown ==
  ASSUME ShutdownInv, up' = up, th'[Closer] = th[Closer],
         \A c \in Callers : th'[c] = th[c],
         \A id \in Ids : sessions'[id] \in {sessions[id], NoObj}
  PROVE  ShutdownInv'
  BY DEF ShutdownInv, ToBeClosed

LEMMA ManagerKeepsShutdown ==
  ASSUME TypeInv, ShutdownInv, NEW t \in {Receiver, Ticker},
         \/ TeardownStep(t) \/ RangeStep(t) \/ StopLoop(t)
         \/ t = Receiver /\ Receive
         \/ t = Ticker /\ (Tick \/ Claim \/ EndTick)
  PROVE  ShutdownInv'
<1>0. /\ t \in Threads /\ t # Closer /\ t \notin Callers
      /\ th \in [Threads -> ThreadState] /\ Callers \subseteq Threads
  BY CloserIsAlone, ConstantsAssumption DEF Threads, Managers, TypeInv, TypeOK
<1>1. /\ up' = up /\ \A x \in Threads \ {t} : th'[x] = th[x]
  <2> USE <1>0 DEF Goto, Finish, TurnTo, RangeOn, StartRange
  <2>1. CASE TeardownStep(t)
    BY <2>1 DEF TeardownStep, CancelSession, DeleteEntry, ResetFlags, ResetFields, PutBack
  <2>2. CASE RangeStep(t) \/ StopLoop(t)
    BY <2>2 DEF RangeStep, Skip, Visit, StopLoop
  <2>3. CASE t = Receiver /\ Receive
    BY <2>3 DEF Receive
  <2>4. CASE t = Ticker /\ (Tick \/ Claim \/ EndTick)
    BY <2>4 DEF Tick, Claim, EndTick
  <2> QED
    BY <2>1, <2>2, <2>3, <2>4
<1>2. \A id \in Ids : sessions'[id] \in {sessions[id], NoObj}
  <2>1. CASE DeleteEntry(t)
    BY <2>1 DEF DeleteEntry, TypeInv, TypeOK
  <2>2. CASE ~DeleteEntry(t)
    BY <2>2 DEF TeardownStep, CancelSession, ResetFlags, ResetFields, PutBack, RangeStep,
                Skip, Visit, StopLoop, Receive, Tick, Claim, EndTick
  <2> QED
    BY <2>1, <2>2
<1> QED
  BY <1>0, <1>1, <1>2, CloserIsAlone, OthersKeepShutdown

LEMMA CloserKeepsShutdown ==
  ASSUME TypeInv, ShutdownInv, TeardownStep(Closer) \/ RangeStep(Closer)
  PROVE  ShutdownInv'
<1>0. /\ Closer \in Threads /\ Closer \notin Callers /\ Closer # Ticker
      /\ th \in [Threads -> ThreadState] /\ th[Closer] \in ThreadState
      /\ Callers \subseteq Threads
  BY CloserIsAlone DEF Threads, TypeInv, TypeOK
<1>1. up = "closing" /\ up' = up
  <2>1. th[Closer].pc \in {"range"} \cup TeardownPcs
    BY DEF TeardownStep, CancelSession, DeleteEntry, ResetFlags, ResetFields, PutBack,
           TeardownPcs, RangeStep, Skip, Visit
  <2>2. th[Closer].pc \notin {"idle", "stopped"}
    BY <2>1 DEF TeardownPcs
  <2>3. up \in {"serving", "closing", "down"}
    BY DEF TypeInv, TypeOK
  <2>4. up' = up
    BY DEF TeardownStep, CancelSession, DeleteEntry, ResetFlags, ResetFields, PutBack,
           RangeStep, Skip, Visit
  <2> QED
    BY <2>2, <2>3, <2>4 DEF ShutdownInv
<1>2. \A c \in Callers : th'[c] = th[c]
  BY <1>0 DEF TeardownStep, CancelSession, DeleteEntry, ResetFlags, ResetFields, PutBack,
              RangeStep, Skip, Visit, Goto, RangeOn, TurnTo, Finish
<1>3. /\ th'[Closer].pc \in {"range"} \cup TeardownPcs
      /\ \A id \in Ids : sessions'[id] # NoObj => ToBeClosed(id)'
  <2>0. \A id \in Ids : sessions[id] # NoObj => ToBeClosed(id)
    BY <1>1 DEF ShutdownInv
  <2>1. CASE CancelSession(Closer)
    <3>1. /\ th[Closer].pc = "cancel" /\ th'[Closer].pc = "delete"
          /\ th'[Closer].id = th[Closer].id /\ th'[Closer].todo = th[Closer].todo
      BY <1>0, <2>1 DEF CancelSession, Goto, ThreadState
    <3> QED
      BY <2>0, <2>1, <3>1 DEF CancelSession, ToBeClosed, TeardownPcs
  <2>2. CASE DeleteEntry(Closer)
    <3>1. /\ th[Closer].pc = "delete" /\ th'[Closer].pc = "reset"
          /\ th'[Closer].todo = th[Closer].todo
      BY <1>0, <2>2 DEF DeleteEntry, Goto, ThreadState
    <3>2. \A id \in Ids : sessions'[id] = (IF id = th[Closer].id THEN NoObj ELSE sessions[id])
      BY <2>2 DEF DeleteEntry, TypeInv, TypeOK
    <3> QED
      BY <2>0, <3>1, <3>2 DEF ToBeClosed, TeardownPcs
  <2>3. CASE ResetFlags(Closer) \/ ResetFields(Closer)
    <3>1. /\ th[Closer].pc \in {"reset", "clear"} /\ th'[Closer].pc \in {"clear", "put"}
          /\ th'[Closer].todo = th[Closer].todo
      BY <1>0, <2>3 DEF ResetFlags, ResetFields, Goto, ThreadState
    <3>2. sessions' = sessions
      BY <2>3 DEF ResetFlags, ResetFields
    <3> QED
      BY <2>0, <3>1, <3>2 DEF ToBeClosed, TeardownPcs
  <2>4. CASE PutBack(Closer)
    <3>1. RangeOn(Closer) /\ th[Closer].pc = "put"
      BY <2>4 DEF PutBack
    <3>2. th'[Closer].pc = "range" /\ th'[Closer].todo = th[Closer].todo
      BY <1>0, <3>1 DEF RangeOn, ThreadState
    <3> QED
      BY <2>0, <2>4, <3>1, <3>2 DEF PutBack, ToBeClosed
  <2>5. ASSUME NEW id \in Ids, Skip(Closer, id)
        PROVE  /\ th'[Closer].pc = "range"
               /\ \A k \in Ids : sessions'[k] # NoObj => ToBeClosed(k)'
    <3>1. th[Closer].pc = "range" /\ sessions[id] = NoObj /\ sessions' = sessions
      BY <1>0, <2>5 DEF Skip
    <3>2. th'[Closer].pc = "range" /\ th'[Closer].todo = th[Closer].todo \ {id}
      BY <1>0, <2>5, <3>1 DEF Skip, ThreadState
    <3> QED
      BY <2>0, <3>1, <3>2 DEF ToBeClosed
  <2>6. ASSUME NEW id \in Ids, Visit(Closer, id)
        PROVE  /\ th'[Closer].pc = "cancel"
               /\ \A k \in Ids : sessions'[k] # NoObj => ToBeClosed(k)'
    <3>1. th[Closer].pc = "range" /\ TurnTo(Closer, "cancel", id) /\ sessions' = sessions
      BY <1>0, <2>6 DEF Visit
    <3>2. /\ th'[Closer].pc = "cancel" /\ th'[Closer].id = id
          /\ th'[Closer].todo = th[Closer].todo \ {id}
      BY <1>0, <3>1 DEF TurnTo, ThreadState
    <3> QED
      BY <2>0, <3>1, <3>2 DEF ToBeClosed
  <2> QED
    BY <2>1, <2>2, <2>3, <2>4, <2>5, <2>6
    DEF TeardownStep, RangeStep, TeardownPcs
<1> QED
  BY <1>1, <1>2, <1>3 DEF ShutdownInv

LEMMA ShutdownStep ==
  ASSUME TypeInv, ShutdownInv, [Next]_vars
  PROVE  ShutdownInv'
<1>1. CASE UNCHANGED vars
  BY <1>1 DEF vars, ShutdownInv, ToBeClosed
<1>2. ASSUME NEW c \in Callers,
             (\E op \in Ops, id \in Ids : Request(c, op, id)) \/ HandlerStep(c)
      PROVE  ShutdownInv'
  BY <1>2, HandlerKeepsShutdown
<1>3. ASSUME NEW t \in Threads, TeardownStep(t) \/ RangeStep(t) \/ StopLoop(t)
      PROVE  ShutdownInv'
  <2>1. CASE t \in Callers
    BY <1>3, <2>1, HandlerKeepsShutdown, ConstantsAssumption
    DEF RangeStep, Skip, Visit, StopLoop, Managers
  <2>2. CASE t \in {Receiver, Ticker}
    BY <1>3, <2>2, ManagerKeepsShutdown
  <2>3. CASE t = Closer
    BY <1>3, <2>3, CloserKeepsShutdown, CloserIsAlone DEF StopLoop
  <2> QED
    BY <2>1, <2>2, <2>3 DEF Threads, Managers
<1>4. CASE Receive \/ Tick \/ Claim \/ EndTick
  BY <1>4, ManagerKeepsShutdown
<1>5. CASE StartClose
  <2>1. th'[Closer].pc = "range" /\ th'[Closer].todo = Ids
    BY <1>5, CloserIsAlone DEF StartClose, StartRange, TypeInv, TypeOK, ThreadState
  <2>2. \A c \in Callers : th'[c].pc = "idle"
    BY <1>5, CloserIsAlone DEF StartClose, StartRange, TypeInv, TypeOK, Threads
  <2> QED
    BY <1>5, <2>1, <2>2 DEF StartClose, ShutdownInv, ToBeClosed
<1>6. CASE EndClose
  <2>1. up # "serving" /\ up' = "down"
    BY <1>6 DEF EndClose, ShutdownInv
  <2>2. th'[Closer].pc = "stopped" /\ \A c \in Callers : th'[c] = th[c]
    BY <1>6, CloserIsAlone DEF EndClose, Goto, TypeInv, TypeOK, ThreadState, Threads
  <2> QED
    BY <2>1, <2>2 DEF ShutdownInv
<1>7. ASSUME NEW g \in Gens, RunMoves(g) \/ RunReads(g) PROVE ShutdownInv'
  <2>1. UNCHANGED <<up, th, sessions>>
    BY <1>7 DEF RunMoves, RunReads, RunStart, RunCannotStart, RunHead, RunStops, RunUpdates,
                RunReopens, RunClean, RunMark, RunName, RunSend, RunFrame, RunEOF, RunFails
  <2> QED
    BY <2>1, OthersKeepShutdown
<1>8. ASSUME NEW o \in Objs, RecorderStep(o) PROVE ShutdownInv'
  <2>1. UNCHANGED <<up, th, sessions>>
    BY <1>8 DEF RecorderStep, RecorderHead, RecorderEnds, RecorderSegment, RecorderFails,
                RecorderAsks, RecorderReopens
  <2> QED
    BY <2>1, OthersKeepShutdown
<1> QED
  BY <1>1, <1>2, <1>3, <1>4, <1>5, <1>6, <1>7, <1>8 DEF Next

(***************************************************************************)
(* What a step of one goroutine changes of the registry                    *)
(***************************************************************************)
LeavingPcs == {"drop", "cancel", "delete"}

\* Only t moves.
OneMoves(t) == \A x \in Threads \ {t} : th'[x] = th[x]

RegistryStep == Registry!Next \/ UNCHANGED Registry!vars

LEMMA LeavingKept ==
  ASSUME NEW t \in Threads, OneMoves(t), closeCh' = closeCh,
         \/ {th[t].pc, th'[t].pc} \subseteq LeavingPcs /\ th'[t].id = th[t].id
         \/ {th[t].pc, th'[t].pc} \cap LeavingPcs = {}
  PROVE  leaving' = leaving
<1>1. ASSUME NEW id \in Ids PROVE Leaving(id)' <=> Leaving(id)
  BY DEF Leaving, OneMoves, LeavingPcs
<1> QED
  BY <1>1 DEF leaving

LEMMA LeavingGains ==
  ASSUME NEW t \in Threads, OneMoves(t), closeCh' = closeCh,
         th[t].pc \notin LeavingPcs, th'[t].pc \in LeavingPcs, th'[t].id \in Ids
  PROVE  leaving' = leaving \cup {th'[t].id}
<1>1. ASSUME NEW id \in Ids PROVE Leaving(id)' <=> Leaving(id) \/ id = th'[t].id
  BY DEF Leaving, OneMoves, LeavingPcs
<1> QED
  BY <1>1 DEF leaving

LEMMA LeavingLoses ==
  ASSUME NEW t \in Threads, OneMoves(t), closeCh' = closeCh,
         th[t].pc \in LeavingPcs, th[t].id \in Ids, th'[t].pc \notin LeavingPcs
  PROVE  leaving' \in {leaving, leaving \ {th[t].id}} /\ th[t].id \in leaving
<1>1. ASSUME NEW id \in Ids \ {th[t].id} PROVE Leaving(id)' <=> Leaving(id)
  BY DEF Leaving, OneMoves, LeavingPcs
<1>2. Leaving(th[t].id)
  BY DEF Leaving, LeavingPcs
<1> QED
  BY <1>1, <1>2 DEF leaving

LEMMA CreatingKept ==
  ASSUME NEW t \in Threads, OneMoves(t),
         \/ {th[t].pc, th'[t].pc} \subseteq CreatorPcs /\ th'[t].id = th[t].id
         \/ {th[t].pc, th'[t].pc} \cap CreatorPcs = {}
  PROVE  creating' = creating
<1>1. ASSUME NEW id \in Ids
      PROVE  (\E c \in Callers : th'[c].id = id /\ th'[c].pc \in CreatorPcs) <=>
             (\E c \in Callers : th[c].id = id /\ th[c].pc \in CreatorPcs)
  BY DEF OneMoves, Threads
<1> QED
  BY <1>1 DEF creating

LEMMA CreatingGains ==
  ASSUME NEW c \in Callers, OneMoves(c), th'[c].id = th[c].id, th[c].id \in Ids,
         th[c].pc \notin CreatorPcs, th'[c].pc \in CreatorPcs
  PROVE  creating' = creating \cup {th[c].id}
<1>1. ASSUME NEW id \in Ids
      PROVE  (\E d \in Callers : th'[d].id = id /\ th'[d].pc \in CreatorPcs) <=>
             \/ \E d \in Callers : th[d].id = id /\ th[d].pc \in CreatorPcs
             \/ id = th[c].id
  BY DEF OneMoves, Threads
<1> QED
  BY <1>1 DEF creating

LEMMA CreatingLoses ==
  ASSUME NEW c \in Callers, OneMoves(c), th[c].id \in Ids,
         th[c].pc \in CreatorPcs, th'[c].pc \notin CreatorPcs
  PROVE  creating' \in {creating, creating \ {th[c].id}} /\ th[c].id \in creating
<1>1. ASSUME NEW id \in Ids \ {th[c].id}
      PROVE  (\E d \in Callers : th'[d].id = id /\ th'[d].pc \in CreatorPcs) <=>
             (\E d \in Callers : th[d].id = id /\ th[d].pc \in CreatorPcs)
  BY DEF OneMoves, Threads
<1> QED
  BY <1>1 DEF creating

LEMMA BornKept ==
  ASSUME NEW t \in Threads, OneMoves(t), wired' = wired,
         "store" \notin {th[t].pc, th'[t].pc}
  PROVE  born' = born
<1>1. ASSUME NEW o \in Objs
      PROVE  (\A c \in Callers : th'[c].obj = o => th'[c].pc # "store") <=>
             (\A c \in Callers : th[c].obj = o => th[c].pc # "store")
  BY DEF OneMoves, Threads
<1> QED
  BY <1>1 DEF born

\* A step of t that the registry does not see.
LEMMA QuietStep ==
  ASSUME NEW t \in Threads, OneMoves(t), UNCHANGED <<sessions, closeCh, wired, up>>,
         {th[t].pc, th'[t].pc} \cap CreatorPcs = {},
         \/ {th[t].pc, th'[t].pc} \subseteq LeavingPcs /\ th'[t].id = th[t].id
         \/ {th[t].pc, th'[t].pc} \cap LeavingPcs = {}
  PROVE  RegistryStep
<1>1. leaving' = leaving /\ creating' = creating /\ born' = born
  BY LeavingKept, CreatingKept, BornKept DEF CreatorPcs
<1> QED
  BY <1>1 DEF RegistryStep, Registry!vars

\* t chooses to remove an id.
LEMMA LeaveStep ==
  ASSUME NEW t \in Threads, OneMoves(t), UNCHANGED <<sessions, closeCh, wired, up>>,
         {th[t].pc, th'[t].pc} \cap CreatorPcs = {},
         th[t].pc \notin LeavingPcs, th'[t].pc \in LeavingPcs, th'[t].id \in Ids
  PROVE  RegistryStep
<1>1. leaving' = leaving \cup {th'[t].id} /\ creating' = creating /\ born' = born
  BY LeavingGains, CreatingKept, BornKept DEF CreatorPcs
<1>2. Registry!Leave(th'[t].id)
  BY <1>1 DEF Registry!Leave
<1> QED
  BY <1>2 DEF RegistryStep, Registry!Next

\* Steps of a Run or a recorder that send no notice.
LEMMA UnseenStep ==
  ASSUME UNCHANGED <<sessions, closeCh, wired, up, th>>
  PROVE  RegistryStep
<1>1. leaving' = leaving /\ creating' = creating /\ born' = born
  BY DEF leaving, Leaving, creating, born
<1> QED
  BY <1>1 DEF RegistryStep, Registry!vars

(***************************************************************************)
(* Every step is a step of the registry                                    *)
(***************************************************************************)
\* The requests, but for what creates a session.
LEMMA HandlerSimulates ==
  ASSUME TypeInv, NEW c \in Callers,
         \/ \E op \in Ops, id \in Ids : Request(c, op, id)
         \/ LookupSession(c) \/ CheckAbsent(c) \/ OpenPusher(c) \/ PusherFails(c)
         \/ FindByID(c) \/ SetFlag(c) \/ Drop(c)
  PROVE  RegistryStep
<1>0. c \in Threads /\ HoldsWhatItNeeds(c) /\ th \in [Threads -> ThreadState]
  BY DEF Threads, TypeInv, Holding, TypeOK
<1> USE <1>0 DEF OneMoves, CreatorPcs, LeavingPcs
<1>1. ASSUME NEW op \in Ops, NEW id \in Ids, Request(c, op, id) PROVE RegistryStep
  BY <1>1, QuietStep DEF Request, Resting, fields, identity
<1>2. CASE LookupSession(c)
  <2>1. /\ th[c].pc = "lookup" /\ th[c].id \in Ids /\ th[c].op \in AllOps
        /\ UNCHANGED <<sessions, closeCh, wired, up>>
    BY <1>2 DEF LookupSession, HoldsWhatItNeeds, HandlerPcs, fields, identity
  <2>2. CASE Goto(c, "check")
    BY <2>1, <2>2, GotoEffect, QuietStep DEF ThreadPcs, HandlerPcs
  <2>3. CASE Finish(c)
    BY <2>1, <2>3, FinishEffect, QuietStep
  <2>4. CASE /\ sessions[th[c].id] # NoObj /\ th[c].op # "CreateSession"
             /\ Take(c, FoundPc[th[c].op], sessions[th[c].id])
    <3>1. sessions[th[c].id] \in Objs
      BY <2>1, <2>4 DEF TypeInv, TypeOK
    <3>2. FoundPc[th[c].op] \in {"flag", "byid", "drop"}
      BY <2>1, <2>4 DEF FoundPc, AllOps, Creating
    <3>3. FoundPc[th[c].op] \in ThreadPcs
      BY <3>2 DEF ThreadPcs, HandlerPcs
    <3>4. /\ \A x \in Threads \ {c} : th'[x] = th[x]
          /\ th'[c].pc \in {"flag", "byid", "drop"} /\ th'[c].id = th[c].id
      BY <2>4, <3>1, <3>2, <3>3, FindEffect
    <3> QED
      BY <2>1, <3>4, QuietStep, LeaveStep
  <2> QED
    BY <1>2, <2>2, <2>3, <2>4 DEF LookupSession
<1>3. CASE CheckAbsent(c)
  <2>1. /\ th[c].pc = "check" /\ UNCHANGED <<sessions, closeCh, wired, up>>
        /\ Finish(c) \/ Goto(c, "acquire")
    BY <1>3 DEF CheckAbsent, fields, identity
  <2> QED
    BY <2>1, FinishEffect, GotoEffect, QuietStep DEF ThreadPcs, HandlerPcs
<1>4. CASE OpenPusher(c)
  <2>1. /\ th[c].pc = "push" /\ UNCHANGED <<sessions, closeCh, wired, up>>
        /\ Finish(c) \/ Goto(c, "byid")
    BY <1>4 DEF OpenPusher, identity
  <2> QED
    BY <2>1, FinishEffect, GotoEffect, QuietStep DEF ThreadPcs, HandlerPcs
<1>5. CASE PusherFails(c) \/ SetFlag(c)
  BY <1>5, FinishEffect, QuietStep DEF PusherFails, SetFlag, identity
<1>6. CASE FindByID(c)
  <2>1. th[c].pc = "byid" /\ UNCHANGED <<sessions, closeCh, wired, up>>
    BY <1>6 DEF FindByID, fields, identity
  <2>2. OneMoves(c) /\ th'[c].pc \in {"idle", "flag"}
    <3>1. CASE Finish(c)
      BY <3>1, FinishEffect
    <3>2. CASE ~Finish(c)
      BY <1>6, <3>2 DEF FindByID, Take, ThreadState
    <3> QED
      BY <3>1, <3>2
  <2> QED
    BY <2>1, <2>2, QuietStep
<1>7. CASE Drop(c)
  <2>1. th[c].pc = "drop" /\ Goto(c, "delete") /\ UNCHANGED <<sessions, closeCh, wired, up>>
    BY <1>7 DEF Drop, identity
  <2> QED
    BY <2>1, GotoEffect, QuietStep DEF ThreadPcs, TeardownPcs
<1> QED
  BY <1>1, <1>2, <1>3, <1>4, <1>5, <1>6, <1>7

LEMMA AcquireSimulates ==
  ASSUME Recycle = FALSE, TypeInv, ShutdownInv, Sound, NEW c \in Callers, NEW g \in Gens,
         NEW o \in Objs, Acquire(c, g, o)
  PROVE  RegistryStep
<1>0. /\ c \in Threads /\ th[c].pc = "acquire" /\ th[c].id \in Ids /\ up = "serving"
  BY HandlerKeepsShutdown DEF Threads, Acquire, HandlerStep, TypeInv, Holding,
     HoldsWhatItNeeds, HandlerPcs
<1>1. /\ OneMoves(c) /\ th'[c].pc = "store" /\ th'[c].id = th[c].id /\ th'[c].obj = o
  <2>1. "store" \in ThreadPcs /\ th \in [Threads -> ThreadState] /\ TakeNew(c, "store", o, g)
    BY DEF ThreadPcs, HandlerPcs, TypeInv, TypeOK, Acquire
  <2> QED
    BY <1>0, <2>1, AcquireEffect DEF OneMoves
<1>2. /\ UNCHANGED <<sessions, closeCh, up>> /\ ~wired[o]
      /\ \A p \in Objs : wired'[p] = (IF p = o THEN TRUE ELSE wired[p])
  BY DEF Acquire, TypeInv, TypeOK
<1>3. creating' = creating \cup {th[c].id}
  BY <1>0, <1>1, CreatingGains DEF CreatorPcs
<1>4. leaving' = leaving
  BY <1>0, <1>1, <1>2, LeavingKept DEF LeavingPcs
<1>5. born' = born
  <2>1. \A x \in Threads : th[x].obj # o
    BY <1>2 DEF Sound, OnlyWiredInUse
  <2>2. ASSUME NEW p \in Objs \ {o}
        PROVE  (\A d \in Callers : th'[d].obj = p => th'[d].pc # "store") <=>
               (\A d \in Callers : th[d].obj = p => th[d].pc # "store")
    BY <1>0, <1>1, <2>2 DEF OneMoves, Threads
  <2>3. o \notin born /\ o \notin born'
    BY <1>1, <1>2 DEF born
  <2>4. ASSUME NEW p \in Objs \ {o} PROVE p \in born' <=> p \in born
    BY <1>2, <2>2, <2>4 DEF born
  <2> QED
    BY <2>3, <2>4 DEF born
<1>6. Registry!Begin(th[c].id)
  BY <1>0, <1>2, <1>3, <1>4, <1>5 DEF Registry!Begin
<1> QED
  BY <1>0, <1>6 DEF RegistryStep, Registry!Next

LEMMA StoreSimulates ==
  ASSUME TypeInv, Sound, NEW c \in Callers, StoreSession(c)
  PROVE  RegistryStep
<1>0. /\ c \in Threads /\ th[c].pc = "store" /\ th[c].id \in Ids /\ th[c].obj \in Objs
      /\ UNCHANGED <<closeCh, wired, up>>
      /\ sessions' = [sessions EXCEPT ![th[c].id] = th[c].obj]
  BY DEF Threads, StoreSession, TypeInv, Holding, HoldsWhatItNeeds, HandlerPcs, fields,
         identity
<1>1. OneMoves(c) /\ th'[c].pc = "pull" /\ th'[c].id = th[c].id /\ th'[c].obj = th[c].obj
  BY <1>0, GotoEffect DEF StoreSession, TypeInv, TypeOK, ThreadPcs, HandlerPcs, OneMoves
<1>2. creating' = creating /\ leaving' = leaving /\ th[c].id \in creating
  <2>1. th[c].id \in creating
    BY <1>0 DEF creating, CreatorPcs
  <2> QED
    BY <1>0, <1>1, <2>1, CreatingKept, LeavingKept DEF CreatorPcs, LeavingPcs
<1>3. th[c].obj \notin born
  BY <1>0 DEF born
<1>4. born' = born \cup {th[c].obj}
  <2>1. \A t \in Threads \ {c} : th[t].obj # th[c].obj
    BY <1>0 DEF Sound, CreatorAlone
  <2>2. wired[th[c].obj]
    BY <1>0 DEF Sound, OnlyWiredInUse
  <2>3. \A d \in Callers : th'[d].obj = th[c].obj => th'[d].pc # "store"
    BY <1>1, <2>1 DEF OneMoves, Threads
  <2>4. ASSUME NEW p \in Objs \ {th[c].obj}
        PROVE  (\A d \in Callers : th'[d].obj = p => th'[d].pc # "store") <=>
               (\A d \in Callers : th[d].obj = p => th[d].pc # "store")
    BY <1>0, <1>1, <2>4 DEF OneMoves, Threads
  <2> QED
    BY <1>0, <2>2, <2>3, <2>4 DEF born
<1>5. Registry!Register(th[c].id, th[c].obj)
  BY <1>0, <1>2, <1>3, <1>4 DEF Registry!Register
<1> QED
  BY <1>0, <1>5 DEF RegistryStep, Registry!Next

LEMMA PullerSimulates ==
  ASSUME TypeInv, NEW c \in Callers, OpenPuller(c) \/ PullerFails(c)
  PROVE  RegistryStep
<1>0. /\ c \in Threads /\ th[c].pc = "pull" /\ th[c].id \in Ids
      /\ UNCHANGED <<closeCh, wired, up>>
      /\ sessions' \in {sessions, [sessions EXCEPT ![th[c].id] = NoObj]}
  BY DEF Threads, OpenPuller, PullerFails, TypeInv, Holding, HoldsWhatItNeeds, HandlerPcs,
         identity
<1>1. OneMoves(c) /\ th'[c].pc \in {"push", "idle"}
  <2>1. Goto(c, "push") \/ Finish(c)
    BY DEF OpenPuller, PullerFails
  <2> QED
    BY <1>0, <2>1, GotoEffect, FinishEffect
    DEF OneMoves, TypeInv, TypeOK, ThreadPcs, HandlerPcs
<1>2. creating' \in {creating, creating \ {th[c].id}} /\ th[c].id \in creating
  BY <1>0, <1>1, CreatingLoses DEF CreatorPcs
<1>3. leaving' = leaving /\ born' = born
  BY <1>0, <1>1, LeavingKept, BornKept DEF LeavingPcs
<1>4. Registry!EndCreation(th[c].id)
  BY <1>0, <1>2, <1>3 DEF Registry!EndCreation
<1> QED
  BY <1>0, <1>4 DEF RegistryStep, Registry!Next

LEMMA TeardownSimulates ==
  ASSUME TypeInv, NEW t \in Threads, TeardownStep(t)
  PROVE  RegistryStep
<1>0. th \in [Threads -> ThreadState]
  BY DEF TypeInv, TypeOK
<1> USE <1>0 DEF OneMoves, CreatorPcs, LeavingPcs
<1>1. CASE CancelSession(t)
  <2>1. /\ th[t].pc = "cancel" /\ Goto(t, "delete")
        /\ UNCHANGED <<sessions, closeCh, wired, up>>
    BY <1>1 DEF CancelSession, fields, identity
  <2> QED
    BY <2>1, GotoEffect, QuietStep DEF ThreadPcs, TeardownPcs
<1>2. CASE DeleteEntry(t)
  <2>1. /\ th[t].pc = "delete" /\ th[t].id \in Ids /\ UNCHANGED <<closeCh, wired, up>>
        /\ Goto(t, "put") \/ Goto(t, "reset")
        /\ sessions' = [sessions EXCEPT ![th[t].id] = NoObj]
    BY <1>2 DEF DeleteEntry, fields, identity, TypeInv, Holding, HoldsWhatItNeeds, TeardownPcs
  <2>2. OneMoves(t) /\ th'[t].pc \in {"put", "reset"}
    BY <2>1, GotoEffect DEF ThreadPcs, TeardownPcs
  <2>3. creating' = creating /\ born' = born
    BY <2>1, <2>2, CreatingKept, BornKept
  <2>4. leaving' \in {leaving, leaving \ {th[t].id}} /\ th[t].id \in leaving
    BY <2>1, <2>2, LeavingLoses
  <2>5. Registry!Remove(th[t].id)
    BY <2>1, <2>3, <2>4 DEF Registry!Remove
  <2> QED
    BY <2>1, <2>5 DEF RegistryStep, Registry!Next
<1>3. CASE ResetFlags(t) \/ ResetFields(t)
  <2>1. /\ th[t].pc \in {"reset", "clear"} 
        /\ Goto(t, "clear") \/ Goto(t, "put")
        /\ UNCHANGED <<sessions, closeCh, wired, up>>
    BY <1>3 DEF ResetFlags, ResetFields, identity
  <2>2. OneMoves(t) /\ th'[t].pc \in {"clear", "put"}
    BY <2>1, GotoEffect DEF ThreadPcs, TeardownPcs
  <2> QED
    BY <2>1, <2>2, QuietStep
<1>4. CASE PutBack(t)
  <2>1. /\ th[t].pc = "put" /\ (RangeOn(t) \/ Finish(t))
        /\ UNCHANGED <<sessions, closeCh, wired, up>>
    BY <1>4 DEF PutBack, fields, identity
  <2>2. OneMoves(t) /\ th'[t].pc \in {"range", "idle"}
    BY <2>1, RangeOnEffect, FinishEffect
  <2> QED
    BY <2>1, <2>2, QuietStep
<1> QED
  BY <1>1, <1>2, <1>3, <1>4 DEF TeardownStep

\* The steps of the manager's goroutines that take nothing out of the map.
LEMMA ManagerSimulates ==
  ASSUME TypeInv, NEW t \in Threads,
         RangeStep(t) \/ StopLoop(t) \/ (t = Ticker /\ (Tick \/ Claim \/ EndTick))
  PROVE  RegistryStep
<1>0. th \in [Threads -> ThreadState]
  BY DEF TypeInv, TypeOK
<1> USE <1>0 DEF OneMoves, CreatorPcs, LeavingPcs
<1>1. UNCHANGED <<sessions, closeCh, wired, up>>
  BY DEF RangeStep, Skip, Visit, StopLoop, Tick, Claim, EndTick, fields, identity
<1>2. ASSUME NEW id \in Ids, Skip(t, id) PROVE RegistryStep
  <2>1. OneMoves(t) /\ th[t].pc = "range" /\ th'[t].pc = "range"
    BY <1>2, SkipEffect DEF Skip
  <2> QED
    BY <1>1, <2>1, QuietStep
<1>3. ASSUME NEW id \in Ids, Visit(t, id) PROVE RegistryStep
  <2>1. sessions[id] \in Objs /\ th[t].pc = "range"
    BY <1>3 DEF Visit, TypeInv, TypeOK
  <2>2. PICK pc \in {"claim", "cancel"} : TurnTo(t, pc, id)
    BY <1>3 DEF Visit
  <2>3. pc \in ThreadPcs
    BY DEF ThreadPcs, RangePcs, TeardownPcs
  <2>4. OneMoves(t) /\ th'[t].pc = pc /\ th'[t].id = id
    BY <2>1, <2>2, <2>3, TurnToEffect
  <2> QED
    BY <1>1, <2>1, <2>4, QuietStep, LeaveStep
<1>4. CASE StopLoop(t)
  <2>1. th[t].pc = "idle" /\ Goto(t, "stopped")
    BY <1>4 DEF StopLoop
  <2> QED
    BY <1>1, <2>1, GotoEffect, QuietStep DEF ThreadPcs
<1>5. CASE t = Ticker /\ Tick
  <2>1. th[t].pc = "idle" /\ StartRange(t)
    BY <1>5 DEF Tick
  <2> QED
    BY <1>1, <2>1, StartRangeEffect, QuietStep
<1>6. CASE t = Ticker /\ EndTick
  <2>1. th[t].pc = "range" /\ Finish(t)
    BY <1>6 DEF EndTick
  <2> QED
    BY <1>1, <2>1, FinishEffect, QuietStep
<1>7. CASE t = Ticker /\ Claim
  <2>1. th[t].pc = "claim" /\ th[t].id \in Ids /\ (RangeOn(t) \/ Goto(t, "cancel"))
    BY <1>7 DEF Claim, TypeInv, Holding, HoldsWhatItNeeds
  <2>2. CASE RangeOn(t)
    BY <1>1, <2>1, <2>2, RangeOnEffect, QuietStep
  <2>3. CASE Goto(t, "cancel")
    BY <1>1, <2>1, <2>3, GotoEffect, LeaveStep DEF ThreadPcs, TeardownPcs
  <2> QED
    BY <2>1, <2>2, <2>3
<1> QED
  BY <1>2, <1>3, <1>4, <1>5, <1>6, <1>7 DEF RangeStep

\* A notice is taken from closeCh: the receiver goes to remove the session,
\* or finds none.
LEMMA ReceiveSimulates ==
  ASSUME TypeInv, Receive
  PROVE  RegistryStep
<1>0. /\ Receiver \in Threads /\ th[Receiver].pc = "idle"
      /\ th \in [Threads -> ThreadState] /\ UNCHANGED <<sessions, wired, up>>
  BY DEF Threads, Managers, Receive, TypeInv, TypeOK, fields, identity
<1> DEFINE n == Len(closeCh)
<1>1. /\ closeCh \in Seq(Ids \cup {NoId}) /\ closeCh # <<>> /\ n \in Nat /\ n > 0
      /\ Len(closeCh') = n - 1
      /\ \A i \in 1..n - 1 : closeCh'[i] = closeCh[i + 1]
      /\ Head(closeCh) = closeCh[1]
  BY HeadTailProperties, LenProperties, EmptySeq DEF Receive, TypeInv, TypeOK
\* What is in closeCh afterwards was there before; only the id received may
\* be gone.
<1>2. ASSUME NEW id
      PROVE  /\ (\E i \in 1..n - 1 : closeCh'[i] = id) => \E i \in 1..n : closeCh[i] = id
             /\ (\E i \in 1..n : closeCh[i] = id) /\ id # Head(closeCh) =>
                  \E i \in 1..n - 1 : closeCh'[i] = id
  <2>1. ASSUME NEW i \in 1..n - 1 PROVE i + 1 \in 1..n
    BY <1>1
  <2>2. ASSUME NEW i \in 1..n, i # 1 PROVE i - 1 \in 1..n - 1 /\ closeCh'[i - 1] = closeCh[i]
    BY <1>1, <2>2
  <2> QED
    BY <1>1, <2>1, <2>2
<1>3. Head(closeCh) \in Ids => Leaving(Head(closeCh))
  <2>1. 1 \in 1..Len(closeCh)
    BY <1>1
  <2> QED
    BY <1>1, <2>1 DEF Leaving
<1>4. CASE th' = th /\ Lookup(Head(closeCh)) = NoObj
  <2>1. born' = born /\ creating' = creating
    BY <1>0, <1>4 DEF born, creating
  <2>2. ASSUME NEW id \in Ids
        PROVE  /\ Leaving(id)' => Leaving(id)
               /\ Leaving(id) /\ id # Head(closeCh) => Leaving(id)'
    BY <1>1, <1>2, <1>4 DEF Leaving
  <2>3. CASE leaving' = leaving
    BY <1>0, <2>1, <2>3 DEF RegistryStep, Registry!vars
  <2>4. CASE leaving' # leaving
    <3>1. /\ Head(closeCh) \in Ids /\ leaving' = leaving \ {Head(closeCh)}
      BY <2>2, <2>4 DEF leaving
    <3>2. Head(closeCh) \in leaving /\ sessions[Head(closeCh)] = NoObj
      BY <1>3, <1>4, <3>1 DEF leaving, Lookup
    <3>3. Registry!Forget(Head(closeCh))
      BY <1>0, <2>1, <3>1, <3>2 DEF Registry!Forget, Registry!Present
    <3> QED
      BY <3>1, <3>3 DEF RegistryStep, Registry!Next
  <2> QED
    BY <2>3, <2>4
<1>5. CASE TurnTo(Receiver, "cancel", Head(closeCh)) /\ Lookup(Head(closeCh)) # NoObj
  <2>1. Head(closeCh) \in Ids /\ sessions[Head(closeCh)] \in Objs
    BY <1>5 DEF Lookup, TypeInv, TypeOK
  <2>2. /\ OneMoves(Receiver) /\ th'[Receiver].pc = "cancel"
        /\ th'[Receiver].id = Head(closeCh)
    BY <1>0, <1>5, <2>1, TurnToEffect DEF OneMoves, ThreadPcs, TeardownPcs
  <2>3. creating' = creating /\ born' = born
    BY <1>0, <2>2, CreatingKept, BornKept DEF CreatorPcs
  <2>4. PICK k \in Ids : k = Head(closeCh)
    BY <2>1
  <2>5. ASSUME NEW id \in Ids, id # k PROVE Leaving(id)' <=> Leaving(id)
    BY <1>0, <1>1, <1>2, <2>2, <2>4, <2>5 DEF Leaving, OneMoves
  <2>6. Leaving(k) /\ Leaving(k)'
    BY <1>0, <1>3, <2>2, <2>4 DEF Leaving
  <2>7. leaving' = leaving
    BY <2>5, <2>6 DEF leaving
  <2> QED
    BY <1>0, <2>3, <2>7 DEF RegistryStep, Registry!vars
<1> QED
  BY <1>4, <1>5 DEF Receive

LEMMA ShutdownSimulates ==
  ASSUME TypeInv, ShutdownInv, StartClose \/ EndClose
  PROVE  RegistryStep
<1>0. UNCHANGED <<sessions, closeCh, wired>>
  BY DEF StartClose, EndClose, fields, identity
<1>1. OneMoves(Closer) /\ Closer \in Threads
  BY CloserIsAlone DEF OneMoves, StartClose, EndClose, StartRange, Goto, TypeInv, TypeOK
<1>2. /\ {th[Closer].pc, th'[Closer].pc} \cap LeavingPcs = {}
      /\ {th[Closer].pc, th'[Closer].pc} \cap CreatorPcs = {}
      /\ "store" \notin {th[Closer].pc, th'[Closer].pc}
  <2>1. CASE StartClose
    <3>1. th[Closer].pc = "idle" /\ th'[Closer].pc = "range"
      BY <1>1, <2>1, StartRangeEffect DEF StartClose, TypeInv, TypeOK
    <3> QED
      BY <3>1 DEF LeavingPcs, CreatorPcs
  <2>2. CASE EndClose
    <3>1. th[Closer].pc = "range" /\ th'[Closer].pc = "stopped"
      BY <1>1, <2>2, GotoEffect DEF EndClose, ThreadPcs, TypeInv, TypeOK
    <3> QED
      BY <3>1 DEF LeavingPcs, CreatorPcs
  <2> QED
    BY <2>1, <2>2
<1>3. leaving' = leaving /\ creating' = creating /\ born' = born
  BY <1>0, <1>1, <1>2, LeavingKept, CreatingKept, BornKept
<1>4. CASE StartClose
  <2>1. creating = {}
    BY <1>4 DEF StartClose, creating, CreatorPcs
  <2>2. Registry!Close
    BY <1>0, <1>3, <1>4, <2>1 DEF StartClose, Registry!Close
  <2> QED
    BY <2>2 DEF RegistryStep, Registry!Next
<1>5. CASE EndClose
  <2>1. th[Closer].pc = "range" /\ th[Closer].todo = {}
    BY <1>5 DEF EndClose
  <2>2. up = "closing"
    BY <2>1 DEF ShutdownInv, TypeInv, TypeOK
  <2>3. \A id \in Ids : sessions[id] = NoObj
    BY <2>1, <2>2 DEF ShutdownInv, ToBeClosed
  <2>4. Registry!Down
    BY <1>0, <1>3, <1>5, <2>2, <2>3 DEF EndClose, Registry!Down, Registry!Present
  <2> QED
    BY <2>4 DEF RegistryStep, Registry!Next
<1> QED
  BY <1>4, <1>5

\* Session.Run sends its notice.
LEMMA RunSendSimulates ==
  ASSUME TypeInv, NEW g \in Gens, RunSend(g)
  PROVE  RegistryStep
<1> DEFINE n == Len(closeCh)
           k == run[g].msg
<1>1. closeCh \in Seq(Ids \cup {NoId}) /\ k \in Ids \cup {NoId}
  BY DEF TypeInv, TypeOK, RunState
<1>2. /\ n \in Nat /\ Len(closeCh') = n + 1 /\ closeCh'[n + 1] = k
      /\ \A i \in 1..n : closeCh'[i] = closeCh[i]
  BY <1>1, AppendProperties, LenProperties DEF RunSend
<1>3. UNCHANGED <<sessions, wired, up, th>>
  BY DEF RunSend, fields, identity
<1>4. born' = born /\ creating' = creating
  BY <1>3 DEF born, creating
<1>5. ASSUME NEW id
      PROVE  (\E i \in 1..n + 1 : closeCh'[i] = id) <=>
             (\E i \in 1..n : closeCh[i] = id) \/ id = k
  <2>1. \A i \in 1..n + 1 : i \in 1..n \/ i = n + 1
    BY <1>2
  <2>2. n + 1 \in 1..n + 1 /\ \A i \in 1..n : i \in 1..n + 1
    BY <1>2
  <2> QED
    BY <1>2, <2>1, <2>2
<1>6. ASSUME NEW id \in Ids PROVE Leaving(id)' <=> Leaving(id) \/ id = k
  BY <1>2, <1>3, <1>5 DEF Leaving
<1> HIDE DEF k
<1>7. CASE k \in Ids
  <2>1. leaving' = leaving \cup {k}
    BY <1>6, <1>7 DEF leaving
  <2>2. Registry!Leave(k)
    BY <1>3, <1>4, <2>1 DEF Registry!Leave
  <2> QED
    BY <1>7, <2>2 DEF RegistryStep, Registry!Next
<1>8. CASE k \notin Ids
  <2>1. leaving' = leaving
    BY <1>6, <1>8 DEF leaving
  <2> QED
    BY <1>3, <1>4, <2>1 DEF RegistryStep, Registry!vars
<1> QED
  BY <1>7, <1>8

LEMMA RunSimulates ==
  ASSUME TypeInv, NEW g \in Gens, RunMoves(g) \/ RunReads(g)
  PROVE  RegistryStep
<1>1. CASE RunSend(g)
  BY <1>1, RunSendSimulates
<1>2. CASE ~RunSend(g)
  <2>1. UNCHANGED <<sessions, closeCh, wired, up, th>>
    BY <1>2
    DEF RunMoves, RunReads, RunStart, RunCannotStart, RunHead, RunStops, RunUpdates,
        RunReopens, RunClean, RunMark, RunName, RunFrame, RunEOF, RunFails, fields, identity
  <2> QED
    BY <2>1, UnseenStep
<1> QED
  BY <1>1, <1>2

LEMMA RecorderSimulates ==
  ASSUME NEW o \in Objs, RecorderStep(o)
  PROVE  RegistryStep
<1>1. UNCHANGED <<sessions, closeCh, wired, up, th>>
  BY DEF RecorderStep, RecorderHead, RecorderEnds, RecorderSegment, RecorderFails,
         RecorderAsks, RecorderReopens, identity
<1> QED
  BY <1>1, UnseenStep

LEMMA StepSimulates ==
  ASSUME Recycle = FALSE, TypeInv, Sound, ShutdownInv, [Next]_vars
  PROVE  [Registry!Next]_(Registry!vars)
<1> SUFFICES RegistryStep
  BY DEF RegistryStep
<1>1. CASE UNCHANGED vars
  BY <1>1, UnseenStep DEF vars, fields, identity
<1>2. ASSUME NEW c \in Callers,
             (\E op \in Ops, id \in Ids : Request(c, op, id)) \/ HandlerStep(c)
      PROVE  RegistryStep
  BY <1>2, HandlerSimulates, AcquireSimulates, StoreSimulates, PullerSimulates
  DEF HandlerStep
<1>3. ASSUME NEW t \in Threads, TeardownStep(t) \/ RangeStep(t) \/ StopLoop(t)
      PROVE  RegistryStep
  BY <1>3, TeardownSimulates, ManagerSimulates
<1>4. CASE Receive \/ Tick \/ Claim \/ EndTick \/ StartClose \/ EndClose
  <2>1. Ticker \in Threads
    BY DEF Threads, Managers
  <2>2. CASE Tick \/ Claim \/ EndTick
    BY <2>1, <2>2, ManagerSimulates
  <2>3. CASE Receive \/ StartClose \/ EndClose
    BY <2>3, ReceiveSimulates, ShutdownSimulates
  <2> QED
    BY <1>4, <2>2, <2>3
<1>5. ASSUME NEW g \in Gens, RunMoves(g) \/ RunReads(g) PROVE RegistryStep
  BY <1>5, RunSimulates
<1>6. ASSUME NEW o \in Objs, RecorderStep(o) PROVE RegistryStep
  BY <1>6, RecorderSimulates
<1> QED
  BY <1>1, <1>2, <1>3, <1>4, <1>5, <1>6 DEF Next

LEMMA InitSimulates == Init => Registry!Init
<1> SUFFICES ASSUME Init PROVE Registry!Init
  OBVIOUS
<1>1. born = {} /\ creating = {}
  BY DEF Init, born, creating, CreatorPcs, Resting, Threads
<1>2. leaving = {}
  <2>1. ~\E i \in 1..Len(closeCh) : TRUE
    BY DEF Init
  <2> QED
    BY <2>1 DEF Init, leaving, Leaving, Resting
<1> QED
  BY <1>1, <1>2 DEF Init, Registry!Init

(***************************************************************************)
(* The theorem                                                             *)
(***************************************************************************)
\* Whatever the goroutines of the engine do, an observer of the map sees
\* sessions registered once, by creations in progress, and removed only as
\* SessionRegistry says.
THEOREM FreshImplementsRegistry == ASSUME Recycle = FALSE PROVE Spec => Registry!Spec
<1>1. Init => TypeInv /\ Sound /\ ShutdownInv
  BY TypeInit, SoundInit, ShutdownInit
<1>2. TypeInv /\ Sound /\ ShutdownInv /\ [Next]_vars => (TypeInv /\ Sound /\ ShutdownInv)'
  BY TypeStep, SoundStep, ShutdownStep
<1>3. TypeInv /\ Sound /\ ShutdownInv /\ [Next]_vars => [Registry!Next]_(Registry!vars)
  BY StepSimulates
<1> QED
  BY <1>1, <1>2, <1>3, InitSimulates, PTL DEF Spec, Registry!Spec
=============================================================================
