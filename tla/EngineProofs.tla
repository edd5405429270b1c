---------------------------- MODULE EngineProofs ----------------------------
(***************************************************************************)
(* A shutdown leaves nothing, and no request is admitted to a host without *)
(* room, proved for any number of ids and requests, whatever limits        *)
(* clients name and whatever the host reports.                             *)
(***************************************************************************)
EXTENDS Engine, TLAPS

Starting == {"build", "run"}
NoCall == \A q \in Calls \cup PeerCalls : at[q].pc = "none"
Deaf == \A s \in Servers : server[s].pc = "serve" => server[s].closed

\* Nothing comes in before Run has started the servers.
NothingYet ==
  main \in Starting =>
    sessions = {} /\ NoCall /\ \A s \in Servers : server[s].pc = "off"

\* How far a shutdown has come: it closes the servers in their order, ...
Closing ==
  /\ main \in {"shut", "drain", "range"} => server["grpc"].closed
  /\ main \in {"drain", "range"} => server["http"].closed

\* ... then waits for the handlers, then ends the sessions it comes to.
Emptying ==
  main = "range" =>
    /\ \A q \in Calls : at[q].pc = "none"
    /\ sessions \subseteq todo

\* A request that is to be checked has a limit that Validate let pass.
Bound == \A q \in Calls : at[q].pc = "check" => ValidLimit(at[q].limit)

\* Every request that is not answered names a session.
Named ==
  \A q \in Calls \cup PeerCalls : at[q].pc \notin {"none", "reply"} => at[q].id \in Ids

EngineInv ==
  TypeOK /\ NothingYet /\ Closing /\ Emptying /\ Bound /\ Named /\ NothingLeft

(***************************************************************************)
(* What a step makes of the requests                                       *)
(***************************************************************************)
CallState ==
  [pc : CallPcs, op : HttpOps \cup GrpcOps, id : Ids \cup {""}, limit : Limits]

LEMMA IdleState == Idle \in CallState /\ Idle.pc = "none"
  BY EngineAssumption DEF Idle, CallState, CallPcs, GrpcOps

\* Request q moves on, and no other.
Moves(q) ==
  /\ at' \in [Calls \cup PeerCalls -> CallState]
  /\ \A p \in (Calls \cup PeerCalls) \ {q} : at'[p] = at[p]

LEMMA SetMoves ==
  ASSUME TypeOK, NEW q \in Calls \cup PeerCalls, NEW r \in CallState,
         at' = [at EXCEPT ![q] = r]
  PROVE  Moves(q) /\ at'[q] = r
<1>1. at \in [Calls \cup PeerCalls -> CallState]
  BY DEF TypeOK, CallState
<1> QED
  BY <1>1 DEF Moves

LEMMA DoneMoves ==
  ASSUME TypeOK, NEW q \in Calls \cup PeerCalls, Done(q)
  PROVE  Moves(q) /\ at'[q].pc = "none"
  BY IdleState, SetMoves DEF Done

\* The answer of a request keeps no session.
LEMMA AnswerMoves ==
  ASSUME TypeOK, NEW q \in Calls \cup PeerCalls, Answer(q)
  PROVE  Moves(q) /\ at'[q].pc = "reply"
<1> DEFINE r == [Idle EXCEPT !.pc = "reply"]
<1>1. r \in CallState /\ r.pc = "reply"
  BY IdleState DEF CallState, CallPcs
<1>2. at' = [at EXCEPT ![q] = r]
  BY DEF Answer
<1> QED
  BY <1>1, <1>2, SetMoves

LEMMA GoOnMoves ==
  ASSUME TypeOK, NEW q \in Calls \cup PeerCalls, NEW pc \in CallPcs, GoOn(q, pc)
  PROVE  /\ Moves(q) /\ at'[q].pc = pc
         /\ at'[q].limit = at[q].limit /\ at'[q].id = at[q].id
<1> DEFINE r == [at[q] EXCEPT !.pc = pc]
<1>1. at[q] \in CallState
  BY DEF TypeOK, CallState
<1>2. r \in CallState /\ r.pc = pc /\ r.limit = at[q].limit /\ r.id = at[q].id
  BY <1>1 DEF CallState
<1>3. at' = [at EXCEPT ![q] = r]
  BY DEF GoOn
<1> QED
  BY <1>2, <1>3, SetMoves

LEMMA ZeroOrOne == \A n : n \in 0..1 <=> n \in {0, 1}
  OBVIOUS

LEMMA EngineInit == Init => EngineInv
<1> SUFFICES ASSUME Init PROVE EngineInv
  OBVIOUS
<1>1. TypeOK
  <2>1. at \in [Calls \cup PeerCalls -> CallState]
    BY IdleState DEF Init
  <2> QED
    BY <2>1, ZeroOrOne DEF Init, TypeOK, CallState, MainPcs, ServerPcs
<1>2. NothingYet /\ Closing /\ Emptying /\ Bound /\ Named /\ NothingLeft
  BY DEF Init, NothingYet, NoCall, Closing, Emptying, Bound, Named, NothingLeft, Idle
<1> QED
  BY <1>1, <1>2 DEF EngineInv

(***************************************************************************)
(* main and the servers                                                    *)
(***************************************************************************)
LEMMA MainKeeps ==
  ASSUME EngineInv,
         \/ NewDetectEngine \/ NewStoreFails \/ RunEngine \/ Notify
         \/ CloseStep \/ Signal
  PROVE  EngineInv'
<1> USE DEF EngineInv, Main
<1>1. CASE NewDetectEngine \/ NewStoreFails \/ RunEngine \/ Notify
  <2>1. server' \in [Servers -> [pc : ServerPcs, closed : BOOLEAN]]
    <3>1. \A s \in Servers : [server[s] EXCEPT !.pc = "listen"] \in
                               [pc : ServerPcs, closed : BOOLEAN]
      BY DEF TypeOK, ServerPcs
    <3>2. CASE RunEngine
      BY <3>1, <3>2 DEF RunEngine
    <3> QED
      BY <1>1, <3>2 DEF NewDetectEngine, NewStoreFails, Notify, TypeOK
  <2>2. main' \in MainPcs /\ UNCHANGED <<endCh, sessions, todo, at>>
    BY <1>1 DEF NewDetectEngine, NewStoreFails, RunEngine, Notify, MainPcs
  <2>3. TypeOK'
    BY <2>1, <2>2 DEF TypeOK
  <2>4. NothingYet' /\ Closing' /\ Emptying' /\ Bound' /\ Named'
    BY <1>1 DEF NewDetectEngine, NewStoreFails, RunEngine, Notify, NothingYet, NoCall,
                Starting, Closing, Emptying, Bound, Named
  <2>5. NothingLeft'
    BY <1>1 DEF NewDetectEngine, NewStoreFails, RunEngine, Notify, NothingYet, NoCall,
                Starting, NothingLeft
  <2> QED
    BY <2>3, <2>4, <2>5
<1>2. CASE Wake \/ Signal
  <2>1. TypeOK'
    <3>1. main' \in MainPcs
      BY <1>2 DEF Wake, Signal, TypeOK, MainPcs
    <3>2. endCh' \in 0..1 /\ UNCHANGED <<server, sessions, todo, at>>
      BY <1>2, ZeroOrOne DEF Wake, Signal, TypeOK
    <3> QED
      BY <3>1, <3>2 DEF TypeOK
  <2>2. NothingYet' /\ Closing' /\ Emptying' /\ Bound' /\ Named' /\ NothingLeft'
    BY <1>2 DEF Wake, Signal, NothingYet, NoCall, Starting, Closing, Emptying, Bound, Named,
                NothingLeft
  <2> QED
    BY <2>1, <2>2
<1>3. CASE StopPeer \/ Shutdown \/ Drained
  <2>1. TypeOK'
    BY <1>3 DEF StopPeer, Shutdown, Drained, TypeOK, MainPcs, Servers
  <2>2. NothingYet' /\ Bound' /\ Named' /\ NothingLeft'
    BY <1>3 DEF StopPeer, Shutdown, Drained, NothingYet, Starting, Bound, Named, NothingLeft
  <2>3. Closing'
    BY <1>3 DEF StopPeer, Shutdown, Drained, Closing, TypeOK, Servers
  <2>4. Emptying'
    BY <1>3 DEF StopPeer, Shutdown, Drained, Emptying, TypeOK
  <2> QED
    BY <2>1, <2>2, <2>3, <2>4
<1>4. ASSUME NEW id \in Ids, CloseSession(id) PROVE EngineInv'
  <2>1. TypeOK'
    BY <1>4 DEF CloseSession, TypeOK
  <2>2. Closing' /\ Emptying' /\ Bound' /\ Named' /\ NothingYet' /\ NothingLeft'
    BY <1>4 DEF CloseSession, Closing, Emptying, Bound, Named, NothingYet, Starting, NothingLeft
  <2> QED
    BY <2>1, <2>2
<1>5. CASE CloseEnds
  <2>1. TypeOK' /\ Bound' /\ Named' /\ NothingYet' /\ Closing' /\ Emptying'
    BY <1>5 DEF CloseEnds, TypeOK, MainPcs, Bound, Named, NothingYet, Starting, Closing, Emptying
  <2>2. NothingLeft'
    BY <1>5 DEF CloseEnds, Emptying, Closing, NothingLeft, Servers
  <2> QED
    BY <2>1, <2>2
<1> QED
  BY <1>1, <1>2, <1>3, <1>4, <1>5 DEF CloseStep

LEMMA ServerKeeps ==
  ASSUME EngineInv, NEW s \in Servers, ~Over, ServerStep(s) \/ ServerFails(s)
  PROVE  EngineInv'
<1> USE DEF EngineInv
<1>1. /\ UNCHANGED <<main, sessions, todo, at>>
      /\ endCh' \in {endCh, 1} /\ server[s].pc # "off"
  BY DEF ServerStep, ServerListens, ServerReturns, ServerTells, ServerFails
<1>2. PICK pc \in ServerPcs : server' = [server EXCEPT ![s].pc = pc]
  BY DEF ServerStep, ServerListens, ServerReturns, ServerTells, ServerFails, ServerPcs
<1>3. /\ server' \in [Servers -> [pc : ServerPcs, closed : BOOLEAN]]
      /\ \A r \in Servers : server'[r].closed = server[r].closed
      /\ \A r \in Servers \ {s} : server'[r] = server[r]
  BY <1>2 DEF TypeOK
<1>4. TypeOK'
  BY <1>1, <1>3, ZeroOrOne DEF TypeOK
<1>5. NothingYet' /\ Closing' /\ Emptying' /\ Bound' /\ Named'
  BY <1>1, <1>3 DEF NothingYet, NoCall, Closing, Emptying, Bound, Named, Servers
<1>6. NothingLeft'
  BY <1>1 DEF Over, NothingLeft
<1> QED
  BY <1>4, <1>5, <1>6

(***************************************************************************)
(* Requests and sessions                                                   *)
(***************************************************************************)
\* A step of one request. It arrives at a server that serves, or it was in
\* progress already; only an HTTP request can add a session.
CallStep(q) ==
  /\ UNCHANGED <<main, endCh, server, todo>>
  /\ Moves(q)
  /\ \/ at[q].pc # "none"
     \/ /\ \E s \in Servers : server[s].pc = "serve"
        /\ q \in Calls => ~server["http"].closed
  /\ at'[q].pc = "check" => ValidLimit(at'[q].limit)
  /\ at'[q].pc \notin {"none", "reply"} => at'[q].id \in Ids
  /\ sessions' \subseteq Ids
  /\ sessions' \subseteq sessions \/ (q \in Calls /\ at[q].pc # "none")

LEMMA CallKeeps ==
  ASSUME EngineInv, NEW q \in Calls \cup PeerCalls, ~Over, CallStep(q)
  PROVE  EngineInv'
<1> USE DEF EngineInv, CallStep, Moves
<1>1. NothingYet'
  BY DEF NothingYet, NoCall
<1>2. Closing' /\ Bound' /\ Named'
  BY DEF Closing, Bound, Named
<1>3. Emptying'
  BY EngineAssumption DEF Emptying, Closing
<1>4. NothingLeft'
  BY DEF Over, NothingLeft
<1>5. TypeOK'
  BY DEF TypeOK, CallState
<1> QED
  BY <1>1, <1>2, <1>3, <1>4, <1>5

LEMMA ArriveStep ==
  ASSUME TypeOK, NEW q \in Calls, NEW op \in HttpOps, NEW id \in Ids,
         NEW limit \in Limits, Arrive(q, op, id, limit)
  PROVE  CallStep(q)
<1> DEFINE r == [pc |-> "auth", op |-> op, id |-> id, limit |-> limit]
<1>1. r \in CallState /\ r.pc = "auth" /\ r.id \in Ids
  BY DEF CallState, CallPcs
<1>2. at' = [at EXCEPT ![q] = r]
  BY DEF Arrive
<1>3. Moves(q) /\ at'[q] = r
  BY <1>1, <1>2, SetMoves
<1> QED
  BY <1>1, <1>3 DEF Arrive, CallStep, Servers, TypeOK

\* The request is answered, is over, or goes on past its check.
LEMMA AnswerStep ==
  ASSUME TypeOK, Named, NEW q \in Calls \cup PeerCalls, at[q].pc # "none",
         UNCHANGED <<main, endCh, server, todo>>,
         sessions' \subseteq Ids, sessions' \subseteq sessions \/ q \in Calls,
         \/ Answer(q) \/ Done(q)
         \/ \E pc \in CallPcs \ {"check", "none", "reply"} :
              GoOn(q, pc) /\ at[q].pc # "reply"
  PROVE  CallStep(q)
<1>1. /\ Moves(q) /\ at'[q].pc # "check"
      /\ at'[q].pc \notin {"none", "reply"} => at'[q].id \in Ids
  BY AnswerMoves, DoneMoves, GoOnMoves DEF Named
<1> QED
  BY <1>1 DEF CallStep

LEMMA CheckStep ==
  ASSUME TypeOK, Named, NEW q \in Calls, Check(q)
  PROVE  CallStep(q)
<1>1. CASE Answer(q)
  BY <1>1, AnswerStep DEF Check, TypeOK
<1>2. CASE ~Answer(q)
  <2> DEFINE pc == IF at[q].op = "Test" THEN "ai" ELSE "load"
             r == [at[q] EXCEPT !.pc = pc, !.limit = 0]
  <2>1. at[q] \in CallState
    BY DEF TypeOK, CallState
  <2>2. r \in CallState /\ r.pc # "check" /\ r.id = at[q].id
    BY <2>1, EngineAssumption DEF CallState, CallPcs
  <2>3. at' = [at EXCEPT ![q] = r]
    BY <1>2 DEF Check
  <2>4. Moves(q) /\ at'[q] = r
    BY <2>2, <2>3, SetMoves
  <2> QED
    BY <2>2, <2>4 DEF Check, CallStep, TypeOK, Named
<1> QED
  BY <1>1, <1>2

LEMMA HttpKeeps ==
  ASSUME EngineInv, NEW q \in Calls, ~Over,
         \/ \E op \in HttpOps, id \in Ids, limit \in Limits : Arrive(q, op, id, limit)
         \/ HttpStep(q) \/ AIAnswers(q) \/ Replied(q) \/ RemoveSession(q)
  PROVE  EngineInv'
<1>0. TypeOK /\ Named /\ at[q] \in CallState /\ sessions \subseteq Ids
  BY DEF EngineInv, TypeOK, CallState
<1>1. CASE Auth(q) \/ AIAnswers(q) \/ Replied(q) \/ UseSession(q) \/ RemoveSession(q)
  BY <1>0, <1>1, AnswerStep, CallKeeps
  DEF Auth, AIAnswers, Replied, UseSession, RemoveSession, CallPcs
<1>2. CASE Bind(q)
  <2>1. CASE GoOn(q, "check") /\ ValidLimit(at[q].limit)
    <3>1. Moves(q) /\ at'[q].limit = at[q].limit /\ at'[q].id = at[q].id
      BY <1>0, <2>1, GoOnMoves DEF CallPcs
    <3>2. CallStep(q)
      BY <1>0, <1>2, <2>1, <3>1 DEF Bind, CallStep, Named
    <3> QED
      BY <3>2, CallKeeps
  <2>2. CASE GoOn(q, "load") \/ Answer(q)
    BY <1>0, <1>2, <2>2, AnswerStep, CallKeeps DEF Bind, CallPcs
  <2> QED
    BY <1>2, <2>1, <2>2 DEF Bind
<1>3. CASE LoadSession(q) \/ CreateSession(q)
  <2>1. /\ at[q].pc \notin {"none", "reply"} /\ UNCHANGED <<main, endCh, server, todo>>
        /\ Answer(q) \/ \E pc \in CallPcs \ {"check", "none", "reply"} : GoOn(q, pc)
    BY <1>3 DEF LoadSession, CreateSession, CallPcs
  <2>2. sessions' \subseteq Ids
    <3>1. at[q].pc = "create" => at[q].id \in Ids
      BY DEF EngineInv, Named
    <3> QED
      BY <1>0, <1>3, <3>1 DEF LoadSession, CreateSession
  <2> QED
    BY <1>0, <2>1, <2>2, AnswerStep, CallKeeps
<1> QED
  BY <1>0, <1>1, <1>2, <1>3, ArriveStep, CheckStep, CallKeeps DEF HttpStep

LEMMA PeerKeeps ==
  ASSUME EngineInv, NEW p \in PeerCalls, ~Over,
         \/ \E op \in GrpcOps, id \in Ids : PeerArrive(p, op, id)
         \/ PeerStep(p) \/ RemoveSession(p)
  PROVE  EngineInv'
<1>0. TypeOK /\ Named /\ p \notin Calls
  BY EngineAssumption DEF EngineInv
<1>1. ASSUME NEW op \in GrpcOps, NEW id \in Ids, PeerArrive(p, op, id) PROVE EngineInv'
  <2> DEFINE r == [Idle EXCEPT !.pc = "peer", !.op = op, !.id = id]
  <2>1. r \in CallState /\ r.pc = "peer" /\ r.id \in Ids
    BY IdleState DEF CallState, CallPcs
  <2>2. at' = [at EXCEPT ![p] = r]
    BY <1>1 DEF PeerArrive
  <2>3. Moves(p) /\ at'[p] = r
    BY <1>0, <2>1, <2>2, SetMoves
  <2>4. CallStep(p)
    BY <1>0, <1>1, <2>1, <2>3 DEF PeerArrive, CallStep, Servers, TypeOK
  <2> QED
    BY <2>4, CallKeeps
<1>2. CASE PeerOther(p) \/ RemoveSession(p)
  BY <1>0, <1>2, AnswerStep, CallKeeps DEF PeerOther, RemoveSession, TypeOK
<1>3. CASE PeerCreateSession(p)
  BY <1>3 DEF PeerCreateSession, EngineInv, TypeOK, MainPcs, NothingYet, Starting, Closing,
              Emptying, Bound, Named, NothingLeft
<1> QED
  BY <1>1, <1>2, <1>3 DEF PeerStep

LEMMA EndKeeps ==
  ASSUME EngineInv, NEW id \in Ids, SessionEnds(id)
  PROVE  EngineInv'
  BY DEF EngineInv, SessionEnds, TypeOK, NothingYet, NoCall, Closing, Emptying, Bound,
         Named, NothingLeft

LEMMA EngineStep == EngineInv /\ [Next]_vars => EngineInv'
<1> SUFFICES ASSUME EngineInv, [Next]_vars PROVE EngineInv'
  OBVIOUS
<1>1. CASE UNCHANGED vars
  BY <1>1 DEF vars, EngineInv, TypeOK, NothingYet, NoCall, Closing, Emptying, Bound,
              Named, NothingLeft
<1>2. CASE Next
  BY <1>2, MainKeeps, ServerKeeps, HttpKeeps, PeerKeeps, EndKeeps DEF Next
<1> QED
  BY <1>1, <1>2

(***************************************************************************)
(* The theorems                                                            *)
(***************************************************************************)
\* The invariant, from which the others follow.
THEOREM AlwaysEngineInv == Spec => []EngineInv
  BY EngineInit, EngineStep, PTL DEF Spec

\* Every value of Engine keeps its type; ch holds one signal at most.
THEOREM EngineTypes == Spec => []TypeOK
<1>1. EngineInv => TypeOK
  BY DEF EngineInv
<1> QED
  BY <1>1, AlwaysEngineInv, PTL

\* main returns from a shutdown only when the registry is empty, no HTTP
\* request is in progress and no server serves.
THEOREM ShutdownLeavesNothing == Spec => []NothingLeft
<1>1. EngineInv => NothingLeft
  BY DEF EngineInv
<1> QED
  BY <1>1, AlwaysEngineInv, PTL

\* For every limit that Validate lets pass, 0 and 100 included, a host that
\* has enough has room.
LEMMA EnoughIsRoom ==
  ASSUME NEW limit \in Int, ValidLimit(limit), NEW st \in Status, Enough(st, limit)
  PROVE  Room(st, limit)
<1>1. st.cpu \in 0..100 /\ st.memory \in 0..100
  BY EngineAssumption DEF Status
<1> QED
  BY <1>1 DEF ValidLimit, Enough, Room

\* Admission keeps to the limit of the request and to its default, for both
\* loads.
THEOREM AlwaysRoom == Spec => []RoomWhenLetIn
<1>1. EngineInv => RoomWhenLetIn
  <2> SUFFICES ASSUME EngineInv, NEW q \in Calls, at[q].pc = "check",
                      NEW st \in Status, Enough(st, at[q].limit)
               PROVE  Room(st, at[q].limit)
    BY DEF RoomWhenLetIn
  <2>1. at[q].limit \in Int /\ ValidLimit(at[q].limit)
    BY EngineAssumption DEF EngineInv, Bound, TypeOK
  <2> QED
    BY <2>1, EnoughIsRoom
<1> QED
  BY <1>1, AlwaysEngineInv, PTL
=============================================================================
