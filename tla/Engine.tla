------------------------------- MODULE Engine -------------------------------
(***************************************************************************)
(* The process around the session registry: main (cmd/main.go), the        *)
(* DetectionEngine that builds, runs and closes the HTTP server, the gRPC  *)
(* server and the SessionManager (engine/engine.go), and the requests that *)
(* come to the two servers (engine/engine_http.go, engine_grpc.go) with    *)
(* their admission check (engine/detect.go, engine/dto.go).                *)
(*                                                                         *)
(* What a session does is SessionManager's and Stream's: here it is an     *)
(* entry of the registry that requests make and remove, that may go by     *)
(* itself, and that a shutdown must not leave behind.                      *)
(***************************************************************************)
EXTENDS Integers, FiniteSets

CONSTANTS
  Ids,        \* session ids that clients use
  Calls,      \* HTTP requests in progress at once
  PeerCalls,  \* gRPC requests in progress at once
  Limits,     \* values of maxResourcesUsed in requests
  Loads       \* the load, in per cent, that the AI service's host may report

ASSUME EngineAssumption ==
  /\ Calls \cap PeerCalls = {}
  /\ Limits \subseteq Int /\ Loads \subseteq 0..100 /\ 0 \in Limits

VARIABLES
  main,      \* where main is: NewDetectEngine, Run, Notify, <-ch, Close
  endCh,     \* how many signals the channel ch, of capacity one, holds
  server,    \* the goroutines of the servers, and whether each was closed
  sessions,  \* the ids in the registry
  todo,      \* SessionManager.Close: the keys that Range has yet to come to
  at         \* the requests

vars == <<main, endCh, server, sessions, todo, at>>

Servers == {"http", "grpc"}
MainPcs == {"build", "run", "notify", "wait", "stop", "shut", "drain",
            "range", "exit", "killed", "crashed"}
ServerPcs == {"off", "listen", "serve", "tell", "gone"}

\* What the status URL of the host answers; a time-out, a body that does not
\* decode and "success": false are all an error to the handlers.
Status == [valid : BOOLEAN, gpu : BOOLEAN, cpu : Loads, memory : Loads]

\* The handlers that change something or are admitted; only the latter have
\* a limit.
HttpOps == {"Test", "CreateSession", "StartDetect", "StartRecord", "RemoveSession"}
Admitted == {"Test", "StartDetect"}
WithBody == HttpOps \ {"RemoveSession"}
GrpcOps == {"CreateSession", "RemoveSession", "Other"}
CallPcs == {"none", "auth", "bind", "check", "ai", "load", "create", "use", "reply", "peer"}

Idle == [pc |-> "none", op |-> "Other", id |-> "", limit |-> 0]

TypeOK ==
  /\ main \in MainPcs
  /\ endCh \in 0..1
  /\ server \in [Servers -> [pc : ServerPcs, closed : BOOLEAN]]
  /\ sessions \subseteq Ids /\ todo \subseteq Ids
  /\ at \in [Calls \cup PeerCalls ->
               [pc : CallPcs, op : HttpOps \cup GrpcOps, id : Ids \cup {""}, limit : Limits]]

Init ==
  /\ main = "build" /\ endCh = 0
  /\ server = [s \in Servers |-> [pc |-> "off", closed |-> FALSE]]
  /\ sessions = {} /\ todo = {}
  /\ at = [q \in Calls \cup PeerCalls |-> Idle]

(***************************************************************************)
(* Admission                                                               *)
(***************************************************************************)
\* Mutant: one of the two loads may be over the limit.
EitherBelow(st, limit) ==
  st.valid /\ (st.gpu \/ st.cpu < limit \/ st.memory < limit)

\* The struct tag of maxResourcesUsed, gte=0,lte=100.
ValidLimit(limit) == limit \in 0..100

\* CheckDetectHostServiceResources: no limit is a limit of 90, a host with a
\* GPU has always enough.
Enough(st, limit) ==
  LET used == IF limit > 100 \/ limit <= 0 THEN 90 ELSE limit IN
  st.valid /\ (st.gpu \/ (st.cpu < used /\ st.memory < used))

(***************************************************************************)
(* main and DetectionEngine                                                *)
(***************************************************************************)
Main(from, to) == main = from /\ main' = to

NewDetectEngine ==
  /\ Main("build", "run")
  /\ UNCHANGED <<endCh, server, sessions, todo, at>>

\* Without a configuration, or a Redis that answers, main returns.
NewStoreFails ==
  /\ Main("build", "exit")
  /\ UNCHANGED <<endCh, server, sessions, todo, at>>

\* DetectionEngine.Run starts a goroutine for each server.
RunEngine ==
  /\ Main("run", "notify")
  /\ server' = [s \in Servers |-> [server[s] EXCEPT !.pc = "listen"]]
  /\ UNCHANGED <<endCh, sessions, todo, at>>

Notify ==
  /\ Main("notify", "wait")
  /\ UNCHANGED <<endCh, server, sessions, todo, at>>

\* Mutant: the channel holds a signal more for each one sent.
SignalQueues ==
  /\ \/ main \in {"build", "run", "notify"} /\ main' = "killed" /\ UNCHANGED endCh
     \/ main \notin {"build", "run", "notify"} /\ endCh' = endCh + 1 /\ UNCHANGED main
  /\ UNCHANGED <<server, sessions, todo, at>>

\* SIGINT or SIGTERM. Until signal.Notify it has its default action, the end
\* of the process; then it is put into ch, or lost when ch is full.
Signal ==
  /\ \/ main \in {"build", "run", "notify"} /\ main' = "killed" /\ UNCHANGED endCh
     \/ main \notin {"build", "run", "notify"} /\ endCh = 0 /\ endCh' = 1 /\ UNCHANGED main
  /\ UNCHANGED <<server, sessions, todo, at>>

\* The address may be in use; a server that was closed does not serve.
ServerListens(s) ==
  /\ server[s].pc = "listen"
  /\ \/ ~server[s].closed /\ server' = [server EXCEPT ![s].pc = "serve"]
     \/ server' = [server EXCEPT ![s].pc = "tell"]
  /\ UNCHANGED <<main, endCh, sessions, todo, at>>

ServerFails(s) ==
  /\ server[s].pc = "serve" /\ ~server[s].closed
  /\ server' = [server EXCEPT ![s].pc = "tell"]
  /\ UNCHANGED <<main, endCh, sessions, todo, at>>

ServerReturns(s) ==
  /\ server[s].pc = "serve" /\ server[s].closed
  /\ server' = [server EXCEPT ![s].pc = "tell"]
  /\ UNCHANGED <<main, endCh, sessions, todo, at>>

\* Mutant: main is not told that a server has gone.
ServerGoesSilently(s) ==
  /\ server[s].pc = "tell"
  /\ server' = [server EXCEPT ![s].pc = "gone"]
  /\ UNCHANGED <<main, endCh, sessions, todo, at>>

\* The deferred send of os.Interrupt, which waits for room.
ServerTells(s) ==
  /\ server[s].pc = "tell" /\ endCh = 0
  /\ endCh' = 1
  /\ server' = [server EXCEPT ![s].pc = "gone"]
  /\ UNCHANGED <<main, sessions, todo, at>>

\* <-ch, and DetectionEngine.Close.
Wake ==
  /\ Main("wait", "stop")
  /\ endCh = 1 /\ endCh' = 0
  /\ UNCHANGED <<server, sessions, todo, at>>

\* peerSrv.Stop does not wait for the handlers it has started.
StopPeer ==
  /\ Main("stop", "shut")
  /\ server' = [server EXCEPT !["grpc"].closed = TRUE]
  /\ UNCHANGED <<endCh, sessions, todo, at>>

\* srv.Shutdown takes no more requests ...
Shutdown ==
  /\ Main("shut", "drain")
  /\ server' = [server EXCEPT !["http"].closed = TRUE]
  /\ UNCHANGED <<endCh, sessions, todo, at>>

\* Mutant: the manager is closed while requests are answered.
DrainedAtOnce ==
  /\ Main("drain", "range")
  /\ todo' = Ids
  /\ UNCHANGED <<endCh, server, sessions, at>>

\* ... and waits for those it has, with a context that has no deadline.
\* Then SessionManager.Close.
Drained ==
  /\ \A q \in Calls : at[q].pc = "none"
  /\ Main("drain", "range")
  /\ todo' = Ids
  /\ UNCHANGED <<endCh, server, sessions, at>>

CloseSession(id) ==
  /\ main = "range" /\ id \in todo
  /\ sessions' = sessions \ {id}
  /\ todo' = todo \ {id}
  /\ UNCHANGED <<main, endCh, server, at>>

CloseEnds ==
  /\ todo = {}
  /\ Main("range", "exit")
  /\ UNCHANGED <<endCh, server, sessions, todo, at>>

(***************************************************************************)
(* HTTP requests                                                           *)
(***************************************************************************)
GoOn(q, pc) == at' = [at EXCEPT ![q].pc = pc]
Answer(q) == at' = [at EXCEPT ![q] = [Idle EXCEPT !.pc = "reply"]]
Done(q) == at' = [at EXCEPT ![q] = Idle]

Arrive(q, op, id, limit) ==
  /\ server["http"].pc = "serve" /\ ~server["http"].closed /\ at[q].pc = "none"
  /\ op \in Admitted \/ limit = 0
  /\ at' = [at EXCEPT ![q] = [pc |-> "auth", op |-> op, id |-> id, limit |-> limit]]
  /\ UNCHANGED <<main, endCh, server, sessions, todo>>

\* The token is the configured one, or the request is aborted.
Auth(q) ==
  /\ at[q].pc = "auth"
  /\ GoOn(q, "bind") \/ Answer(q)
  /\ UNCHANGED <<main, endCh, server, sessions, todo>>

\* Bind, BindQuery, BindParams and Validate, and the FormFile of Test; the
\* limit is that of Test and StartDetect, another field of any request may be
\* bad.
Bind(q) ==
  /\ at[q].pc = "bind"
  /\ \/ /\ ValidLimit(at[q].limit)
        /\ GoOn(q, IF at[q].op \in Admitted THEN "check" ELSE "load")
     \/ Answer(q)
  /\ UNCHANGED <<main, endCh, server, sessions, todo>>

\* CheckDetectHostServiceResources, and the answer when it fails.
Check(q) ==
  /\ at[q].pc = "check"
  /\ \E enough \in {Enough(st, at[q].limit) : st \in Status} :
       IF enough
         THEN at' = [at EXCEPT ![q].pc = IF at[q].op = "Test" THEN "ai" ELSE "load",
                               ![q].limit = 0]
         ELSE Answer(q)
  /\ UNCHANGED <<main, endCh, server, sessions, todo>>

\* DetectTest gets the results of the AI service, or an error.
AIAnswers(q) ==
  /\ at[q].pc = "ai"
  /\ Answer(q)
  /\ UNCHANGED <<main, endCh, server, sessions, todo>>

\* The handler's Load.
LoadSession(q) ==
  /\ at[q].pc = "load" /\ at[q].op # "RemoveSession"
  /\ \/ at[q].id \notin sessions /\ GoOn(q, "create")
     \/ at[q].id \in sessions /\ at[q].op = "CreateSession" /\ Answer(q)
     \/ at[q].id \in sessions /\ at[q].op # "CreateSession" /\ GoOn(q, "use")
  /\ UNCHANGED <<main, endCh, server, sessions, todo>>

RemoveSession(q) ==
  /\ \/ at[q].pc = "load" /\ at[q].op = "RemoveSession"
     \/ at[q].pc = "peer" /\ at[q].op = "RemoveSession"
  /\ sessions' = sessions \ {at[q].id}
  /\ IF q \in Calls THEN Answer(q) ELSE Done(q)
  /\ UNCHANGED <<main, endCh, server, todo>>

\* SessionManager.CreateSession, which may also fail.
CreateSession(q) ==
  /\ at[q].pc = "create"
  /\ \/ /\ sessions' = sessions \cup {at[q].id}
        /\ IF at[q].op = "CreateSession" THEN Answer(q) ELSE GoOn(q, "use")
     \/ sessions' = sessions /\ Answer(q)
  /\ UNCHANGED <<main, endCh, server, todo>>

\* StartSessionDetect or StartSessionRecord.
UseSession(q) ==
  /\ at[q].pc = "use"
  /\ Answer(q)
  /\ UNCHANGED <<main, endCh, server, sessions, todo>>

\* net/http writes the answer to the client and reads what the handler has
\* left of the body; until then the connection is in use.
Replied(q) ==
  /\ at[q].pc = "reply"
  /\ Done(q)
  /\ UNCHANGED <<main, endCh, server, sessions, todo>>

HttpStep(q) ==
  \/ Auth(q) \/ Bind(q) \/ Check(q)
  \/ LoadSession(q) \/ CreateSession(q) \/ UseSession(q)

(***************************************************************************)
(* gRPC requests, and sessions that go by themselves                       *)
(***************************************************************************)
PeerArrive(p, op, id) ==
  /\ server["grpc"].pc = "serve" /\ ~server["grpc"].closed /\ at[p].pc = "none"
  /\ at' = [at EXCEPT ![p] = [Idle EXCEPT !.pc = "peer", !.op = op, !.id = id]]
  /\ UNCHANGED <<main, endCh, server, sessions, todo>>

\* The gRPC service is built without its configuration, a nil pointer that
\* its CreateSession looks into; nothing recovers, and the process ends.
PeerCreateSession(p) ==
  /\ at[p].pc = "peer" /\ at[p].op = "CreateSession"
  /\ main' = "crashed"
  /\ UNCHANGED <<endCh, server, sessions, todo, at>>

\* The other methods look into the registry and at a session's flags.
PeerOther(p) ==
  /\ at[p].pc = "peer" /\ at[p].op = "Other"
  /\ Done(p)
  /\ UNCHANGED <<main, endCh, server, sessions, todo>>

PeerStep(p) == PeerCreateSession(p) \/ PeerOther(p)

\* Run ends, or the tick finds the session idle.
SessionEnds(id) ==
  /\ id \in sessions /\ sessions' = sessions \ {id}
  /\ UNCHANGED <<main, endCh, server, todo, at>>

(***************************************************************************)
(* The specification                                                       *)
(***************************************************************************)
Over == main \in {"exit", "killed", "crashed"}

CloseStep == Wake \/ StopPeer \/ Shutdown \/ Drained
               \/ (\E id \in Ids : CloseSession(id)) \/ CloseEnds

ServerStep(s) == ServerListens(s) \/ ServerReturns(s) \/ ServerTells(s)

Next ==
  /\ ~Over
  /\ \/ NewDetectEngine \/ NewStoreFails \/ RunEngine \/ Notify \/ CloseStep \/ Signal
     \/ \E s \in Servers : ServerStep(s) \/ ServerFails(s)
     \/ \E q \in Calls :
          \/ \E op \in HttpOps, id \in Ids, limit \in Limits : Arrive(q, op, id, limit)
          \/ HttpStep(q) \/ AIAnswers(q) \/ Replied(q)
     \/ \E p \in PeerCalls :
          \/ \E op \in GrpcOps, id \in Ids : PeerArrive(p, op, id)
          \/ PeerStep(p)
     \/ \E q \in Calls \cup PeerCalls : RemoveSession(q)
     \/ \E id \in Ids : SessionEnds(id)

Spec == Init /\ [][Next]_vars

\* A request waits for its client to send the rest of the body, or to take
\* the answer (the server has no ReadTimeout and no WriteTimeout), or for the
\* AI service (http.Post has no timeout).
ReadsBody(q) == at[q].pc = "bind" /\ at[q].op \in WithBody
Held(q) == ReadsBody(q) \/ at[q].pc \in {"ai", "reply"}

\* Goroutines that can go on do. Nobody owes a signal, a request, the failure
\* of a server, or what a request that is held waits for.
Fairness ==
  /\ WF_vars(~Over /\ (NewDetectEngine \/ NewStoreFails \/ RunEngine \/ Notify \/ CloseStep))
  /\ \A s \in Servers : WF_vars(~Over /\ ServerStep(s))
  /\ \A q \in Calls : WF_vars(~Over /\ ~Held(q) /\ (HttpStep(q) \/ RemoveSession(q)))

FairSpec == Spec /\ Fairness

(***************************************************************************)
(* Properties                                                              *)
(***************************************************************************)
\* When main returns from a shutdown the registry is empty, no handler can
\* fill it again, and no server serves: Close stops what makes sessions, in
\* its order, before it ends the sessions there are.
NothingLeft ==
  main = "exit" =>
    /\ sessions = {}
    /\ \A q \in Calls : at[q].pc = "none"
    /\ \A s \in Servers : server[s].pc = "serve" => server[s].closed

\* Whatever a request may ask for once it is bound, a host that has enough
\* for it has a GPU, or both its loads below the request's limit (90 if it
\* named none), and is never full.
Room(st, limit) ==
  st.gpu \/ \A load \in {st.cpu, st.memory} :
              load < 100 /\ (load < limit \/ (limit = 0 /\ load < 90))

RoomWhenLetIn ==
  \A q \in Calls : at[q].pc = "check" =>
    \A st \in Status : Enough(st, at[q].limit) => Room(st, at[q].limit)

\* main has been told to end, or has lost a server.
Told == endCh = 1 \/ \E s \in Servers : server[s].pc \in {"tell", "gone"}

\* Then the process ends, unless a request is held for ever by its client or,
\* in DetectTest, by the AI service: srv.Shutdown has no deadline. In
\* particular the engine does not live on with one server.
EndsWhenTold ==
  [](Told => <>Over \/ \E q \in Calls : <>[]Held(q))
=============================================================================
