------------------------ MODULE SessionManagerHistory ------------------------
(***************************************************************************)
(* SessionManager with a history of what can hide a session that works:    *)
(* a goroutine at work on one session stores over the entry of another, or *)
(* deletes it. Two creations that both found no entry do the former; a     *)
(* teardown, or a creation whose puller fails, that is overtaken by others *)
(* on its id does the latter. The map's own steps exclude neither.         *)
(* HistorySpec has the behaviours of SessionManager's Spec, all of them.   *)
(***************************************************************************)
EXTENDS SessionManager

VARIABLE raced   \* an entry was overwritten or deleted for another session

historyVars == <<vars, raced>>

\* The step of t takes the entry of a session that t does not work on.
TakesOver(t) ==
  /\ th[t].pc \in {"store", "pull", "delete"}
  /\ sessions[th[t].id] \notin {NoObj, th[t].obj}
  /\ sessions'[th[t].id] # sessions[th[t].id] /\ th'[t] # th[t]

HistoryInit == Init /\ raced = FALSE

HistoryNext == Next /\ raced' = (raced \/ \E t \in Threads : TakesOver(t))

HistorySpec == HistoryInit /\ [][HistoryNext]_historyVars

\* Nothing but such a race hides a Run that nobody has stopped from clients
\* and the tick: not two teardowns of one session, the tick's look at a session
\* that is still being made, a Run that starts after its session was removed,
\* a failed pusher, nor a shutdown. (Each teardown must have cancelled what it
\* takes out of the map, before that or soon after it.)
OnlyRacesHideRuns == ~raced => LiveRunIsFound

(***************************************************************************)
(* The inductive invariant behind it                                       *)
(***************************************************************************)
\* Run of context g serves o as id, or the creator of o is about to start it.
Serves(g, o, id) ==
  \/ run[g].pc \in LivePcs /\ run[g].obj = o /\ run[g].home = id
  \/ \E c \in Threads :
       /\ th[c].pc \in {"store", "pull", "push"}
       /\ th[c].gen = g /\ th[c].obj = o /\ th[c].id = id

\* Until it is cancelled, the context of a session is the session's own.
OwnContextKept ==
  \A g \in Gens, o \in Objs, id \in Ids :
    Serves(g, o, id) /\ g \notin cancelled => ctxOf[o] = g

\* Before the manager deletes an entry, and before a session forgets its
\* context, what serves the session is cancelled.
CancelledBefore ==
  \A t \in Threads :
    th[t].pc = "clear" \/ (th[t].pc = "delete" /\ t \in Managers) =>
      \A g \in Gens, id \in Ids : Serves(g, th[t].obj, id) => g \in cancelled

\* RemoveSession has o out of the map and has yet to cancel it.
Removed(o, id) == \E t \in Threads : th[t].pc = "reset" /\ th[t].id = id /\ th[t].obj = o

\* Every Run has an id to be found by.
RunAtHome == \A g \in Gens : run[g].pc \in LivePcs => run[g].home \in Ids

\* Once stored, what serves is found.
Found ==
  \A g \in Gens, o \in Objs, id \in Ids :
    Serves(g, o, id) /\ g \notin cancelled =>
      \/ sessions[id] = o \/ Removed(o, id)
      \/ \E c \in Threads : th[c].pc = "store" /\ th[c].obj = o

HistoryInv ==
  /\ raced \in BOOLEAN
  /\ OwnContextKept /\ CancelledBefore /\ RunAtHome /\ (~raced => Found)
=============================================================================
