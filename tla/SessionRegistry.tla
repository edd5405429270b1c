-------------------------- MODULE SessionRegistry ---------------------------
(***************************************************************************)
(* What SessionManager promises of its map `sessions`, whatever its        *)
(* goroutines do with the objects, flags and channels behind it:           *)
(*   - a session is registered at most once in its life, while the engine  *)
(*     serves, and under an id that a creation is in progress for;         *)
(*   - an entry goes only when its id is leaving, when the creation for    *)
(*     it fails, or in a shutdown; and an id that is leaving goes;         *)
(*   - a shutdown leaves nothing.                                          *)
(* Leaving is a matter of the id and not of the session: a close notice    *)
(* or a goroutine on its way to the deletion carries the id, and takes     *)
(* whatever entry the id has by then. So is a creation that fails.         *)
(***************************************************************************)
CONSTANTS Ids, Sessions, NoSession

VARIABLES
  entry,     \* the session registered under each id
  born,      \* the sessions that were ever registered
  creating,  \* the ids that a creation is in progress for
  leaving,   \* the ids whose removal is on its way
  up         \* "serving", "closing" or "down"

vars == <<entry, born, creating, leaving, up>>

TypeOK ==
  /\ entry \in [Ids -> Sessions \cup {NoSession}]
  /\ born \subseteq Sessions
  /\ creating \subseteq Ids /\ leaving \subseteq Ids
  /\ up \in {"serving", "closing", "down"}

Init ==
  /\ entry = [id \in Ids |-> NoSession]
  /\ born = {} /\ creating = {} /\ leaving = {} /\ up = "serving"

Present(id) == entry[id] # NoSession

Begin(id) ==
  /\ up = "serving"
  /\ creating' = creating \cup {id}
  /\ UNCHANGED <<entry, born, leaving, up>>

\* A session that never was in the registry. One that is there already, made
\* by another creation for the same id, is replaced.
Register(id, s) ==
  /\ id \in creating /\ s \notin born
  /\ entry' = [entry EXCEPT ![id] = s]
  /\ born' = born \cup {s}
  /\ UNCHANGED <<creating, leaving, up>>

\* A creation ends; if it fails the entry goes. Others may be in progress.
EndCreation(id) ==
  /\ id \in creating
  /\ creating' \in {creating, creating \ {id}}
  /\ entry' \in {entry, [entry EXCEPT ![id] = NoSession]}
  /\ UNCHANGED <<born, leaving, up>>

\* A client asks for the removal, the session ended or nobody uses it.
Leave(id) ==
  /\ leaving' = leaving \cup {id}
  /\ UNCHANGED <<entry, born, creating, up>>

\* The entry goes; another removal of the id may still be on its way.
Remove(id) ==
  /\ id \in leaving
  /\ entry' = [entry EXCEPT ![id] = NoSession]
  /\ leaving' \in {leaving, leaving \ {id}}
  /\ UNCHANGED <<born, creating, up>>

\* A notice finds nothing to remove.
Forget(id) ==
  /\ id \in leaving /\ ~Present(id)
  /\ leaving' = leaving \ {id}
  /\ UNCHANGED <<entry, born, creating, up>>

Close ==
  /\ up = "serving" /\ up' = "closing"
  /\ creating = {}
  /\ UNCHANGED <<entry, born, creating, leaving>>

Down ==
  /\ up = "closing" /\ up' = "down"
  /\ \A id \in Ids : ~Present(id)
  /\ UNCHANGED <<entry, born, creating, leaving>>

Next ==
  \/ \E id \in Ids :
       \/ Begin(id) \/ EndCreation(id) \/ Leave(id) \/ Remove(id) \/ Forget(id)
       \/ \E s \in Sessions : Register(id, s)
  \/ Close \/ Down

Spec == Init /\ [][Next]_vars

\* What is leaving goes.
FairSpec == Spec /\ \A id \in Ids : WF_vars(Present(id) /\ Remove(id))
=============================================================================
