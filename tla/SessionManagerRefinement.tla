---------------------- MODULE SessionManagerRefinement ----------------------
(***************************************************************************)
(* SessionManager implements SessionRegistry: the map is the registry, and *)
(* what the goroutines hold, and closeCh, say which ids are being created  *)
(* and which are leaving.                                                  *)
(***************************************************************************)
EXTENDS SessionManager

CreatorPcs == {"store", "pull"}

\* An object that CreateSession got and has stored.
born == {o \in Objs : wired[o] /\ \A c \in Callers : th[c].obj = o => th[c].pc # "store"}

creating == {id \in Ids : \E c \in Callers : th[c].id = id /\ th[c].pc \in CreatorPcs}

leaving == {id \in Ids : Leaving(id)}

Registry == INSTANCE SessionRegistry WITH
  Sessions <- Objs, NoSession <- NoObj, entry <- sessions

\* The goroutines of the manager and of its sessions keep the promises of
\* SessionRegistry, the liveness one included.
ImplementsRegistry == Registry!FairSpec
=============================================================================
