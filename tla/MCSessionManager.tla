-------------------------- MODULE MCSessionManager --------------------------
(***************************************************************************)
(* Instances of SessionManager for TLC.                                    *)
(***************************************************************************)
EXTENDS SessionManagerRefinement, TLC

\* Objects, contexts and callers are interchangeable; so are the ids.
Symmetry == Permutations(Ids) \cup Permutations(Objs)
              \cup Permutations(Gens) \cup Permutations(Callers)

\* The requests of each instance.
DetectOps == AllOps \ {"StartRecord", "StopRecord"}
DetectAndRemove == {"StartDetect", "RemoveSession"}
CreateOnly == {"CreateSession"}
=============================================================================
