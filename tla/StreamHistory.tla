---------------------------- MODULE StreamHistory ----------------------------
(***************************************************************************)
(* Stream with a history of the two races that can leave an ffmpeg behind: *)
(* two goroutines were opening at the same time, each between ClearPuller  *)
(* and SetPuller of PreparePuller, or a recorder had a new process in hand *)
(* when Run had returned. The throttle of ResetRtspURL and the checks of   *)
(* the context make both unlikely, and the code excludes neither.          *)
(* HistorySpec has the behaviours of Stream's Spec, all of them.           *)
(***************************************************************************)
EXTENDS Stream

VARIABLE raced   \* one of the two has happened

historyVars == <<vars, raced>>

RunDone == at[Runner].pc = "done"

Tidy ==
  /\ \A g \in Goroutines : ~at[g].crossed
  /\ RunDone => \A r \in Recorders : at[r].hand = 0

HistoryInit == Init /\ raced = FALSE

HistoryNext == Next /\ raced' = (raced \/ ~Tidy')

HistorySpec == HistoryInit /\ [][HistoryNext]_historyVars

\* Nothing but these races leaves an ffmpeg behind: not a camera that goes
\* away in the middle of a reset, a failed opening, a stale update, a panic
\* that Run recovers from, nor any order of the ways to end a session. What
\* pulls is either the session's own until its Run has cleaned up or in the
\* hand of a goroutine that is going to set it.
OnlyRacesLeavePullers == ~raced => NothingPullsAtTheEnd

(***************************************************************************)
(* The inductive invariant behind it                                       *)
(***************************************************************************)
\* Every ffmpeg that pulls is the session's, or somebody is about to set it.
EveryPullerKnown ==
  \A p \in Pids : Up(p) => p = puller \/ \E g \in Goroutines : at[g].hand = p

TidyInv == Tidy /\ EveryPullerKnown /\ (RunDone => puller = 0)
=============================================================================
