----------------------------- MODULE FrameFeed ------------------------------
(***************************************************************************)
(* What the detection pipeline promises to whoever looks at the results    *)
(* of a session, whatever its goroutines do with queue, cache and context: *)
(*   - the accepted frames are detected one at a time, each of them at     *)
(*     most once and none before those that were accepted earlier;         *)
(*   - the results on show are those of the frame detected last that had   *)
(*     an answer, or none, and are forgotten in time: no frame is accepted *)
(*     while they lag Cap frames behind already;                           *)
(*   - detection ends only with the session; until then every accepted     *)
(*     frame has its turn, and it does end then. (Unless the detection of  *)
(*     a frame takes for ever, which nobody promises it does not.)         *)
(* Frames are counted, not named: the n-th that was taken is the n-th that *)
(* was accepted.                                                           *)
(***************************************************************************)
EXTENDS Naturals

CONSTANT Cap   \* how many frames may wait

VARIABLES
  accepted,   \* how many frames were accepted
  taken,      \* how many of them were taken for detection
  busy,       \* is the one taken last still being detected?
  shown,      \* the frame whose results are on show; 0 for none
  closing,    \* the session is over
  ended       \* so is detection

vars == <<accepted, taken, busy, shown, closing, ended>>

Init ==
  /\ accepted = 0 /\ taken = 0 /\ busy = FALSE /\ shown = 0
  /\ closing = FALSE /\ ended = FALSE

\* How many frames were accepted since the one whose results are shown.
Lag == IF shown = 0 THEN 0 ELSE accepted - shown

Accept ==
  /\ accepted - taken < Cap /\ Lag <= Cap
  /\ accepted' = accepted + 1
  /\ UNCHANGED <<taken, busy, shown, closing, ended>>

Forget ==
  /\ shown' = 0
  /\ UNCHANGED <<accepted, taken, busy, closing, ended>>

Take ==
  /\ ~busy /\ ~ended /\ taken < accepted
  /\ taken' = taken + 1
  /\ busy' = TRUE
  /\ UNCHANGED <<accepted, shown, closing, ended>>

\* The detection of the frame in hand succeeds, or fails.
Answer ==
  /\ busy /\ busy' = FALSE
  /\ shown' \in {taken, shown}
  /\ UNCHANGED <<accepted, taken, closing, ended>>

\* The session is over, for whatever reason; its results may go with it.
Close ==
  /\ ~closing /\ closing' = TRUE
  /\ shown' \in {shown, 0}
  /\ UNCHANGED <<accepted, taken, busy, ended>>

End ==
  /\ closing /\ ~busy /\ ~ended
  /\ ended' = TRUE
  /\ UNCHANGED <<accepted, taken, busy, shown, closing>>

Next == Accept \/ Forget \/ Take \/ Answer \/ Close \/ End

Spec == Init /\ [][Next]_vars

\* What waits is taken, unless the session is over or a frame is still being
\* detected.
FairSpec == Spec /\ WF_vars(Take \/ End)
=============================================================================
