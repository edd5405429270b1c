----------------------- MODULE MCSessionManagerHistory -----------------------
(***************************************************************************)
(* Instances of SessionManagerHistory for TLC.                             *)
(***************************************************************************)
EXTENDS SessionManagerHistory, MCSessionManager
=============================================================================
