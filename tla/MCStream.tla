------------------------------ MODULE MCStream ------------------------------
(***************************************************************************)
(* Instances of StreamHistory for TLC.                                     *)
(***************************************************************************)
EXTENDS StreamHistory, TLC

\* Addresses are interchangeable, and so are recorders.
Symmetry == Permutations(Addresses) \cup Permutations(Recorders)
=============================================================================
