------------------------------ MODULE MCEngine ------------------------------
(***************************************************************************)
(* Instances of Engine for TLC.                                            *)
(***************************************************************************)
EXTENDS Engine

\* No limit, one in use, and one that Validate rejects.
SomeLimits == {0, 50, 101}

\* Both sides of 50 and of 90, and the highest.
SomeLoads == {49, 50, 89, 90, 100}
=============================================================================
