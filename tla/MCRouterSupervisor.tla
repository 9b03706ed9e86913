------------------------- MODULE MCRouterSupervisor -------------------------
(* Launches of one editor, or of several with user data of their own.      *)
EXTENDS RouterSupervisor, TLC
=============================================================================
