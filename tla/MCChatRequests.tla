--------------------------- MODULE MCChatRequests ---------------------------
(* ChatRequests on a few requests, interchangeable when no run checks      *)
(* liveness.                                                               *)
EXTENDS ChatRequests, TLC

RequestSymmetry == Permutations(Creates) \cup Permutations(Requests \ Creates)

=============================================================================
