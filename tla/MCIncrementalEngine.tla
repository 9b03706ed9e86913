------------------------ MODULE MCIncrementalEngine ------------------------
(* A plan for IncrementalEngine.                                           *)
EXTENDS IncrementalEngine, TLC

(* A route, the middleware it imports, the server, which imports the       *)
(* route, and a module that rests on nothing.                              *)
ChainAndOne == <<{2}, {}, {1}, {}>>
=============================================================================
