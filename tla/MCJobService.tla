---------------------------- MODULE MCJobService ----------------------------
(* Small plans for JobService.                                             *)
EXTENDS JobService, TLC

(* A route, the middleware it imports, which comes after it in the plan,   *)
(* and the server, which imports both.                                     *)
RouteFirst == <<{2}, {}, {1, 2}>>

(* A repository and the service that imports it.                           *)
TwoLayers == <<{}, {1}>>

RunSymmetry == Permutations(Runs)
=============================================================================
