-------------------------- MODULE DurableProgress ---------------------------
(***************************************************************************)
(* What the job pipeline promises of what is on disk, to whoever resumes a *)
(* job after a failure, a cancellation or a crash: a file that passed its  *)
(* validation gives way only to a newer one of the same node, or to the    *)
(* file of a node that goes under another path; a checkpoint is never      *)
(* taken back, and a node is checkpointed only after its file and on top   *)
(* of checkpointed dependencies.  It says nothing of runs, statuses,       *)
(* retries or restarts, and nothing of files that no node generated.       *)
(* JobService implements it (see ImplementsDurableProgress).               *)
(***************************************************************************)
CONSTANTS
    Jobs,
    Nodes,
    Paths,      \* where a file may go: the nodes, and elsewhere
    NoFile,     \* what a path holds that has no validated file
    DependsOn,  \* the nodes that each node imports
    Misnamed    \* the nodes whose file may go under another path

VARIABLES
    committed,  \* the nodes of each job that are checkpointed
    files       \* the node whose validated file each path of each job holds

progressVars == <<committed, files>>

Init ==
    /\ committed = [j \in Jobs |-> {}]
    /\ files = [j \in Jobs |-> [p \in Paths |-> NoFile]]

(* The validated file of node n is written at path p.                      *)
WriteFile(j, n, p) ==
    /\ p = n \/ n \in Misnamed
    /\ files' = [files EXCEPT ![j][p] = n]
    /\ UNCHANGED committed

CheckpointNode(j, n) ==
    /\ DependsOn[n] \subseteq committed[j]
    /\ n \in Misnamed \/ files[j][n] \in {n} \cup Misnamed
    /\ committed' = [committed EXCEPT ![j] = @ \cup {n}]
    /\ UNCHANGED files

Next ==
    \E j \in Jobs, n \in Nodes :
        \/ \E p \in Paths : WriteFile(j, n, p)
        \/ CheckpointNode(j, n)

SafeSpec == Init /\ [][Next]_progressVars

=============================================================================
