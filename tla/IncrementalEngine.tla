-------------------------- MODULE IncrementalEngine --------------------------
(***************************************************************************)
(* incrementalEngine.ts with pipelineState.ts and generationManifest.ts:   *)
(* the chat route's generation of a planned project, file by file, then    *)
(* one validation of the project.  A state machine follows the phases by   *)
(* safeTransition(), which refuses in silence what its table does not      *)
(* allow, so the engine goes on whether the machine does or not.           *)
(*                                                                         *)
(* What the models write and the validators find is chosen freely: a block *)
(* under the path of the node or of anything else, issues or none.         *)
(***************************************************************************)
EXTENDS ExecutionGraph

Unplanned == 0    \* any path that is not a node's
Paths == Nodes \cup {Unplanned}

VARIABLES
    graph,           \* the status of every node
    machine,         \* the state of the PipelineStateMachine
    manifest,        \* .crabcode/generation-manifest.json
    committedFiles,  \* result.committedFiles: the paths written by this run
    disk,            \* the files of the project that exist
    file,            \* the path of the file generated for the current node
    errors,          \* the project validation found errors
    aborted,         \* signal.aborted
    pc               \* what the engine does, or awaits

vars == <<graph, machine, manifest, committedFiles, disk, file, errors, aborted,
          pc>>

States == {"loop", "generating", "validating", "repairing", "committing",
           "ending", "project", "compiling", "projectRepair", "finalizing",
           "ended", "thrown"}

MachineStates ==
    {"Generating", "LocalValidation", "Committing", "ProjectValidation",
     "Linking", "Compiling", "ProjectRepair", "Completed", "Failed"}

(* Mutant: from Committing one can only generate the next file.            *)
TransitionsWithoutProject ==
    [Generating        |-> {"LocalValidation", "ProjectValidation", "Failed"},
     LocalValidation   |-> {"Committing", "Generating", "Failed"},
     Committing        |-> {"Generating", "Failed"},
     ProjectValidation |-> {"Linking", "ProjectRepair", "Completed", "Failed"},
     Linking           |-> {"Compiling", "ProjectRepair", "Failed"},
     Compiling         |-> {"Completed", "ProjectRepair", "Failed"},
     ProjectRepair     |-> {"Generating", "ProjectValidation", "Completed",
                            "Failed"},
     Completed         |-> {},
     Failed            |-> {}]

(* The table, from the first generation on.                                *)
ValidTransitions ==
    [Generating        |-> {"LocalValidation", "ProjectValidation", "Failed"},
     LocalValidation   |-> {"Committing", "Generating", "Failed"},
     Committing        |-> {"Generating", "ProjectValidation", "Failed"},
     ProjectValidation |-> {"Linking", "ProjectRepair", "Completed", "Failed"},
     Linking           |-> {"Compiling", "ProjectRepair", "Failed"},
     Compiling         |-> {"Completed", "ProjectRepair", "Failed"},
     ProjectRepair     |-> {"Generating", "ProjectValidation", "Completed",
                            "Failed"},
     Completed         |-> {},
     Failed            |-> {}]

SafeTransition(from, to) == IF to \in ValidTransitions[from] THEN to ELSE from

TypeOK ==
    /\ graph \in Graphs
    /\ machine \in MachineStates
    /\ manifest \in [status : {"running", "validating", "repairing", "done",
                               "failed"},
                     committed : SUBSET Paths,
                     failed : SUBSET Nodes,
                     skipped : SUBSET Nodes]
    /\ committedFiles \subseteq Paths
    /\ disk \subseteq Paths
    /\ file \in Paths
    /\ errors \in BOOLEAN
    /\ aborted \in BOOLEAN
    /\ pc \in States

(* The planner has found some modules in the workspace: their nodes are    *)
(* committed, whether or not a file of that very path exists.              *)
Init ==
    /\ graph \in [Nodes -> {"pending", "committed"}]
    /\ disk \in SUBSET Paths
    /\ machine = "Generating"
    /\ manifest = [status |-> "running",
                   committed |-> With(graph, "committed") \cap disk,
                   failed |-> {}, skipped |-> {}]
    /\ committedFiles = {}
    /\ file = Unplanned
    /\ errors = FALSE
    /\ aborted = FALSE
    /\ pc = "loop"

-----------------------------------------------------------------------------
(* Phase 1: one file after the other *)

Current == CHOOSE n \in Nodes : graph[n] = "generating"

Loop ==
    /\ pc = "loop"
    /\ IF IsGraphComplete(graph) \/ aborted
       THEN /\ pc' = "ending"
            /\ UNCHANGED <<graph, manifest>>
       ELSE IF Ready(graph) = {}
       THEN /\ graph' = ResolveDeadlock(graph)
            /\ manifest' = [manifest EXCEPT !.skipped = With(graph, "pending")]
            /\ pc' = "ending"
       ELSE /\ graph' = [graph EXCEPT ![NextPendingNode(graph)] = "generating"]
            /\ pc' = "generating"
            /\ UNCHANGED manifest
    /\ UNCHANGED <<machine, committedFiles, disk, file, errors, aborted>>

(* Mutant: the node is to be tried again.                                  *)
GiveUpForNow ==
    /\ graph' = [graph EXCEPT ![Current] = "pending"]
    /\ UNCHANGED manifest

(* Mutant: the manifest gets the path of the last block instead.           *)
GiveUpByPath ==
    /\ graph' = MarkNodeFailed(graph, Current)
    /\ manifest' = [manifest EXCEPT !.failed = @ \cup {file}]

GiveUp ==
    /\ graph' = MarkNodeFailed(graph, Current)
    /\ manifest' = [manifest EXCEPT !.failed = @ \cup {Current}]

(* A loop was detected, or no block was found; the context is disposed.    *)
GenerationUseless ==
    /\ pc = "generating"
    /\ GiveUp
    /\ pc' \in {"loop", "thrown"}
    /\ UNCHANGED <<machine, committedFiles, disk, file, errors, aborted>>

(* The block of the node, or else the first one, whatever its path.        *)
Generated ==
    /\ pc = "generating"
    /\ file' \in Paths
    /\ machine' = SafeTransition(machine, "LocalValidation")
    /\ pc' = "validating"
    /\ UNCHANGED <<graph, manifest, committedFiles, disk, errors, aborted>>

(* runLocalFileValidator() and compileCheck() found issues, or none.       *)
Validated ==
    /\ pc = "validating"
    /\ pc' \in {"repairing", "committing"}
    /\ UNCHANGED <<graph, machine, manifest, committedFiles, disk, file, errors,
                   aborted>>

(* At most maxLocalRepairsPerFile prompts for each issue.  The file is the *)
(* last one that resolved an issue, under the path its block names; what   *)
(* is not resolved goes on to the commit all the same.                     *)
Repaired ==
    /\ pc = "repairing"
    /\ file' \in Paths
    /\ pc' = "committing"
    /\ UNCHANGED <<graph, machine, manifest, committedFiles, disk, errors, aborted>>

(* Mutant: the manifest is told before the file is written.                *)
CommitFailsLate ==
    /\ pc = "committing"
    /\ machine' = SafeTransition(machine, "Committing")
    /\ graph' = MarkNodeFailed(graph, Current)
    /\ manifest' = [manifest EXCEPT !.failed = @ \cup {Current},
                                    !.committed = @ \cup {file}]
    /\ pc' = "loop"
    /\ UNCHANGED <<committedFiles, disk, file, errors, aborted>>

(* mkdir or write throws: the machine is left in Committing.               *)
CommitFails ==
    /\ pc = "committing"
    /\ machine' = SafeTransition(machine, "Committing")
    /\ GiveUp
    /\ pc' = "loop"
    /\ UNCHANGED <<committedFiles, disk, file, errors, aborted>>

(* Nothing that follows the write throws: the manifest's and the caches'   *)
(* errors are swallowed, and the callback only remembers the path.         *)
Commit ==
    /\ pc = "committing"
    /\ disk' = disk \cup {file}
    /\ graph' = [graph EXCEPT ![Current] = "committed"]
    /\ manifest' = [manifest EXCEPT !.committed = @ \cup {file}]
    /\ committedFiles' = committedFiles \cup {file}
    /\ machine' = SafeTransition(SafeTransition(machine, "Committing"),
                                 "Generating")
    /\ pc' = "loop"
    /\ UNCHANGED <<file, errors, aborted>>

-----------------------------------------------------------------------------
(* Phases 2 and 3: the project *)

StartProject ==
    /\ pc = "ending"
    /\ IF ~aborted /\ committedFiles # {}
       THEN /\ machine' = SafeTransition(machine, "ProjectValidation")
            /\ manifest' = [manifest EXCEPT !.status = "validating"]
            /\ pc' = "project"
       ELSE /\ pc' = "finalizing"
            /\ UNCHANGED <<machine, manifest>>
    /\ UNCHANGED <<graph, committedFiles, disk, file, errors, aborted>>

(* Files the validator made up are written where there is none.  The       *)
(* project is compiled if it links and has a tsconfig.json.                *)
ProjectValidated ==
    /\ pc = "project"
    /\ errors' \in BOOLEAN
    /\ \E made \in SUBSET (Paths \ disk) : disk' = disk \cup made
    /\ LET linking == SafeTransition(machine, "Linking")
       IN  \/ /\ machine' = SafeTransition(linking, "Compiling")
              /\ pc' = "compiling"
           \/ /\ machine' = linking
              /\ pc' = "projectRepair"
    /\ UNCHANGED <<graph, manifest, committedFiles, file, aborted>>

Compiled ==
    /\ pc = "compiling"
    /\ pc' = "projectRepair"
    /\ UNCHANGED <<graph, machine, manifest, committedFiles, disk, file, errors,
                   aborted>>

(* The project repairs are only counted, up to maxProjectRepairs.          *)
ProjectRepair ==
    /\ pc = "projectRepair"
    /\ IF errors /\ ~aborted
       THEN /\ machine' = SafeTransition(machine, "ProjectRepair")
            /\ manifest' = [manifest EXCEPT !.status = "repairing"]
       ELSE UNCHANGED <<machine, manifest>>
    /\ pc' = "finalizing"
    /\ UNCHANGED <<graph, committedFiles, disk, file, errors, aborted>>

Finalize ==
    /\ pc = "finalizing"
    /\ LET failed == manifest.failed # {}
       IN  /\ manifest' = [manifest EXCEPT !.status = IF failed THEN "failed"
                                                                ELSE "done"]
           /\ machine' = SafeTransition(machine, IF failed THEN "Failed"
                                                           ELSE "Completed")
    /\ pc' = "ended"
    /\ UNCHANGED <<graph, committedFiles, disk, file, errors, aborted>>

(* createContext(), a prompt, a validator or a disposal rejects: the error *)
(* leaves the engine, which records nothing more.                          *)
Throw ==
    /\ pc \in {"generating", "validating", "repairing", "project"}
    /\ pc' = "thrown"
    /\ UNCHANGED <<graph, machine, manifest, committedFiles, disk, file, errors,
                   aborted>>

-----------------------------------------------------------------------------
(* The client, the timeout or the abort route.                             *)
Abort ==
    /\ pc \notin {"ended", "thrown"}
    /\ ~aborted
    /\ aborted' = TRUE
    /\ UNCHANGED <<graph, machine, manifest, committedFiles, disk, file, errors,
                   pc>>

EngineStep ==
    \/ Loop \/ GenerationUseless \/ Generated \/ Validated \/ Repaired
    \/ CommitFails \/ Commit \/ StartProject \/ ProjectValidated \/ Compiled
    \/ ProjectRepair \/ Finalize \/ Throw

Over == pc \in {"ended", "thrown"} /\ UNCHANGED vars

Next == EngineStep \/ Abort \/ Over

(* Every await of the engine settles.                                      *)
Spec == Init /\ [][Next]_vars /\ WF_vars(EngineStep)

-----------------------------------------------------------------------------
(* Properties *)

(* Giving a file up skips all that rests on it, through any number of      *)
(* files in between, so the loop never comes to pending nodes that none    *)
(* can follow: the deadlock branch (incrementalEngine.ts:316) is never     *)
(* needed.                                                                 *)
NeverDeadlocked == pc = "loop" => ~IsDeadlocked(graph)

(* The machine's state may lag behind the engine, but by no more than this:*)
(* a failed write leaves it in Committing until the next success; from the *)
(* project's validation on it says what the engine does; a run that failed *)
(* ends in Failed, and only a run without failures in Completed.           *)
MachineFollowsEngine ==
    /\ pc \in {"loop", "generating", "ending"} => machine \in {"Generating", "Committing"}
    /\ pc \in {"validating", "repairing", "committing"}
          => machine \in {"LocalValidation", "Committing"}
    /\ pc = "project" => machine = "ProjectValidation"
    /\ pc = "compiling" => machine = "Compiling"
    /\ pc = "ended" /\ manifest.failed # {} => machine = "Failed"
    /\ machine = "Completed" => pc = "ended" /\ manifest.status = "done"

(* What the manifest calls committed exists, and what it calls failed are  *)
(* the failed nodes: it is told of a file after the file was written, and  *)
(* of each failure once.                                                   *)
ManifestIsNoLiar ==
    /\ manifest.committed \subseteq disk
    /\ manifest.failed = With(graph, "failed")

(* A node that is committed, failed or skipped stays so: a failure         *)
(* elsewhere takes nothing back from what others may already rest on.      *)
FinalStatusStays ==
    \A n \in Nodes : graph[n] \in {"committed", "failed", "skipped"}
                        => graph'[n] = graph[n]

FinalStatusesAreFinal == [][FinalStatusStays]_vars

(* The engine ends, whatever is generated, repaired or fails to be written.*)
EngineEnds == <>(pc \in {"ended", "thrown"})

=============================================================================
