----------------------- MODULE IncrementalEngineProofs -----------------------
(***************************************************************************)
(* For every plan: the engine is never stuck, its state machine and its    *)
(* manifest say what it does, no node changes its final status, and each of*)
(* its steps leaves less to do, so it takes a bounded number of them.      *)
(***************************************************************************)
EXTENDS IncrementalEngine, ExecutionGraphProofs, FiniteSetTheorems

AtNode == pc \in {"generating", "validating", "repairing", "committing"}

(* While the engine works on a node, that one is "generating", and no      *)
(* other; no pending node rests on one that failed or was skipped.         *)
GraphInv ==
    /\ \A n \in Nodes : graph[n] # "validating"
    /\ AtNode => /\ Current \in Nodes
                 /\ graph[Current] = "generating"
    /\ \A n \in Nodes : graph[n] = "generating" =>
          (AtNode /\ n = Current) \/ pc = "thrown"
    /\ AtNode \/ pc = "loop" =>
          \A n \in With(graph, "pending") : \A d \in DependsOn[n] :
             graph[d] \in {"pending", "generating", "committed"}

IInv == TypeOK /\ GraphInv /\ MachineFollowsEngine /\ ManifestIsNoLiar

-----------------------------------------------------------------------------
(* Whatever the engine is told to do next, the machine is in some state.   *)
LEMMA SafeTransitionType ==
    ASSUME NEW from \in MachineStates, NEW to \in MachineStates
    PROVE  SafeTransition(from, to) \in MachineStates
  BY DEF SafeTransition

(* Giving a file up, or committing it, ends the work on the current node.  *)
LEMMA GiveUpKeepsGraph ==
    ASSUME IInv, AtNode, GiveUp
    PROVE  /\ graph' \in Graphs
           /\ \A n \in Nodes : graph'[n] \notin {"generating", "validating"}
           /\ \A n \in With(graph, "pending")' : \A d \in DependsOn[n] :
                 graph'[d] \in {"pending", "committed"}
           /\ FinalStatusStays
           /\ manifest'.failed = With(graph, "failed")'
           /\ manifest'.committed = manifest.committed
           /\ manifest' = [manifest EXCEPT !.failed = manifest'.failed]
           /\ manifest'.failed \in SUBSET Nodes
  <1> DEFINE c == Current
             S == Skipped(graph, c)
  <1>1. /\ c \in Nodes /\ graph[c] = "generating" /\ graph \in Graphs
        /\ \A n \in Nodes : graph[n] = "generating" => n = c
        /\ \A n \in Nodes : graph[n] # "validating"
        /\ \A n \in With(graph, "pending") : \A d \in DependsOn[n] :
              graph[d] \in {"pending", "generating", "committed"}
    BY DEF IInv, TypeOK, GraphInv, AtNode
  <1>2. graph' = MarkNodeFailed(graph, c)
        /\ manifest' = [manifest EXCEPT !.failed = @ \cup {c}]
    BY DEF GiveUp
  <1> HIDE DEF c
  <1>3. /\ graph' \in Graphs
        /\ graph'[c] = "failed"
        /\ \A m \in S : graph'[m] = "skipped"
        /\ \A m \in Nodes : m # c /\ m \notin S => graph'[m] = graph[m]
    BY <1>1, <1>2, MarkNodeFailedType
  <1>4. /\ S \subseteq With(graph, "pending") \ {c}
        /\ \A m \in With(graph, "pending") \ {c} :
              DependsOn[m] \cap (S \cup {c}) # {} => m \in S
    BY <1>1, SkippedIsTheWalk
  <1> HIDE DEF S
  <1>5. \A n \in Nodes : graph'[n] \notin {"generating", "validating"}
    BY <1>1, <1>3
  <1>6. ASSUME NEW n \in With(graph, "pending")', NEW d \in DependsOn[n]
        PROVE  graph'[d] \in {"pending", "committed"}
    <2>1. n \in Nodes /\ graph'[n] = "pending"
      BY <1>6 DEF With
    <2>2. n # c /\ n \notin S /\ graph[n] = "pending"
      BY <1>3, <2>1
    <2>3. n \in With(graph, "pending") \ {c}
      BY <2>1, <2>2 DEF With
    <2>4. d \notin S /\ d # c
      BY <1>4, <1>6, <2>2, <2>3
    <2>5. d \in Nodes
      BY <1>6, <2>1, DependenciesAreNodes
    <2> QED
      BY <1>1, <1>3, <1>6, <2>3, <2>4, <2>5
  <1>7. FinalStatusStays
    BY <1>1, <1>3, <1>4 DEF FinalStatusStays, With
  <1>8. With(graph, "failed")' = With(graph, "failed") \cup {c}
    BY <1>1, <1>3, <1>4 DEF With
  <1>9. /\ manifest'.failed = manifest.failed \cup {c}
        /\ manifest'.committed = manifest.committed
        /\ manifest' = [manifest EXCEPT !.failed = manifest'.failed]
        /\ manifest'.failed \in SUBSET Nodes
    BY <1>1, <1>2 DEF IInv, TypeOK
  <1>10. manifest.failed = With(graph, "failed")
    BY DEF IInv, ManifestIsNoLiar
  <1> QED
    BY <1>3, <1>5, <1>6, <1>7, <1>8, <1>9, <1>10

LEMMA LoopKeepsIInv ==
    ASSUME IInv, Loop
    PROVE  IInv' /\ FinalStatusStays
  <1>1. /\ graph \in Graphs /\ pc = "loop"
        /\ \A n \in Nodes : graph[n] \notin {"generating", "validating"}
        /\ \A n \in With(graph, "pending") : \A d \in DependsOn[n] :
              graph[d] \in {"pending", "generating", "committed"}
        /\ UNCHANGED <<machine, committedFiles, disk, file, errors, aborted>>
    BY DEF IInv, TypeOK, GraphInv, AtNode, Loop
  <1>2. ASSUME graph' \in Graphs, pc' \in {"ending", "generating"},
               \A n \in Nodes : graph[n] # "pending" => graph'[n] = graph[n],
               \A n \in Nodes : graph'[n] \notin {"failed", "validating"}
                                   \/ graph'[n] = graph[n],
               manifest' \in [status : {"running", "validating", "repairing",
                                        "done", "failed"},
                              committed : SUBSET Paths,
                              failed : SUBSET Nodes,
                              skipped : SUBSET Nodes],
               manifest'.status = manifest.status,
               manifest'.committed = manifest.committed,
               manifest'.failed = manifest.failed,
               GraphInv'
        PROVE  IInv' /\ FinalStatusStays
    <2>1. TypeOK'
      BY <1>1, <1>2 DEF IInv, TypeOK, States
    <2>2. FinalStatusStays
      BY <1>2 DEF FinalStatusStays
    <2>3. MachineFollowsEngine'
      BY <1>1, <1>2 DEF IInv, MachineFollowsEngine
    <2>4. ManifestIsNoLiar'
      BY <1>1, <1>2 DEF IInv, ManifestIsNoLiar, With
    <2> QED
      BY <1>2, <2>1, <2>2, <2>3, <2>4 DEF IInv
  <1>3. CASE pc' = "ending" /\ UNCHANGED <<graph, manifest>>
    <2>1. GraphInv'
      BY <1>1, <1>3 DEF GraphInv, AtNode
    <2> QED
      BY <1>1, <1>2, <1>3, <2>1 DEF IInv, TypeOK
  <1>4. CASE /\ graph' = ResolveDeadlock(graph)
             /\ manifest' = [manifest EXCEPT !.skipped = With(graph, "pending")]
             /\ pc' = "ending"
    <2>1. /\ graph' \in Graphs
          /\ \A n \in Nodes : graph'[n] = IF graph[n] = "pending" THEN "skipped"
                                                                  ELSE graph[n]
      BY <1>1, <1>4 DEF ResolveDeadlock, Graphs, Statuses
    <2>2. GraphInv'
      BY <1>1, <1>4, <2>1 DEF GraphInv, AtNode
    <2>3. With(graph, "pending") \in SUBSET Nodes
      BY DEF With
    <2> QED
      BY <1>1, <1>2, <1>4, <2>1, <2>2, <2>3 DEF IInv, TypeOK
  <1>5. CASE /\ Ready(graph) # {}
             /\ graph' = [graph EXCEPT ![NextPendingNode(graph)] = "generating"]
             /\ pc' = "generating"
             /\ UNCHANGED manifest
    <2> DEFINE c == NextPendingNode(graph)
    <2>1. c \in Nodes /\ graph[c] = "pending"
      BY <1>1, <1>5, NextIsReady DEF Ready, With
    <2> HIDE DEF c
    <2>2. /\ graph' \in Graphs
          /\ graph'[c] = "generating"
          /\ \A n \in Nodes \ {c} : graph'[n] = graph[n]
      BY <1>1, <1>5, <2>1 DEF Graphs, Statuses, c
    <2>3. Current' = c
      <3>1. \A n \in Nodes : graph'[n] = "generating" <=> n = c
        BY <1>1, <2>1, <2>2
      <3>2. (CHOOSE n \in Nodes : graph'[n] = "generating") = c
        BY <2>1, <3>1
      <3> QED
        BY <3>2 DEF Current
    <2>4. GraphInv'
      <3>1. \A n \in With(graph, "pending")' :
               n \in With(graph, "pending") /\ n # c
        BY <2>2 DEF With
      <3>2. ASSUME NEW n \in With(graph, "pending")', NEW d \in DependsOn[n]
            PROVE  graph'[d] \in {"pending", "generating", "committed"}
        <4>1. d \in Nodes
          BY <3>1, <3>2, DependenciesAreNodes DEF With
        <4> QED
          BY <1>1, <2>2, <3>1, <3>2, <4>1
      <3>3. \A n \in Nodes : graph'[n] # "validating"
        BY <1>1, <2>1, <2>2
      <3>4. \A n \in Nodes : graph'[n] = "generating" => n = Current'
        BY <1>1, <2>2, <2>3
      <3> QED
        BY <1>5, <2>1, <2>2, <2>3, <3>2, <3>3, <3>4 DEF GraphInv, AtNode
    <2> QED
      BY <1>1, <1>2, <1>5, <2>1, <2>2, <2>4 DEF IInv, TypeOK
  <1> QED
    BY <1>3, <1>4, <1>5 DEF Loop

(* A step that leaves the graph alone and goes on with the same node, or   *)
(* has no node to work on.                                                 *)
LEMMA SameGraph ==
    ASSUME IInv, UNCHANGED graph, pc' # "loop", pc # "thrown",
           AtNode' => AtNode,
           AtNode => AtNode' \/ pc' = "thrown"
    PROVE  GraphInv' /\ FinalStatusStays
  <1>1. Current' = Current
    BY DEF Current
  <1>2. GraphInv'
    BY <1>1 DEF IInv, GraphInv, AtNode, With
  <1> QED
    BY <1>2 DEF FinalStatusStays

(* An error that leaves the engine, and the steps that only find something *)
(* out about the current node.                                             *)
LEMMA NodeStepKeepsIInv ==
    ASSUME IInv, Generated \/ Validated \/ Repaired \/ Throw
    PROVE  IInv' /\ FinalStatusStays
  <1>1. /\ UNCHANGED <<graph, manifest, committedFiles, disk, errors, aborted>>
        /\ pc' \in States
        /\ machine \in MachineStates /\ file' \in Paths
    BY DEF Generated, Validated, Repaired, Throw, States, IInv, TypeOK
  <1>2. GraphInv' /\ FinalStatusStays
    BY <1>1, SameGraph DEF Generated, Validated, Repaired, Throw, AtNode
  <1>3. machine' \in MachineStates
    <2>1. SafeTransition(machine, "LocalValidation") \in MachineStates
      BY <1>1, SafeTransitionType DEF MachineStates
    <2> QED
      BY <1>1, <2>1 DEF Generated, Validated, Repaired, Throw
  <1>4. TypeOK'
    BY <1>1, <1>3 DEF IInv, TypeOK
  <1>5. MachineFollowsEngine'
    <2>1. SafeTransition("Generating", "LocalValidation") = "LocalValidation"
          /\ SafeTransition("Committing", "LocalValidation") = "Committing"
      BY DEF SafeTransition, ValidTransitions
    <2> QED
      BY <1>1, <2>1 DEF IInv, MachineFollowsEngine, Generated, Validated,
                        Repaired, Throw
  <1>6. ManifestIsNoLiar'
    BY <1>1 DEF IInv, ManifestIsNoLiar, With
  <1> QED
    BY <1>2, <1>4, <1>5, <1>6 DEF IInv

(* A file is given up: no block was found, or it could not be written.     *)
LEMMA FailureKeepsIInv ==
    ASSUME IInv, GenerationUseless \/ CommitFails
    PROVE  IInv' /\ FinalStatusStays
  <1>1. /\ UNCHANGED <<committedFiles, disk, file, errors, aborted>>
        /\ AtNode /\ GiveUp /\ pc' \in {"loop", "thrown"}
        /\ machine \in MachineStates
    BY DEF GenerationUseless, CommitFails, AtNode, IInv, TypeOK
  <1>2. /\ graph' \in Graphs
        /\ \A n \in Nodes : graph'[n] \notin {"generating", "validating"}
        /\ \A n \in With(graph, "pending")' : \A d \in DependsOn[n] :
              graph'[d] \in {"pending", "committed"}
        /\ FinalStatusStays
        /\ manifest'.failed = With(graph, "failed")'
        /\ manifest'.committed = manifest.committed
        /\ manifest' = [manifest EXCEPT !.failed = manifest'.failed]
        /\ manifest'.failed \in SUBSET Nodes
    BY <1>1, GiveUpKeepsGraph
  <1>3. GraphInv'
    BY <1>1, <1>2 DEF GraphInv, AtNode
  <1>4. machine' \in {"Generating", "Committing"}
    <2>1. CASE GenerationUseless
      BY <2>1 DEF GenerationUseless, IInv, MachineFollowsEngine
    <2>2. CASE CommitFails
      <3>1. machine \in {"LocalValidation", "Committing"}
        BY <2>2 DEF CommitFails, IInv, MachineFollowsEngine
      <3>2. SafeTransition("LocalValidation", "Committing") = "Committing"
            /\ SafeTransition("Committing", "Committing") = "Committing"
        BY DEF SafeTransition, ValidTransitions
      <3> QED
        BY <2>2, <3>1, <3>2 DEF CommitFails
    <2> QED
      BY <2>1, <2>2
  <1>5. MachineFollowsEngine'
    BY <1>1, <1>4 DEF MachineFollowsEngine
  <1>6. manifest' \in [status : {"running", "validating", "repairing", "done",
                                "failed"},
                       committed : SUBSET Paths, failed : SUBSET Nodes,
                       skipped : SUBSET Nodes]
    <2> DEFINE f == manifest'.failed
    <2>1. f \in SUBSET Nodes /\ manifest' = [manifest EXCEPT !.failed = f]
      BY <1>2
    <2> HIDE DEF f
    <2> QED
      BY <2>1 DEF IInv, TypeOK
  <1>7. TypeOK'
    BY <1>1, <1>2, <1>4, <1>6 DEF IInv, TypeOK, States, MachineStates
  <1>8. ManifestIsNoLiar'
    BY <1>1, <1>2 DEF IInv, ManifestIsNoLiar
  <1> QED
    BY <1>2, <1>3, <1>5, <1>7, <1>8 DEF IInv

(* A file is written, then the machine and the manifest are told.          *)
LEMMA CommitKeepsIInv ==
    ASSUME IInv, Commit
    PROVE  IInv' /\ FinalStatusStays
  <1> DEFINE c == Current
  <1>1. /\ c \in Nodes /\ graph[c] = "generating" /\ graph \in Graphs
        /\ \A n \in Nodes : graph[n] = "generating" => n = c
        /\ \A n \in Nodes : graph[n] # "validating"
        /\ \A n \in With(graph, "pending") : \A d \in DependsOn[n] :
              graph[d] \in {"pending", "generating", "committed"}
    BY DEF Commit, IInv, TypeOK, GraphInv, AtNode
  <1>2. /\ graph' = [graph EXCEPT ![c] = "committed"]
        /\ pc' = "loop" /\ file \in Paths
        /\ disk' = disk \cup {file}
        /\ committedFiles' = committedFiles \cup {file}
        /\ manifest' = [manifest EXCEPT !.committed = @ \cup {file}]
        /\ UNCHANGED <<file, errors, aborted>>
    BY DEF Commit, IInv, TypeOK
  <1> HIDE DEF c
  <1>3. /\ graph' \in Graphs /\ graph'[c] = "committed"
        /\ \A n \in Nodes \ {c} : graph'[n] = graph[n]
    BY <1>1, <1>2 DEF Graphs, Statuses
  <1>4. GraphInv'
    <2>1. ASSUME NEW n \in With(graph, "pending")', NEW d \in DependsOn[n]
          PROVE  graph'[d] \in {"pending", "generating", "committed"}
      <3>1. n \in With(graph, "pending")
        BY <1>3, <2>1 DEF With
      <3>2. d \in Nodes
        BY <2>1, <3>1, DependenciesAreNodes DEF With
      <3> QED
        BY <1>1, <1>3, <2>1, <3>1, <3>2
    <2>2. \A n \in Nodes : graph'[n] \notin {"generating", "validating"}
      BY <1>1, <1>3
    <2> QED
      BY <1>2, <2>1, <2>2 DEF GraphInv, AtNode
  <1>5. machine' = "Generating"
    <2>1. machine \in {"LocalValidation", "Committing"}
      BY DEF Commit, IInv, MachineFollowsEngine
    <2>2. /\ SafeTransition("LocalValidation", "Committing") = "Committing"
          /\ SafeTransition("Committing", "Committing") = "Committing"
          /\ SafeTransition("Committing", "Generating") = "Generating"
      BY DEF SafeTransition, ValidTransitions
    <2> QED
      BY <2>1, <2>2 DEF Commit
  <1>6. /\ manifest' \in [status : {"running", "validating", "repairing",
                                    "done", "failed"},
                          committed : SUBSET Paths, failed : SUBSET Nodes,
                          skipped : SUBSET Nodes]
        /\ manifest'.committed = manifest.committed \cup {file}
        /\ manifest'.failed = manifest.failed
    BY <1>2 DEF IInv, TypeOK
  <1>7. TypeOK'
    BY <1>2, <1>3, <1>5, <1>6 DEF IInv, TypeOK, States, MachineStates
  <1>8. MachineFollowsEngine'
    BY <1>2, <1>5 DEF MachineFollowsEngine
  <1>9. ManifestIsNoLiar'
    BY <1>1, <1>2, <1>3, <1>6 DEF IInv, ManifestIsNoLiar, With
  <1>10. FinalStatusStays
    BY <1>1, <1>3 DEF FinalStatusStays
  <1> QED
    BY <1>4, <1>7, <1>8, <1>9, <1>10 DEF IInv

(* The validation of the project, from the end of the loop on.             *)
LEMMA ProjectKeepsIInv ==
    ASSUME IInv, StartProject \/ ProjectValidated \/ Compiled \/ ProjectRepair
                    \/ Finalize \/ Abort
    PROVE  IInv' /\ FinalStatusStays
  <1>1. /\ UNCHANGED <<graph, committedFiles, file>>
        /\ pc' \in States /\ disk' \subseteq Paths /\ disk \subseteq disk'
        /\ machine \in MachineStates
        /\ errors' \in BOOLEAN
    BY DEF StartProject, ProjectValidated, Compiled, ProjectRepair, Finalize,
           Abort, States, IInv, TypeOK
  <1>2. aborted' \in BOOLEAN
    BY DEF StartProject, ProjectValidated, Compiled, ProjectRepair, Finalize,
           Abort, IInv, TypeOK
  <1>3. GraphInv' /\ FinalStatusStays
    <2>1. CASE Abort
      BY <1>1, <2>1 DEF Abort, IInv, GraphInv, AtNode, With, Current,
                        FinalStatusStays
    <2>2. CASE ~Abort
      BY <1>1, <2>2, SameGraph DEF StartProject, ProjectValidated, Compiled,
                                   ProjectRepair, Finalize, AtNode
    <2> QED
      BY <2>1, <2>2
  <1>4. /\ manifest' \in [status : {"running", "validating", "repairing",
                                    "done", "failed"},
                          committed : SUBSET Paths, failed : SUBSET Nodes,
                          skipped : SUBSET Nodes]
        /\ manifest'.committed = manifest.committed
        /\ manifest'.failed = manifest.failed
    BY DEF StartProject, ProjectValidated, Compiled, ProjectRepair, Finalize,
           Abort, IInv, TypeOK
  <1>5. /\ \A m \in {"Generating", "Committing"} :
              SafeTransition(m, "ProjectValidation") = "ProjectValidation"
        /\ SafeTransition("ProjectValidation", "Linking") = "Linking"
        /\ SafeTransition("Linking", "Compiling") = "Compiling"
        /\ \A m \in MachineStates \ {"Completed"} :
              SafeTransition(m, "Failed") = "Failed"
        /\ \A m \in MachineStates \ {"Completed"} :
              SafeTransition(m, "ProjectRepair") # "Completed"
    BY DEF SafeTransition, ValidTransitions, MachineStates
  <1>6. machine' \in MachineStates /\ MachineFollowsEngine'
    <2>1. CASE StartProject
      <3>1. machine \in {"Generating", "Committing"}
        BY <2>1 DEF StartProject, IInv, MachineFollowsEngine
      <3> QED
        BY <1>5, <2>1, <3>1 DEF StartProject, MachineFollowsEngine, MachineStates
    <2>2. CASE ProjectValidated
      <3>1. machine = "ProjectValidation"
        BY <2>2 DEF ProjectValidated, IInv, MachineFollowsEngine
      <3> QED
        BY <1>5, <2>2, <3>1 DEF ProjectValidated, MachineFollowsEngine,
                                MachineStates
    <2>3. CASE Compiled \/ Abort
      BY <1>1, <2>3 DEF Compiled, Abort, IInv, MachineFollowsEngine
    <2>4. CASE ProjectRepair
      <3>1. machine # "Completed"
        BY <2>4 DEF ProjectRepair, IInv, MachineFollowsEngine
      <3>2. machine' = machine \/ machine' = SafeTransition(machine, "ProjectRepair")
        BY <2>4 DEF ProjectRepair
      <3>3. machine' \in MachineStates \ {"Completed"} /\ pc' = "finalizing"
        BY <1>1, <1>5, <2>4, <3>1, <3>2, SafeTransitionType
           DEF ProjectRepair, MachineStates
      <3> QED
        BY <3>3 DEF MachineFollowsEngine
    <2>5. CASE Finalize
      <3>1. machine # "Completed"
        BY <2>5 DEF Finalize, IInv, MachineFollowsEngine
      <3>2. CASE manifest.failed # {}
        <4>1. machine' = "Failed" /\ pc' = "ended"
          BY <1>1, <1>5, <2>5, <3>1, <3>2 DEF Finalize
        <4> QED
          BY <4>1 DEF MachineFollowsEngine, MachineStates
      <3>3. CASE manifest.failed = {}
        <4>1. /\ machine' = SafeTransition(machine, "Completed")
              /\ manifest' = [manifest EXCEPT !.status = "done"]
              /\ pc' = "ended"
          BY <2>5, <3>3 DEF Finalize
        <4>2. manifest'.status = "done"
          BY <4>1 DEF IInv, TypeOK
        <4>3. machine' \in MachineStates
          BY <1>1, <4>1, SafeTransitionType DEF MachineStates
        <4> QED
          BY <1>4, <3>3, <4>1, <4>2, <4>3 DEF MachineFollowsEngine
      <3> QED
        BY <3>2, <3>3
    <2> QED
      BY <2>1, <2>2, <2>3, <2>4, <2>5
  <1>7. TypeOK'
    BY <1>1, <1>2, <1>4, <1>6 DEF IInv, TypeOK
  <1>8. ManifestIsNoLiar'
    BY <1>1, <1>4 DEF IInv, ManifestIsNoLiar, With
  <1> QED
    BY <1>3, <1>6, <1>7, <1>8 DEF IInv

LEMMA IInvInitially == Init => IInv
  <1> SUFFICES ASSUME Init
               PROVE  IInv
    OBVIOUS
  <1>1. /\ graph \in [Nodes -> {"pending", "committed"}] /\ disk \in SUBSET Paths
        /\ manifest.committed = With(graph, "committed") \cap disk
        /\ manifest.failed = {} /\ pc = "loop" /\ machine = "Generating"
    BY DEF Init
  <1>2. graph \in Graphs /\ With(graph, "committed") \cap disk \subseteq Paths
    BY <1>1 DEF Graphs, Statuses
  <1>3. TypeOK
    <2>1. errors \in BOOLEAN /\ aborted \in BOOLEAN
      BY Zenon DEF Init
    <2>2. manifest \in [status : {"running", "validating", "repairing", "done",
                                "failed"},
                       committed : SUBSET Paths, failed : SUBSET Nodes,
                       skipped : SUBSET Nodes]
      BY <1>2 DEF Init
    <2> QED
      BY <1>1, <1>2, <2>1, <2>2 DEF Init, TypeOK, Paths, MachineStates, States
  <1>4. GraphInv
    <2>1. \A n \in With(graph, "pending") : \A d \in DependsOn[n] : d \in Nodes
      BY DependenciesAreNodes DEF With
    <2> QED
      BY <1>1, <2>1 DEF GraphInv, AtNode
  <1>5. MachineFollowsEngine
    BY <1>1 DEF MachineFollowsEngine
  <1>6. ManifestIsNoLiar
    BY <1>1 DEF ManifestIsNoLiar, With
  <1> QED
    BY <1>3, <1>4, <1>5, <1>6 DEF IInv

LEMMA IInvInductive == IInv /\ [Next]_vars => IInv' /\ [FinalStatusStays]_vars
  <1> SUFFICES ASSUME IInv, [Next]_vars
               PROVE  IInv' /\ (FinalStatusStays \/ UNCHANGED vars)
    OBVIOUS
  <1>1. CASE UNCHANGED vars
    <2>1. TypeOK' /\ MachineFollowsEngine'
      BY <1>1 DEF vars, IInv, TypeOK, MachineFollowsEngine
    <2>2. GraphInv' /\ ManifestIsNoLiar'
      BY <1>1 DEF vars, IInv, GraphInv, AtNode, Current, With, ManifestIsNoLiar
    <2> QED
      BY <1>1, <2>1, <2>2 DEF IInv
  <1> QED
    BY <1>1, LoopKeepsIInv, NodeStepKeepsIInv, FailureKeepsIInv, CommitKeepsIInv,
       ProjectKeepsIInv DEF Next, EngineStep, Over

LEMMA IInvAlways == Spec => []IInv
  <1>1. IInv /\ [Next]_vars => IInv'
    BY IInvInductive
  <1> QED
    BY <1>1, IInvInitially, PTL DEF Spec

-----------------------------------------------------------------------------
(* The theorems *)

(* The state of the engine is always well typed, whatever the plan.        *)
THEOREM TypeCorrect == Spec => []TypeOK
  <1>1. IInv => TypeOK
    BY DEF IInv
  <1> QED
    BY <1>1, IInvAlways, PTL

(* markNodeFailed() skips all that rests on a failure, so the deadlock     *)
(* branch of the loop (incrementalEngine.ts:316) is never needed.          *)
THEOREM NeverDeadlockedAlways == Spec => []NeverDeadlocked
  <1>1. IInv => NeverDeadlocked
    <2> SUFFICES ASSUME IInv, pc = "loop"
                 PROVE  ~IsDeadlocked(graph)
      BY DEF NeverDeadlocked
    <2>1. /\ graph \in Graphs
          /\ \A n \in Nodes : graph[n] # "generating"
          /\ \A n \in With(graph, "pending") : \A d \in DependsOn[n] :
                graph[d] \in {"pending", "generating", "committed"}
      BY DEF IInv, TypeOK, GraphInv, AtNode
    <2>2. \A n \in With(graph, "pending") : \A d \in DependsOn[n] : d \in Nodes
      BY DependenciesAreNodes DEF With
    <2> QED
      BY <2>1, <2>2, PendingCanFollow
  <1> QED
    BY <1>1, IInvAlways, PTL

(* safeTransition() refuses in silence, and yet the machine's state tells  *)
(* how the run ended (pipelineState.ts:81).                                *)
THEOREM MachineFollowsEngineAlways == Spec => []MachineFollowsEngine
  <1>1. IInv => MachineFollowsEngine
    BY DEF IInv
  <1> QED
    BY <1>1, IInvAlways, PTL

(* The manifest's committed files exist and its failed files are the failed*)
(* nodes (generationManifest.ts).                                          *)
THEOREM ManifestIsNoLiarAlways == Spec => []ManifestIsNoLiar
  <1>1. IInv => ManifestIsNoLiar
    BY DEF IInv
  <1> QED
    BY <1>1, IInvAlways, PTL

(* No step takes a final status back from a node.                          *)
THEOREM FinalStatusesAreFinalAlways == Spec => FinalStatusesAreFinal
  <1>1. IInv /\ [Next]_vars => [FinalStatusStays]_vars
    BY IInvInductive
  <1> QED
    BY <1>1, IInvAlways, PTL DEF Spec, FinalStatusesAreFinal

-----------------------------------------------------------------------------
(* How much is left to do *)

Unfinished == {n \in Nodes : graph[n] \in {"pending", "generating"}}

(* At most how many steps the engine is from the loop's head or its end.   *)
Ahead == [loop |-> 10, generating |-> 9, validating |-> 8, repairing |-> 7,
          committing |-> 6, ending |-> 5, project |-> 4, compiling |-> 3,
          projectRepair |-> 2, finalizing |-> 1, ended |-> 0, thrown |-> 0]

(* Five steps for each file, and as many for the project.                  *)
StepsLeft == 5 * Cardinality(Unfinished) + Ahead[pc]

LessIsLeft ==
    IF aborted' = aborted THEN StepsLeft' < StepsLeft ELSE StepsLeft' = StepsLeft

LEMMA AheadIsCounted ==
    ASSUME NEW s \in States
    PROVE  Ahead[s] \in 0..10
  BY DEF Ahead, States

LEMMA UnfinishedIsCounted ==
    /\ IsFiniteSet(Unfinished)
    /\ Cardinality(Unfinished) \in 0..Files
  <1>1. /\ IsFiniteSet(Nodes) /\ Cardinality(Nodes) = Files
        /\ Unfinished \subseteq Nodes /\ Files \in Nat
    BY FS_Interval, PlanAssumption DEF Nodes, Unfinished
  <1>2. /\ IsFiniteSet(Unfinished)
        /\ Cardinality(Unfinished) <= Cardinality(Nodes)
    BY <1>1, FS_Subset
  <1> QED
    BY <1>1, <1>2, FS_CardinalityType

LEMMA UnfinishedIsCountedNext ==
    /\ IsFiniteSet(Unfinished')
    /\ Cardinality(Unfinished') \in Nat
  <1>1. /\ IsFiniteSet(Nodes) /\ Unfinished' \subseteq Nodes
    BY FS_Interval, PlanAssumption DEF Nodes, Unfinished
  <1> QED
    BY <1>1, FS_Subset, FS_CardinalityType

(* Nothing is started again, and the engine goes forward.                  *)
LEMMA ForwardIsLess ==
    ASSUME IInv, IInv', Unfinished' \subseteq Unfinished, Ahead[pc'] < Ahead[pc]
    PROVE  StepsLeft' < StepsLeft
  <1>1. Cardinality(Unfinished') <= Cardinality(Unfinished)
    BY UnfinishedIsCounted, FS_Subset
  <1>2. /\ Cardinality(Unfinished') \in Nat /\ Cardinality(Unfinished) \in Nat
        /\ Ahead[pc] \in Nat /\ Ahead[pc'] \in Nat
    BY UnfinishedIsCounted, UnfinishedIsCountedNext, AheadIsCounted
       DEF IInv, TypeOK
  <1> DEFINE before == Cardinality(Unfinished)
             after == Cardinality(Unfinished')
  <1>3. StepsLeft = 5 * before + Ahead[pc] /\ StepsLeft' = 5 * after + Ahead[pc']
    BY DEF StepsLeft, Ahead
  <1> HIDE DEF before, after
  <1>4. after <= before /\ after \in Nat /\ before \in Nat
    BY <1>1, <1>2 DEF before, after
  <1>5. 5 * after + Ahead[pc'] < 5 * before + Ahead[pc]
    BY <1>2, <1>4
  <1> QED
    BY <1>3, <1>5

(* The current node is done with: back to the loop, or out of the engine.  *)
LEMMA FinishedIsLess ==
    ASSUME IInv, IInv', AtNode, pc' \in {"loop", "thrown"},
           FinalStatusStays, graph'[Current] \in {"committed", "failed"},
           \A n \in Nodes : graph'[n] \notin {"generating", "validating"}
    PROVE  StepsLeft' < StepsLeft
  <1>1. Current \in Unfinished
    BY DEF IInv, GraphInv, Unfinished
  <1>2. Unfinished' \subseteq Unfinished \ {Current}
    <2> SUFFICES ASSUME NEW n \in Nodes, graph'[n] \in {"pending", "generating"}
                 PROVE  n # Current /\ graph[n] \in {"pending", "generating"}
      BY DEF Unfinished
    <2> QED
      BY DEF FinalStatusStays, IInv, GraphInv, TypeOK, Graphs, Statuses
  <1>3. /\ IsFiniteSet(Unfinished \ {Current})
        /\ Cardinality(Unfinished \ {Current}) = Cardinality(Unfinished) - 1
    BY <1>1, UnfinishedIsCounted, FS_RemoveElement
  <1>4. Cardinality(Unfinished') <= Cardinality(Unfinished) - 1
    BY <1>2, <1>3, FS_Subset
  <1> DEFINE before == Cardinality(Unfinished)
             after == Cardinality(Unfinished')
  <1>5. StepsLeft = 5 * before + Ahead[pc] /\ StepsLeft' = 5 * after + Ahead[pc']
    BY DEF StepsLeft, Ahead
  <1>6. Ahead[pc] >= 6 /\ Ahead[pc'] <= 10 /\ Ahead[pc] \in Nat /\ Ahead[pc'] \in Nat
    BY DEF Ahead, AtNode
  <1>7. before \in Nat /\ after \in Nat
    BY UnfinishedIsCounted, UnfinishedIsCountedNext
  <1> HIDE DEF before, after
  <1>8. after <= before - 1
    BY <1>4 DEF before, after
  <1>9. 5 * after + Ahead[pc'] < 5 * before + Ahead[pc]
    BY <1>6, <1>7, <1>8
  <1> QED
    BY <1>5, <1>9

LEMMA LoopIsLess ==
    ASSUME IInv, IInv', Loop
    PROVE  StepsLeft' < StepsLeft
  <1>1. Ahead[pc'] < Ahead[pc]
    BY DEF Loop, Ahead
  <1>2. graph \in Graphs
    BY DEF IInv, TypeOK
  <1>3. Unfinished' \subseteq Unfinished
    <2>1. CASE UNCHANGED graph
      BY <2>1 DEF Unfinished
    <2>2. CASE graph' = ResolveDeadlock(graph)
      BY <2>2 DEF ResolveDeadlock, Unfinished
    <2>3. CASE /\ graph' = [graph EXCEPT ![NextPendingNode(graph)] = "generating"]
               /\ Ready(graph) # {}
      <3>1. /\ NextPendingNode(graph) \in Nodes
            /\ graph[NextPendingNode(graph)] = "pending"
        BY <1>2, <2>3, NextIsReady DEF Ready, With
      <3> DEFINE n == NextPendingNode(graph)
      <3> HIDE DEF n
      <3>2. n \in Nodes /\ graph[n] = "pending"
            /\ graph' = [graph EXCEPT ![n] = "generating"]
        BY <2>3, <3>1 DEF n
      <3> QED
        BY <1>2, <3>2 DEF Unfinished, Graphs
    <2> QED
      BY <2>1, <2>2, <2>3 DEF Loop
  <1> QED
    BY <1>1, <1>3, ForwardIsLess

LEMMA EngineStepIsLess ==
    ASSUME IInv, IInv', FinalStatusStays, EngineStep
    PROVE  StepsLeft' < StepsLeft
  <1>1. CASE GenerationUseless \/ CommitFails
    <2>1. AtNode /\ GiveUp /\ pc' \in {"loop", "thrown"}
      BY <1>1 DEF GenerationUseless, CommitFails, AtNode
    <2>2. graph \in Graphs /\ Current \in Nodes
      BY <2>1 DEF IInv, TypeOK, GraphInv
    <2>3. graph' = MarkNodeFailed(graph, Current)
      BY <2>1 DEF GiveUp
    <2>4. graph'[Current] = "failed"
      BY <2>2, <2>3, MarkNodeFailedType
    <2>5. \A n \in Nodes : graph'[n] \notin {"generating", "validating"}
      BY <2>1, GiveUpKeepsGraph
    <2> QED
      BY <2>1, <2>4, <2>5, FinishedIsLess
  <1>2. CASE Commit
    <2> DEFINE c == Current
    <2>1. AtNode /\ pc' = "loop" /\ graph' = [graph EXCEPT ![c] = "committed"]
      BY <1>2 DEF Commit, AtNode
    <2>2. /\ graph \in Graphs /\ c \in Nodes
          /\ \A n \in Nodes \ {c} : graph[n] \notin {"generating", "validating"}
      BY <2>1 DEF IInv, TypeOK, GraphInv, AtNode
    <2> HIDE DEF c
    <2>3. graph'[c] = "committed"
          /\ \A n \in Nodes : graph'[n] \notin {"generating", "validating"}
      BY <2>1, <2>2 DEF Graphs
    <2> QED
      BY <2>1, <2>3, FinishedIsLess DEF c
  <1>3. CASE Generated \/ Validated \/ Repaired \/ StartProject
                \/ ProjectValidated \/ Compiled \/ ProjectRepair \/ Finalize
                \/ Throw
    <2>1. UNCHANGED graph /\ Ahead[pc'] < Ahead[pc]
      BY <1>3 DEF Generated, Validated, Repaired, StartProject,
            ProjectValidated, Compiled, ProjectRepair, Finalize, Throw, Ahead
    <2>2. Unfinished' = Unfinished
      BY <2>1 DEF Unfinished
    <2> QED
      BY <2>1, <2>2, ForwardIsLess
  <1> QED
    BY <1>1, <1>2, <1>3, LoopIsLess DEF EngineStep

(* The engine is at any time at most this many steps from its end, abort   *)
(* or not: run() has no loop that a bound does not end.                    *)
THEOREM StepsAreBounded == Spec => [](StepsLeft \in 0..(5 * Files + 10))
  <1>1. IInv => StepsLeft \in 0..(5 * Files + 10)
    <2> SUFFICES ASSUME IInv
                 PROVE  StepsLeft \in 0..(5 * Files + 10)
      OBVIOUS
    <2>1. Ahead[pc] \in 0..10 /\ Cardinality(Unfinished) \in 0..Files
          /\ Files \in Nat
      BY AheadIsCounted, UnfinishedIsCounted, PlanAssumption DEF IInv, TypeOK
    <2> DEFINE k == Cardinality(Unfinished)
               a == Ahead[pc]
    <2> HIDE DEF k, a
    <2>2. k \in 0..Files /\ a \in 0..10 /\ StepsLeft = 5 * k + a
      BY <2>1 DEF k, a, StepsLeft
    <2> QED
      BY <2>1, <2>2
  <1> QED
    BY <1>1, IInvAlways, PTL

(* Every step but the abort itself leaves fewer steps, and the abort does  *)
(* not add any: the measure by which the engine of incrementalEngine.ts    *)
(* ends, whatever is generated, repaired or fails to be written.           *)
THEOREM EveryStepIsProgress == Spec => [][LessIsLeft]_vars
  <1>1. IInv /\ IInv' /\ [Next]_vars /\ [FinalStatusStays]_vars
           => [LessIsLeft]_vars
    <2> SUFFICES ASSUME IInv, IInv', Next, FinalStatusStays, vars' # vars
                 PROVE  LessIsLeft
      OBVIOUS
    <2>1. CASE EngineStep
      <3>1. UNCHANGED aborted
        BY <2>1 DEF EngineStep, Loop, GenerationUseless, Generated, Validated,
              Repaired, CommitFails, Commit, StartProject, ProjectValidated,
              Compiled, ProjectRepair, Finalize, Throw
      <3> QED
        BY <2>1, <3>1, EngineStepIsLess DEF LessIsLeft
    <2>2. CASE Abort
      <3>1. UNCHANGED <<graph, pc>> /\ aborted' # aborted
        BY <2>2 DEF Abort
      <3>2. StepsLeft' = StepsLeft
        BY <3>1 DEF StepsLeft, Unfinished, Ahead
      <3> QED
        BY <3>1, <3>2 DEF LessIsLeft
    <2> QED
      BY <2>1, <2>2 DEF Next, Over
  <1> QED
    BY <1>1, IInvInductive, IInvAlways, PTL DEF Spec
=============================================================================
