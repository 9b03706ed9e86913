-------------------------- MODULE JobServiceProofs --------------------------
(***************************************************************************)
(* For every plan, any number of jobs, runs, retries, restarts and failed  *)
(* writes: checkpoints are closed and true, work rests on what is          *)
(* committed, nodes are skipped for a reason, ended runs are complete, a   *)
(* run alone on its job can be cancelled and a cancelled run starts        *)
(* nothing; and, while the router does not restart, running jobs have runs.*)
(***************************************************************************)
EXTENDS JobService, ExecutionGraphProofs

(* A skipped node rests on one that failed or was skipped.                 *)
HasReasons(graph) ==
    \A n \in With(graph, "skipped") :
        \E d \in DependsOn[n] : graph[d] \in {"failed", "skipped"}

NothingUnderWay(graph) ==
    \A n \in Nodes : graph[n] \notin {"generating", "validating"}

(* The local state x of a run fits the manifest m and the files of its job:*)
(* the graph of a run at work commits only what the manifest does, and its *)
(* current node is the only one under way, on committed dependencies.      *)
RunFits(x, m, files) ==
    /\ x.pc = "unused" => ~x.aborted
    /\ x.pc \in AtWork => With(x.graph, "committed") \subseteq m.committed
    /\ x.pc = "acquiring" => NothingUnderWay(x.graph)
    /\ x.pc \in AtWork \ {"acquiring"} =>
          /\ x.graph[x.node] \in {"generating", "validating"}
          /\ \A n \in Nodes \ {x.node} :
                x.graph[n] \notin {"generating", "validating"}
          /\ DependsOn[x.node] \subseteq With(x.graph, "committed")
    /\ x.pc = "repairing" => x.attempt < MaxRetries
    /\ x.pc = "committing" => x.node \in files \cup Misnamed
    /\ x.pc = "over" /\ ~x.aborted => IsGraphComplete(x.graph)
    /\ HasReasons(x.graph)

(* What the manifest m calls committed rests on itself, and is written.    *)
ManifestFits(m, files) ==
    /\ \A n \in m.committed : DependsOn[n] \subseteq m.committed
    /\ m.committed \ Misnamed \subseteq files

WrittenNext(j) == {n \in Nodes : project'[j][n] \in {n} \cup Misnamed}

(* A path that holds its node's file, or a misnamed node's, goes on to.    *)
FilesGrow ==
    /\ project' \in [Jobs -> [Paths -> Contents]]
    /\ \A j \in Jobs : Written(j) \subseteq WrittenNext(j)

RunsFit == \A r \in Runs : RunFits(run[r], Own(r), Written(run[r].job))

ManifestsFit == \A j \in Jobs : ManifestFits(manifest[j], Written(j))

(* A job's entry in the map is a run of that job.                          *)
ActiveInv ==
    \A j \in Jobs : \A r \in Runs : activeJobs[j] = r =>
        run[r].job = j /\ run[r].pc # "unused"

IInv == TypeOK /\ RunsFit /\ ManifestsFit /\ ActiveInv /\ SoleRunIsCancellable

StartsNothing ==
    \A r \in Runs : run[r].aborted /\ run'[r].pc = "generating" =>
        run[r].pc = "generating" /\ run'[r].node = run[r].node

-----------------------------------------------------------------------------
(* Runs, and the manifests they share *)

(* Other runs only add to a job's manifest and files.                      *)
LEMMA StillFits ==
    ASSUME NEW x \in RunStates, NEW m \in Manifests, NEW more \in Manifests,
           NEW files, NEW moreFiles, RunFits(x, m, files),
           m.committed \subseteq more.committed, files \subseteq moreFiles
    PROVE  RunFits(x, more, moreFiles)
  BY DEF RunFits

LEMMA ManifestStillFits ==
    ASSUME NEW m \in Manifests, NEW files, NEW moreFiles,
           ManifestFits(m, files), files \subseteq moreFiles
    PROVE  ManifestFits(m, moreFiles)
  BY DEF ManifestFits

LEMMA FilesStay ==
    ASSUME IInv, UNCHANGED project
    PROVE  FilesGrow
  BY DEF FilesGrow, Written, WrittenNext, IInv, TypeOK

LEMMA FirstAttempt == 0 \in 0..MaxRetries
  BY JobServiceAssumption

(* A run at work steps to x, and leaves its job's manifest as m.           *)
LEMMA MoveKeepsIInv ==
    ASSUME IInv, NEW r \in Runs, Live(r), NEW x \in RunStates,
           x.pc # "unused", x.job = run[r].job, x.aborted <=> run[r].aborted,
           x.aborted => x.pc # "generating",
           NEW m \in Manifests, Own(r).committed \subseteq m.committed,
           FilesGrow,
           ManifestFits(m, Written(x.job)), RunFits(x, m, WrittenNext(x.job)),
           run' = [run EXCEPT ![r] = x],
           manifest' = [manifest EXCEPT ![x.job] = m],
           \/ UNCHANGED activeJobs
           \/ /\ x.pc \notin AtWork
              /\ activeJobs' = [activeJobs EXCEPT ![x.job] = NoRun],
           retryCounts' \in [Nodes -> Nat], restarts' \in 0..MaxRestarts,
           writeErrors' \in 0..MaxWriteErrors
    PROVE  IInv' /\ StartsNothing
  <1>1. /\ run'[r] = x /\ \A q \in Runs \ {r} : run'[q] = run[q]
        /\ \A q \in Runs : run'[q] \in RunStates /\ run'[q].job = run[q].job
        /\ run \in [Runs -> RunStates] /\ run' \in [Runs -> RunStates]
    BY DEF IInv, TypeOK
  <1>2. /\ x.job \in Jobs
        /\ \A q \in Runs : run[q].job \in Jobs
    BY <1>1 DEF RunStates
  <1>3. /\ manifest'[x.job] = m
        /\ \A j \in Jobs \ {x.job} : manifest'[j] = manifest[j]
        /\ manifest \in [Jobs -> Manifests]
        /\ manifest' \in [Jobs -> Manifests]
        /\ \A j \in Jobs : manifest[j].committed \subseteq manifest'[j].committed
    BY <1>2 DEF IInv, TypeOK, Own
  <1>4. TypeOK'
    BY <1>1, <1>2, <1>3 DEF IInv, TypeOK, FilesGrow
  <1>5. RunsFit'
    <2> SUFFICES ASSUME NEW q \in Runs
                 PROVE  RunFits(run'[q], manifest'[run'[q].job],
                                WrittenNext(run'[q].job))
      BY DEF RunsFit, Own, Written, WrittenNext
    <2>1. CASE q = r
      BY <1>1, <1>3, <2>1
    <2>2. CASE q # r
      <3>1. RunFits(run[q], manifest[run[q].job], Written(run[q].job))
        BY DEF IInv, RunsFit, Own
      <3>2. /\ manifest[run[q].job] \in Manifests
            /\ manifest'[run[q].job] \in Manifests
            /\ manifest[run[q].job].committed
                  \subseteq manifest'[run[q].job].committed
            /\ Written(run[q].job) \subseteq WrittenNext(run[q].job)
            /\ run[q] \in RunStates
        BY <1>1, <1>2, <1>3 DEF FilesGrow
      <3> QED
        BY <1>1, <2>2, <3>1, <3>2, StillFits
    <2> QED
      BY <2>1, <2>2
  <1>6. ManifestsFit'
    <2> SUFFICES ASSUME NEW j \in Jobs
                 PROVE  ManifestFits(manifest'[j], WrittenNext(j))
      BY DEF ManifestsFit, Written, WrittenNext
    <2>1. ManifestFits(manifest'[j], Written(j)) /\ manifest'[j] \in Manifests
      BY <1>3 DEF IInv, ManifestsFit
    <2> QED
      BY <2>1, ManifestStillFits DEF FilesGrow
  <1>7. \A j \in Jobs : activeJobs'[j] = activeJobs[j] \/ activeJobs'[j] = NoRun
    BY <1>2 DEF IInv, TypeOK
  <1>8. ActiveInv'
    BY <1>1, <1>7, JobServiceAssumption DEF IInv, ActiveInv
  <1>9. SoleRunIsCancellable'
    <2> SUFFICES ASSUME NEW q \in Runs, run'[q].pc \in AtWork, ~run'[q].aborted,
                        \A p \in Runs \ {q} : run'[p].pc = "unused"
                                                \/ run'[p].job # run'[q].job
                 PROVE  activeJobs'[run'[q].job] = q
      BY DEF SoleRunIsCancellable, Live
    <2>1. Live(q) /\ ~run[q].aborted
      BY <1>1 DEF Live
    <2>2. \A p \in Runs \ {q} : run[p].pc = "unused" \/ run[p].job # run[q].job
      BY <1>1
    <2>3. activeJobs[run[q].job] = q
      BY <2>1, <2>2 DEF IInv, SoleRunIsCancellable
    <2>4. activeJobs'[run[q].job] = activeJobs[run[q].job]
      BY <1>1, <1>2 DEF IInv, TypeOK
    <2> QED
      BY <1>1, <2>3, <2>4
  <1>10. StartsNothing
    BY <1>1 DEF StartsNothing
  <1> QED
    BY <1>4, <1>5, <1>6, <1>8, <1>9, <1>10 DEF IInv

(* Run r leaves the loop.                                                  *)
LEMMA LeaveKeepsIInv ==
    ASSUME IInv, NEW r \in Runs, Live(r), NEW graph \in Graphs,
           HasReasons(graph), run[r].aborted \/ IsGraphComplete(graph),
           NEW m \in Manifests, Own(r).committed \subseteq m.committed,
           ManifestFits(m, Written(run[r].job)),
           Leave(r, graph, m), FilesGrow,
           retryCounts' \in [Nodes -> Nat], restarts' \in 0..MaxRestarts,
           writeErrors' \in 0..MaxWriteErrors
    PROVE  IInv' /\ StartsNothing
  <1> DEFINE x == [run[r] EXCEPT !.pc = "over", !.graph = graph, !.attempt = 0]
             over == [m EXCEPT !.status = FinalStatus(graph)]
  <1>1. run[r] \in RunStates
    BY DEF IInv, TypeOK
  <1>2. /\ x \in RunStates /\ x.pc = "over" /\ x.job = run[r].job
        /\ x.graph = graph /\ x.aborted = run[r].aborted
    BY <1>1, FirstAttempt DEF RunStates
  <1>3. FinalStatus(graph) \in {"failed", "completed"}
    BY DEF FinalStatus
  <1>4. over \in Manifests /\ over.committed = m.committed
    BY <1>3 DEF Manifests, JobStatuses
  <1>5. /\ run' = [run EXCEPT ![r] = x]
        /\ manifest' = [manifest EXCEPT ![x.job] = over]
        /\ activeJobs' = [activeJobs EXCEPT ![x.job] = NoRun]
    BY <1>2 DEF Leave
  <1> HIDE DEF x, over
  <1>6. RunFits(x, over, WrittenNext(x.job))
    BY <1>2 DEF RunFits, AtWork
  <1>7. ManifestFits(over, Written(x.job))
    BY <1>2, <1>4 DEF ManifestFits
  <1>8. x.pc \notin AtWork /\ x.pc # "generating" /\ x.pc # "unused"
    BY <1>2 DEF AtWork
  <1> QED
    BY <1>2, <1>4, <1>5, <1>6, <1>7, <1>8, MoveKeepsIInv

(* The head of the loop, after an iteration that left nothing under way.   *)
LEMMA IterateKeepsIInv ==
    ASSUME IInv, NEW r \in Runs, Live(r), NEW graph \in Graphs,
           HasReasons(graph), NothingUnderWay(graph),
           NEW m \in Manifests, Own(r).committed \subseteq m.committed,
           With(graph, "committed") \subseteq m.committed,
           ManifestFits(m, Written(run[r].job)),
           Iterate(r, graph, m), FilesGrow,
           retryCounts' \in [Nodes -> Nat], restarts' \in 0..MaxRestarts,
           writeErrors' \in 0..MaxWriteErrors
    PROVE  IInv' /\ StartsNothing
  <1>1. CASE IsGraphComplete(graph) \/ run[r].aborted
    BY <1>1, LeaveKeepsIInv DEF Iterate
  <1>2. CASE ~(IsGraphComplete(graph) \/ run[r].aborted) /\ Ready(graph) = {}
    <2> DEFINE stuck == ResolveDeadlock(graph)
    <2>1. /\ stuck \in Graphs
          /\ \A n \in Nodes : stuck[n] = IF graph[n] = "pending" THEN "skipped"
                                                                ELSE graph[n]
      BY DEF ResolveDeadlock, Graphs, Statuses
    <2>2. Leave(r, stuck, m)
      BY <1>2 DEF Iterate
    <2> HIDE DEF stuck
    <2>3. IsGraphComplete(stuck)
      BY <2>1 DEF IsGraphComplete, NothingUnderWay, Graphs, Statuses
    <2>4. HasReasons(stuck)
      <3> SUFFICES ASSUME NEW n \in Nodes, stuck[n] = "skipped"
                   PROVE  \E d \in DependsOn[n] : stuck[d] \in {"failed", "skipped"}
        BY DEF HasReasons, With
      <3>1. DependsOn[n] \subseteq Nodes
        BY DependenciesAreNodes
      <3>2. CASE graph[n] = "skipped"
        <4>1. PICK d \in DependsOn[n] : graph[d] \in {"failed", "skipped"}
          BY <3>2 DEF HasReasons, With
        <4> QED
          BY <2>1, <3>1, <4>1
      <3>3. CASE graph[n] = "pending"
        <4>1. PICK d \in DependsOn[n] : graph[d] # "committed"
          BY <1>2, <3>3 DEF Ready, With
        <4>2. stuck[d] \in {"failed", "skipped"}
          BY <2>1, <2>3, <3>1, <4>1 DEF IsGraphComplete
        <4> QED
          BY <4>2
      <3> QED
        BY <2>1, <3>2, <3>3
    <2> QED
      BY <2>1, <2>2, <2>3, <2>4, LeaveKeepsIInv
  <1>3. CASE ~(IsGraphComplete(graph) \/ run[r].aborted) /\ Ready(graph) # {}
    <2> DEFINE n == NextPendingNode(graph)
               next == [graph EXCEPT ![n] = "generating"]
               x == [run[r] EXCEPT !.pc = "generating", !.node = n,
                                   !.graph = next, !.attempt = 0]
    <2>1. /\ n \in Nodes /\ graph[n] = "pending"
          /\ \A d \in DependsOn[n] : graph[d] = "committed"
      BY <1>3, NextIsReady DEF Ready, With
    <2>2. run[r] \in RunStates
      BY DEF IInv, TypeOK
    <2>3. /\ run' = [run EXCEPT ![r] = x]
          /\ manifest' = [manifest EXCEPT ![run[r].job] = m]
          /\ UNCHANGED activeJobs
      BY <1>3 DEF Iterate
    <2> HIDE DEF n
    <2>4. /\ next \in Graphs /\ next[n] = "generating"
          /\ \A d \in Nodes \ {n} : next[d] = graph[d]
      BY <2>1 DEF Graphs, Statuses
    <2> HIDE DEF next
    <2>5. /\ x \in RunStates /\ x.pc = "generating" /\ x.job = run[r].job
          /\ x.graph = next /\ x.aborted = run[r].aborted /\ x.node = n
      BY <2>1, <2>2, <2>4, FirstAttempt DEF RunStates, AtWork
    <2> HIDE DEF x
    <2>6. DependsOn[n] \subseteq Nodes
      BY <2>1, DependenciesAreNodes
    <2>7. With(next, "committed") = With(graph, "committed")
      BY <2>1, <2>4 DEF With
    <2>8. HasReasons(next)
      <3> SUFFICES ASSUME NEW i \in Nodes, next[i] = "skipped"
                   PROVE  \E d \in DependsOn[i] : next[d] \in {"failed", "skipped"}
        BY DEF HasReasons, With
      <3>1. graph[i] = "skipped" /\ DependsOn[i] \subseteq Nodes
        BY <2>4, DependenciesAreNodes
      <3>2. PICK d \in DependsOn[i] : graph[d] \in {"failed", "skipped"}
        BY <3>1 DEF HasReasons, With
      <3> QED
        BY <2>1, <2>4, <3>1, <3>2
    <2>9. DependsOn[n] \subseteq With(next, "committed")
      BY <2>1, <2>6, <2>7 DEF With
    <2>10. RunFits(x, m, WrittenNext(x.job))
      BY <2>4, <2>5, <2>7, <2>8, <2>9 DEF RunFits, NothingUnderWay
    <2>11. ManifestFits(m, Written(x.job))
      BY <2>5
    <2>12. ~x.aborted /\ x.pc # "unused" /\ (x.aborted <=> run[r].aborted)
      BY <1>3, <2>5
    <2> QED
      BY <2>3, <2>5, <2>10, <2>11, <2>12, MoveKeepsIInv
  <1> QED
    BY <1>1, <1>2, <1>3

-----------------------------------------------------------------------------
(* The steps of a run *)

AtNode(r) == run[r].pc \in AtWork \ {"acquiring"}

(* What holds of a run that works on a node, and of its job.               *)
LEMMA AtNodeFits ==
    ASSUME IInv, NEW r \in Runs, AtNode(r)
    PROVE  /\ Live(r)
           /\ run[r] \in RunStates /\ run[r].node \in Nodes /\ run[r].job \in Jobs
           /\ run[r].graph \in Graphs /\ HasReasons(run[r].graph)
           /\ run[r].graph[run[r].node] \in {"generating", "validating"}
           /\ \A n \in Nodes \ {run[r].node} :
                 run[r].graph[n] \notin {"generating", "validating"}
           /\ DependsOn[run[r].node] \subseteq With(run[r].graph, "committed")
           /\ With(run[r].graph, "committed") \subseteq Own(r).committed
           /\ Own(r) \in Manifests
           /\ ManifestFits(Own(r), Written(run[r].job))
           /\ retryCounts \in [Nodes -> Nat]
           /\ restarts \in 0..MaxRestarts /\ writeErrors \in 0..MaxWriteErrors
  <1>1. run[r] \in RunStates /\ Live(r)
    BY DEF IInv, TypeOK, AtNode, Live
  <1>2. run[r].job \in Jobs /\ run[r].node \in Nodes /\ run[r].graph \in Graphs
    BY <1>1 DEF RunStates
  <1>3. RunFits(run[r], Own(r), Written(run[r].job))
    BY DEF IInv, RunsFit
  <1>4. Own(r) \in Manifests /\ ManifestFits(Own(r), Written(run[r].job))
    BY <1>2 DEF IInv, TypeOK, Own, ManifestsFit
  <1> QED
    BY <1>1, <1>2, <1>3, <1>4 DEF RunFits, AtNode, Live, IInv, TypeOK

(* The node goes back to pending, or is given up with what rests on it.    *)
LEMMA FailNodeKeepsIInv ==
    ASSUME IInv, NEW r \in Runs, AtNode(r), NEW before \in Nat,
           NEW m \in Manifests, Own(r).committed \subseteq m.committed,
           ManifestFits(m, Written(run[r].job)),
           FailNode(r, before, m), FilesGrow, UNCHANGED restarts,
           writeErrors' \in 0..MaxWriteErrors
    PROVE  IInv' /\ StartsNothing
  <1> DEFINE n == run[r].node
             graph == run[r].graph
  <1>1. /\ Live(r) /\ n \in Nodes /\ graph \in Graphs /\ HasReasons(graph)
        /\ graph[n] \in {"generating", "validating"}
        /\ \A i \in Nodes \ {n} : graph[i] \notin {"generating", "validating"}
        /\ With(graph, "committed") \subseteq m.committed
        /\ retryCounts \in [Nodes -> Nat] /\ restarts \in 0..MaxRestarts
    BY AtNodeFits
  <1>2. retryCounts' \in [Nodes -> Nat] /\ restarts' \in 0..MaxRestarts
    BY <1>1 DEF FailNode
  <1>3. ASSUME NEW left \in Graphs, Iterate(r, left, m),
               HasReasons(left), NothingUnderWay(left),
               With(left, "committed") \subseteq With(graph, "committed")
        PROVE  IInv' /\ StartsNothing
    <2>1. With(left, "committed") \subseteq m.committed
      BY <1>1, <1>3
    <2> HIDE DEF graph, n
    <2> QED
      BY <1>1, <1>2, <1>3, <2>1, IterateKeepsIInv
  <1>4. CASE Iterate(r, [graph EXCEPT ![n] = "pending"], m)
    <2> DEFINE left == [graph EXCEPT ![n] = "pending"]
    <2> HIDE DEF graph, n
    <2>1. /\ left \in Graphs /\ left[n] = "pending"
          /\ \A i \in Nodes \ {n} : left[i] = graph[i]
      BY <1>1 DEF Graphs, Statuses
    <2>2. Iterate(r, left, m)
      BY <1>4
    <2> HIDE DEF left
    <2>3. NothingUnderWay(left) /\ With(left, "committed") \subseteq With(graph, "committed")
      BY <1>1, <2>1 DEF NothingUnderWay, With
    <2>4. HasReasons(left)
      <3> SUFFICES ASSUME NEW i \in Nodes, left[i] = "skipped"
                   PROVE  \E d \in DependsOn[i] : left[d] \in {"failed", "skipped"}
        BY DEF HasReasons, With
      <3>1. graph[i] = "skipped" /\ DependsOn[i] \subseteq Nodes
        BY <2>1, DependenciesAreNodes
      <3>2. PICK d \in DependsOn[i] : graph[d] \in {"failed", "skipped"}
        BY <1>1, <3>1 DEF HasReasons, With
      <3> QED
        BY <1>1, <2>1, <3>1, <3>2
    <2> QED
      BY <1>3, <2>1, <2>2, <2>3, <2>4
  <1>5. CASE Iterate(r, MarkNodeFailed(graph, n), m)
    <2> DEFINE left == MarkNodeFailed(graph, n)
               S == Skipped(graph, n)
    <2> HIDE DEF graph, n
    <2>1. /\ left \in Graphs /\ left[n] = "failed"
          /\ \A i \in S : left[i] = "skipped"
          /\ \A i \in Nodes : i # n /\ i \notin S => left[i] = graph[i]
      BY <1>1, MarkNodeFailedType
    <2>2. Iterate(r, left, m)
      BY <1>5
    <2>3. S \subseteq With(graph, "pending") \ {n}
      BY <1>1, SkippedIsTheWalk
    <2>4. \A i \in S : \E d \in DependsOn[i] : d = n \/ d \in S
      BY <1>1, SkippedHasReason
    <2> HIDE DEF left, S
    <2>5. NothingUnderWay(left) /\ With(left, "committed") \subseteq With(graph, "committed")
      BY <1>1, <2>1, <2>3 DEF NothingUnderWay, With
    <2>6. HasReasons(left)
      <3> SUFFICES ASSUME NEW i \in Nodes, left[i] = "skipped"
                   PROVE  \E d \in DependsOn[i] : left[d] \in {"failed", "skipped"}
        BY DEF HasReasons, With
      <3>1. CASE i \in S
        BY <2>1, <2>4, <3>1
      <3>2. CASE i \notin S
        <4>1. graph[i] = "skipped" /\ DependsOn[i] \subseteq Nodes
          BY <2>1, <3>2, DependenciesAreNodes
        <4>2. PICK d \in DependsOn[i] : graph[d] \in {"failed", "skipped"}
          BY <1>1, <4>1 DEF HasReasons, With
        <4> QED
          BY <2>1, <4>1, <4>2
      <3> QED
        BY <3>1, <3>2
    <2> QED
      BY <1>3, <2>1, <2>2, <2>5, <2>6
  <1> QED
    BY <1>4, <1>5 DEF FailNode

LEMMA CatchKeepsIInv ==
    ASSUME IInv, NEW r \in Runs, AtNode(r), NEW graph \in Graphs,
           HasReasons(graph), NEW before \in Nat,
           NEW m \in Manifests, Own(r).committed \subseteq m.committed,
           ManifestFits(m, Written(run[r].job)),
           Catch(r, graph, before, m), FilesGrow, UNCHANGED restarts,
           writeErrors' \in 0..MaxWriteErrors
    PROVE  IInv' /\ StartsNothing
  <1>1. Live(r) /\ retryCounts \in [Nodes -> Nat] /\ restarts \in 0..MaxRestarts
    BY AtNodeFits
  <1>2. CASE run[r].aborted
    <2>1. /\ Leave(r, graph, m)
          /\ retryCounts' = [retryCounts EXCEPT ![run[r].node] = before]
      BY <1>2 DEF Catch
    <2>2. retryCounts' \in [Nodes -> Nat] /\ restarts' \in 0..MaxRestarts
      BY <1>1, <2>1
    <2> QED
      BY <1>1, <1>2, <2>1, <2>2, LeaveKeepsIInv
  <1>3. CASE ~run[r].aborted
    BY <1>3, FailNodeKeepsIInv DEF Catch
  <1> QED
    BY <1>2, <1>3

(* The node's file is in the project, or could only be misnamed, so the    *)
(* manifest may say that the node is committed.                            *)
LEMMA CheckpointedFits ==
    ASSUME IInv, NEW r \in Runs, run[r].pc = "committing"
    PROVE  LET m == [Own(r) EXCEPT !.committed = @ \cup {run[r].node}] IN
           /\ m \in Manifests
           /\ m.committed = Own(r).committed \cup {run[r].node}
           /\ ManifestFits(m, Written(run[r].job))
  <1> DEFINE n == run[r].node
             m == [Own(r) EXCEPT !.committed = @ \cup {n}]
  <1>1. AtNode(r)
    BY DEF AtNode, AtWork
  <1>2. /\ n \in Nodes /\ Own(r) \in Manifests
        /\ ManifestFits(Own(r), Written(run[r].job))
        /\ DependsOn[n] \subseteq Own(r).committed
    BY <1>1, AtNodeFits
  <1>3. n \in Written(run[r].job) \cup Misnamed
    BY DEF IInv, RunsFit, RunFits
  <1> HIDE DEF n
  <1>4. m \in Manifests /\ m.committed = Own(r).committed \cup {n}
    BY <1>2 DEF Manifests
  <1>5. ManifestFits(m, Written(run[r].job))
    BY <1>2, <1>3, <1>4 DEF ManifestFits
  <1> QED
    BY <1>4, <1>5 DEF n

LEMMA AcquireKeepsIInv ==
    ASSUME IInv, NEW r \in Runs, AcquireFails(r) \/ AcquireSucceeds(r)
    PROVE  IInv' /\ StartsNothing
  <1>1. /\ run[r] \in RunStates /\ run[r].pc = "acquiring" /\ Live(r)
        /\ restarts' \in 0..MaxRestarts /\ writeErrors' \in 0..MaxWriteErrors
        /\ retryCounts \in [Nodes -> Nat] /\ UNCHANGED project
    BY DEF IInv, TypeOK, AcquireFails, AcquireSucceeds, Live, AtWork
  <1>2. run[r].job \in Jobs /\ run[r].graph \in Graphs
    BY <1>1 DEF RunStates
  <1>3. RunFits(run[r], Own(r), Written(run[r].job))
    BY DEF IInv, RunsFit
  <1>4. /\ Own(r) \in Manifests /\ ManifestFits(Own(r), Written(run[r].job))
        /\ Own(r) = manifest[run[r].job]
    BY <1>2 DEF IInv, TypeOK, Own, ManifestsFit
  <1>5. /\ HasReasons(run[r].graph) /\ NothingUnderWay(run[r].graph)
        /\ With(run[r].graph, "committed") \subseteq Own(r).committed
    BY <1>1, <1>3 DEF RunFits, AtWork
  <1>6. CASE AcquireSucceeds(r)
    <2>1. retryCounts' \in [Nodes -> Nat]
      BY <1>1, <1>6 DEF AcquireSucceeds
    <2> QED
      BY <1>1, <1>2, <1>4, <1>5, <1>6, <2>1, FilesStay, IterateKeepsIInv
         DEF AcquireSucceeds
  <1>7. CASE AcquireFails(r)
    <2> DEFINE x == [run[r] EXCEPT !.pc = "dead"]
               m == [Own(r) EXCEPT !.status = "failed"]
    <2>1. /\ x \in RunStates /\ x.pc = "dead" /\ x.job = run[r].job
          /\ x.graph = run[r].graph /\ x.aborted = run[r].aborted
      BY <1>1 DEF RunStates
    <2>2. m \in Manifests /\ m.committed = Own(r).committed
      BY <1>4 DEF Manifests, JobStatuses
    <2>3. /\ run' = [run EXCEPT ![r] = x]
          /\ manifest' = [manifest EXCEPT ![run[r].job] = m]
          /\ activeJobs' = [activeJobs EXCEPT ![run[r].job] = NoRun]
          /\ retryCounts' = retryCounts
      BY <1>4, <1>7 DEF AcquireFails
    <2> HIDE DEF x, m
    <2>4. RunFits(x, m, WrittenNext(x.job))
      BY <1>5, <2>1 DEF RunFits, AtWork
    <2>5. ManifestFits(m, Written(x.job))
      BY <1>1, <1>4, <2>1, <2>2 DEF ManifestFits
    <2>6. x.pc \notin AtWork /\ x.pc # "unused" /\ x.pc # "generating"
      BY <2>1 DEF AtWork
    <2>7. FilesGrow
      BY <1>1, FilesStay
    <2> QED
      BY <1>1, <2>1, <2>2, <2>3, <2>4, <2>5, <2>6, <2>7, MoveKeepsIInv
  <1> QED
    BY <1>6, <1>7

(* A file is generated: its node is under way, and nothing else changes.   *)
LEMMA GenerationSucceedsKeepsIInv ==
    ASSUME IInv, NEW r \in Runs, GenerationSucceeds(r)
    PROVE  IInv' /\ StartsNothing
  <1> DEFINE n == run[r].node
             graph == run[r].graph
             left == [graph EXCEPT ![n] = "validating"]
             x == [run[r] EXCEPT !.pc = "validating", !.graph = left]
  <1>1. AtNode(r) /\ ~run[r].aborted
    BY DEF GenerationSucceeds, AtNode, AtWork
  <1>2. /\ Live(r) /\ run[r] \in RunStates /\ n \in Nodes /\ graph \in Graphs
        /\ HasReasons(graph) /\ graph[n] \in {"generating", "validating"}
        /\ \A i \in Nodes \ {n} : graph[i] \notin {"generating", "validating"}
        /\ DependsOn[n] \subseteq With(graph, "committed")
        /\ With(graph, "committed") \subseteq Own(r).committed
        /\ Own(r) \in Manifests /\ ManifestFits(Own(r), Written(run[r].job))
        /\ retryCounts \in [Nodes -> Nat] /\ run[r].job \in Jobs
        /\ restarts \in 0..MaxRestarts /\ writeErrors \in 0..MaxWriteErrors
    BY <1>1, AtNodeFits
  <1>3. run' = [run EXCEPT ![r] = x]
    BY DEF GenerationSucceeds
  <1>4. /\ UNCHANGED <<activeJobs, project, retryCounts, restarts, writeErrors>>
        /\ manifest' = [manifest EXCEPT ![run[r].job] = Own(r)]
    BY <1>2 DEF GenerationSucceeds, Own, IInv, TypeOK
  <1> HIDE DEF n, graph
  <1>5. /\ left \in Graphs /\ left[n] = "validating"
        /\ \A i \in Nodes \ {n} : left[i] = graph[i]
    BY <1>2 DEF Graphs, Statuses
  <1> HIDE DEF left
  <1>6. /\ x \in RunStates /\ x.pc = "validating" /\ x.job = run[r].job
        /\ x.graph = left /\ x.aborted = run[r].aborted /\ x.node = run[r].node
    BY <1>2, <1>5 DEF RunStates, AtWork
  <1> HIDE DEF x
  <1>7. With(left, "committed") = With(graph, "committed")
    BY <1>2, <1>5 DEF With
  <1>8. HasReasons(left)
    <2> SUFFICES ASSUME NEW i \in Nodes, left[i] = "skipped"
                 PROVE  \E d \in DependsOn[i] : left[d] \in {"failed", "skipped"}
      BY DEF HasReasons, With
    <2>1. graph[i] = "skipped" /\ DependsOn[i] \subseteq Nodes
      BY <1>5, DependenciesAreNodes
    <2>2. PICK d \in DependsOn[i] : graph[d] \in {"failed", "skipped"}
      BY <1>2, <2>1 DEF HasReasons, With
    <2> QED
      BY <1>2, <1>5, <2>1, <2>2
  <1>9. RunFits(x, Own(r), WrittenNext(x.job))
    BY <1>2, <1>5, <1>6, <1>7, <1>8 DEF RunFits, n
  <1>10. /\ ManifestFits(Own(r), Written(x.job))
         /\ FilesGrow
         /\ x.pc # "unused" /\ x.pc # "generating"
    BY <1>2, <1>4, <1>6, FilesStay
  <1> QED
    BY <1>2, <1>3, <1>4, <1>6, <1>9, <1>10, MoveKeepsIInv

(* What a validation writes of its own is where nothing was.               *)
LEMMA ExtrasKeepFiles ==
    ASSUME TypeOK, NEW j \in Jobs, NEW extras \in SUBSET Synthesised
    PROVE  /\ WithExtras(j, extras) \in [Paths -> Contents]
           /\ \A p \in Paths :
                 \/ WithExtras(j, extras)[p] = project[j][p]
                 \/ project[j][p] = NoFile /\ WithExtras(j, extras)[p] = Added
  BY DEF TypeOK, WithExtras, Missing, Contents

LEMMA NobodysFile == Added \notin Nodes /\ NoFile \notin Nodes /\ Added # NoFile
  BY PlanAssumption DEF Added, NoFile, Nodes

LEMMA ExtrasGrow ==
    ASSUME IInv, NEW j \in Jobs, NEW extras \in SUBSET Synthesised,
           project' = [project EXCEPT ![j] = WithExtras(j, extras)]
    PROVE  FilesGrow
  <1> DEFINE more == WithExtras(j, extras)
  <1>1. /\ project \in [Jobs -> [Paths -> Contents]]
        /\ more \in [Paths -> Contents]
        /\ \A p \in Paths : more[p] = project[j][p] \/ project[j][p] = NoFile
    BY ExtrasKeepFiles DEF IInv, TypeOK
  <1> HIDE DEF more
  <1>2. /\ project'[j] = more
        /\ \A i \in Jobs \ {j} : project'[i] = project[i]
        /\ project' \in [Jobs -> [Paths -> Contents]]
    BY <1>1 DEF more
  <1>3. Written(j) \subseteq WrittenNext(j)
    BY <1>1, <1>2, NobodysFile, JobServiceAssumption
       DEF Written, WrittenNext, Paths
  <1>4. \A i \in Jobs \ {j} : Written(i) = WrittenNext(i)
    BY <1>2 DEF Written, WrittenNext
  <1> QED
    BY <1>2, <1>3, <1>4 DEF FilesGrow

(* The file that passed replaces what was at its path: its own, or another *)
(* node's if it is misnamed itself.                                        *)
LEMMA PassedFilesGrow ==
    ASSUME IInv, NEW j \in Jobs, NEW extras \in SUBSET Synthesised,
           NEW n \in Nodes, NEW p \in IF n \in Misnamed THEN Paths ELSE {n},
           project' = [project EXCEPT ![j] =
                          [WithExtras(j, extras) EXCEPT ![p] = n]]
    PROVE  FilesGrow /\ n \in WrittenNext(j) \cup Misnamed
  <1> DEFINE more == WithExtras(j, extras)
  <1>1. /\ project \in [Jobs -> [Paths -> Contents]]
        /\ more \in [Paths -> Contents]
        /\ \A q \in Paths : more[q] = project[j][q] \/ project[j][q] = NoFile
    BY ExtrasKeepFiles DEF IInv, TypeOK
  <1>2. /\ p \in Paths /\ n \in Contents
        /\ n \in Misnamed \/ p = n
    BY DEF Paths, Contents
  <1> HIDE DEF more
  <1>3. /\ project'[j] = [more EXCEPT ![p] = n]
        /\ \A i \in Jobs \ {j} : project'[i] = project[i]
        /\ project' \in [Jobs -> [Paths -> Contents]]
    BY <1>1, <1>2 DEF more
  <1>4. /\ project'[j][p] = n
        /\ \A q \in Paths \ {p} : project'[j][q] = more[q]
    BY <1>1, <1>2, <1>3
  <1>5. Written(j) \subseteq WrittenNext(j)
    BY <1>1, <1>2, <1>4, NobodysFile, JobServiceAssumption
       DEF Written, WrittenNext, Paths
  <1>6. \A i \in Jobs \ {j} : Written(i) = WrittenNext(i)
    BY <1>3 DEF Written, WrittenNext
  <1>7. n \in WrittenNext(j) \cup Misnamed
    BY <1>2, <1>4 DEF WrittenNext
  <1> QED
    BY <1>3, <1>5, <1>6, <1>7 DEF FilesGrow

(* A file is written, with what the validator added, before its checkpoint.*)
LEMMA ValidationPassesKeepsIInv ==
    ASSUME IInv, NEW r \in Runs, ValidationPasses(r)
    PROVE  IInv' /\ StartsNothing
  <1> DEFINE x == [run[r] EXCEPT !.pc = "committing"]
  <1>1. AtNode(r)
    BY DEF ValidationPasses, AtNode, AtWork
  <1>2. /\ Live(r) /\ run[r] \in RunStates /\ run[r].node \in Nodes
        /\ Own(r) \in Manifests /\ ManifestFits(Own(r), Written(run[r].job))
        /\ retryCounts \in [Nodes -> Nat] /\ run[r].job \in Jobs
        /\ restarts \in 0..MaxRestarts /\ writeErrors \in 0..MaxWriteErrors
    BY <1>1, AtNodeFits
  <1>3. PICK p \in IF run[r].node \in Misnamed THEN Paths ELSE {run[r].node},
             extras \in SUBSET Synthesised :
          project' = [project EXCEPT ![run[r].job] =
                         [WithExtras(run[r].job, extras) EXCEPT ![p] = run[r].node]]
    BY DEF ValidationPasses
  <1>4. /\ UNCHANGED <<activeJobs, retryCounts, restarts, writeErrors>>
        /\ manifest' = [manifest EXCEPT ![run[r].job] = Own(r)]
        /\ run' = [run EXCEPT ![r] = x]
    BY <1>2 DEF ValidationPasses, Own, IInv, TypeOK
  <1>5. /\ x \in RunStates /\ x.pc = "committing" /\ x.job = run[r].job
        /\ x.graph = run[r].graph /\ x.aborted = run[r].aborted
        /\ x.node = run[r].node
    BY <1>2 DEF RunStates, AtWork
  <1> HIDE DEF x
  <1>6. FilesGrow
    BY <1>2, <1>3, PassedFilesGrow
  <1>7. RunFits(x, Own(r), WrittenNext(x.job))
    <2>1. RunFits(run[r], Own(r), Written(run[r].job))
      BY DEF IInv, RunsFit
    <2>2. run[r].node \in WrittenNext(run[r].job) \cup Misnamed
      BY <1>2, <1>3, PassedFilesGrow
    <2> QED
      BY <1>1, <1>5, <2>1, <2>2 DEF RunFits, AtNode, AtWork
  <1>8. ManifestFits(Own(r), Written(x.job))
    BY <1>2, <1>5
  <1>9. x.pc # "unused" /\ x.pc # "generating"
    BY <1>5
  <1> QED
    BY <1>2, <1>4, <1>5, <1>6, <1>7, <1>8, <1>9, MoveKeepsIInv

LEMMA FailuresKeepIInv ==
    ASSUME IInv, NEW r \in Runs,
           GenerationFails(r) \/ RepairThrows(r) \/ ValidationFails(r)
              \/ ValidationThrows(r)
    PROVE  IInv' /\ StartsNothing
  <1>1. AtNode(r) /\ UNCHANGED <<restarts, writeErrors>>
    BY DEF GenerationFails, RepairThrows, ValidationFails, ValidationThrows,
           AtNode, AtWork
  <1>2. /\ run[r].graph \in Graphs /\ HasReasons(run[r].graph)
        /\ run[r].node \in Nodes /\ run[r].job \in Jobs
        /\ Own(r) \in Manifests /\ ManifestFits(Own(r), Written(run[r].job))
        /\ retryCounts[run[r].node] \in Nat
        /\ writeErrors' \in 0..MaxWriteErrors
    BY <1>1, AtNodeFits
  <1>3. FilesGrow
    <2>1. CASE ValidationThrows(r)
      BY <1>2, <2>1, ExtrasGrow DEF ValidationThrows
    <2>2. CASE ~ValidationThrows(r)
      BY <2>2, FilesStay DEF GenerationFails, RepairThrows, ValidationFails
    <2> QED
      BY <2>1, <2>2
  <1>4. CASE GenerationFails(r) \/ RepairThrows(r) \/ ValidationThrows(r)
    BY <1>1, <1>2, <1>3, <1>4, CatchKeepsIInv
       DEF GenerationFails, RepairThrows, ValidationThrows
  <1>5. CASE ValidationFails(r)
    <2> DEFINE m == [Own(r) EXCEPT !.failed = @ \cup {run[r].node}]
    <2>1. m \in Manifests /\ m.committed = Own(r).committed
      BY <1>2 DEF Manifests
    <2>2. ManifestFits(m, Written(run[r].job))
      BY <1>2, <2>1 DEF ManifestFits
    <2>3. FailNode(r, retryCounts[run[r].node], m)
      BY <1>5 DEF ValidationFails
    <2> HIDE DEF m
    <2> QED
      BY <1>1, <1>2, <1>3, <2>1, <2>2, <2>3, FailNodeKeepsIInv
  <1> QED
    BY <1>4, <1>5

(* A repair starts, or its file is validated again: the node stays under   *)
(* way.                                                                    *)
LEMMA RepairKeepsIInv ==
    ASSUME IInv, NEW r \in Runs, RepairStarts(r) \/ RepairSucceeds(r)
    PROVE  IInv' /\ StartsNothing
  <1>1. /\ AtNode(r) /\ run[r].pc # "committing"
        /\ UNCHANGED <<manifest, project, activeJobs, retryCounts,
                       restarts, writeErrors>>
    BY DEF RepairStarts, RepairSucceeds, AtNode, AtWork
  <1>2. /\ Live(r) /\ run[r] \in RunStates /\ run[r].job \in Jobs
        /\ Own(r) \in Manifests /\ ManifestFits(Own(r), Written(run[r].job))
        /\ retryCounts \in [Nodes -> Nat]
        /\ restarts \in 0..MaxRestarts /\ writeErrors \in 0..MaxWriteErrors
    BY <1>1, AtNodeFits
  <1>3. PICK x \in RunStates :
           /\ run' = [run EXCEPT ![r] = x]
           /\ x.pc \in {"validating", "repairing"} /\ x.job = run[r].job
           /\ x.graph = run[r].graph /\ x.node = run[r].node
           /\ x.aborted = run[r].aborted
           /\ x.pc = "repairing" => x.attempt < MaxRetries
    <2>1. CASE RepairStarts(r)
      <3> DEFINE x == [run[r] EXCEPT !.pc = "repairing"]
      <3>1. /\ x \in RunStates /\ x.pc = "repairing" /\ x.job = run[r].job
            /\ x.graph = run[r].graph /\ x.node = run[r].node
            /\ x.aborted = run[r].aborted /\ x.attempt = run[r].attempt
        BY <1>2 DEF RunStates, AtWork
      <3>2. run' = [run EXCEPT ![r] = x] /\ run[r].attempt < MaxRetries
        BY <2>1 DEF RepairStarts
      <3> HIDE DEF x
      <3> QED
        BY <3>1, <3>2
    <2>2. CASE RepairSucceeds(r)
      <3> DEFINE x == [run[r] EXCEPT !.pc = "validating",
                                     !.attempt = run[r].attempt + 1]
      <3>1. run[r].attempt \in 0..MaxRetries /\ run[r].attempt < MaxRetries
        BY <1>2, <2>2 DEF RunStates, RepairSucceeds, IInv, RunsFit, RunFits
      <3>2. run[r].attempt + 1 \in 0..MaxRetries
        BY <3>1, JobServiceAssumption
      <3>3. /\ x \in RunStates /\ x.pc = "validating" /\ x.job = run[r].job
            /\ x.graph = run[r].graph /\ x.node = run[r].node
            /\ x.aborted = run[r].aborted
        BY <1>2, <3>2 DEF RunStates, AtWork
      <3>4. run' = [run EXCEPT ![r] = x]
        BY <2>2 DEF RepairSucceeds
      <3> HIDE DEF x
      <3> QED
        BY <3>3, <3>4
    <2> QED
      BY <2>1, <2>2
  <1>4. RunFits(x, Own(r), WrittenNext(x.job))
    <2>1. RunFits(run[r], Own(r), Written(run[r].job))
      BY DEF IInv, RunsFit
    <2> QED
      BY <1>1, <1>3, <2>1 DEF RunFits, AtNode, AtWork
  <1>5. manifest' = [manifest EXCEPT ![x.job] = Own(r)]
    BY <1>1, <1>2, <1>3 DEF Own, IInv, TypeOK
  <1>6. FilesGrow
    BY <1>1, FilesStay
  <1> QED
    BY <1>1, <1>2, <1>3, <1>4, <1>5, <1>6, MoveKeepsIInv

LEMMA CheckpointKeepsIInv ==
    ASSUME IInv, NEW r \in Runs, Checkpoint(r) \/ CheckpointFails(r)
    PROVE  IInv' /\ StartsNothing
  <1> DEFINE n == run[r].node
             graph == run[r].graph
             done == [graph EXCEPT ![n] = "committed"]
             m == [Own(r) EXCEPT !.committed = @ \cup {n}]
  <1>1. AtNode(r) /\ run[r].pc = "committing" /\ UNCHANGED <<project, restarts>>
    BY DEF Checkpoint, CheckpointFails, AtNode, AtWork
  <1>2. /\ Live(r) /\ n \in Nodes /\ graph \in Graphs
        /\ HasReasons(graph) /\ graph[n] \in {"generating", "validating"}
        /\ \A i \in Nodes \ {n} : graph[i] \notin {"generating", "validating"}
        /\ With(graph, "committed") \subseteq Own(r).committed
        /\ Own(r) \in Manifests /\ ManifestFits(Own(r), Written(run[r].job))
        /\ retryCounts \in [Nodes -> Nat]
        /\ restarts \in 0..MaxRestarts /\ writeErrors \in 0..MaxWriteErrors
    BY <1>1, AtNodeFits
  <1>3. /\ m \in Manifests /\ m.committed = Own(r).committed \cup {n}
        /\ ManifestFits(m, Written(run[r].job))
    BY <1>1, CheckpointedFits
  <1>4. FilesGrow
    BY <1>1, FilesStay
  <1>a. CASE Checkpoint(r)
    <2>1. /\ Iterate(r, done, m)
          /\ retryCounts' = [retryCounts EXCEPT ![n] = 0]
          /\ UNCHANGED writeErrors
      BY <1>a DEF Checkpoint
    <2> HIDE DEF n, graph, m
    <2>2. /\ done \in Graphs /\ done[n] = "committed"
          /\ \A i \in Nodes \ {n} : done[i] = graph[i]
      BY <1>2 DEF Graphs, Statuses
    <2> HIDE DEF done
    <2>3. /\ NothingUnderWay(done)
          /\ With(done, "committed") \subseteq m.committed
      BY <1>2, <1>3, <2>2 DEF NothingUnderWay, With
    <2>4. HasReasons(done)
      <3> SUFFICES ASSUME NEW i \in Nodes, done[i] = "skipped"
                   PROVE  \E d \in DependsOn[i] : done[d] \in {"failed", "skipped"}
        BY DEF HasReasons, With
      <3>1. graph[i] = "skipped" /\ DependsOn[i] \subseteq Nodes
        BY <2>2, DependenciesAreNodes
      <3>2. PICK d \in DependsOn[i] : graph[d] \in {"failed", "skipped"}
        BY <1>2, <3>1 DEF HasReasons, With
      <3> QED
        BY <1>2, <2>2, <3>1, <3>2
    <2>5. /\ retryCounts' \in [Nodes -> Nat] /\ restarts' \in 0..MaxRestarts
          /\ writeErrors' \in 0..MaxWriteErrors
      BY <1>1, <1>2, <2>1
    <2>6. Own(r).committed \subseteq m.committed
      BY <1>3
    <2> QED
      BY <1>1, <1>2, <1>3, <1>4, <2>1, <2>2, <2>3, <2>4, <2>5, <2>6,
         IterateKeepsIInv
  <1>b. CASE CheckpointFails(r)
    <2>1. PICK written \in {{}, {n}} :
             Catch(r, done, 0, [Own(r) EXCEPT !.committed = @ \cup written])
      BY <1>b DEF CheckpointFails
    <2>2. writeErrors' \in 0..MaxWriteErrors
      BY <1>2, <1>b, JobServiceAssumption DEF CheckpointFails
    <2> DEFINE w == [Own(r) EXCEPT !.committed = @ \cup written]
    <2>3. /\ w \in Manifests /\ Own(r).committed \subseteq w.committed
          /\ ManifestFits(w, Written(run[r].job))
      <3>1. w \in Manifests /\ w.committed = Own(r).committed \cup written
        BY <1>2 DEF Manifests
      <3>2. w.committed = Own(r).committed \/ w.committed = m.committed
        BY <1>3, <3>1
      <3> HIDE DEF w, m
      <3>3. ManifestFits(w, Written(run[r].job))
        BY <1>2, <1>3, <3>2 DEF ManifestFits
      <3> QED
        BY <3>1, <3>3
    <2>4. Catch(r, done, 0, w)
      BY <2>1
    <2> HIDE DEF n, graph, m, w
    <2>5. /\ done \in Graphs /\ done[n] = "committed"
          /\ \A i \in Nodes \ {n} : done[i] = graph[i]
      BY <1>2 DEF Graphs, Statuses
    <2> HIDE DEF done
    <2>6. HasReasons(done)
      <3> SUFFICES ASSUME NEW i \in Nodes, done[i] = "skipped"
                   PROVE  \E d \in DependsOn[i] : done[d] \in {"failed", "skipped"}
        BY DEF HasReasons, With
      <3>1. graph[i] = "skipped" /\ DependsOn[i] \subseteq Nodes
        BY <2>5, DependenciesAreNodes
      <3>2. PICK d \in DependsOn[i] : graph[d] \in {"failed", "skipped"}
        BY <1>2, <3>1 DEF HasReasons, With
      <3> QED
        BY <1>2, <2>5, <3>1, <3>2
    <2> QED
      BY <1>1, <1>4, <2>2, <2>3, <2>4, <2>5, <2>6, CatchKeepsIInv
  <1> QED
    BY <1>a, <1>b

-----------------------------------------------------------------------------
(* The routes and the restart *)

(* A run starts on what resume() may trust: the nodes that are checkpointed*)
(* as committed, and none skipped or under way.                            *)
LEMMA StartKeepsIInv ==
    ASSUME IInv, NEW r \in Runs, NEW j \in Jobs, NEW graph \in Graphs,
           \A n \in Nodes : graph[n] \in {"pending", "committed", "failed"},
           With(graph, "committed") \subseteq manifest[j].committed,
           Start(r, j, graph),
           UNCHANGED <<project, retryCounts, restarts, writeErrors>>
    PROVE  IInv' /\ StartsNothing
  <1> DEFINE x == [pc |-> "acquiring", job |-> j, node |-> 1,
                   graph |-> graph, aborted |-> FALSE, attempt |-> 0]
             m == [manifest[j] EXCEPT !.status = "running"]
  <1>1. 1 \in Nodes
    BY PlanAssumption DEF Nodes
  <1>2. x \in RunStates
    BY <1>1, FirstAttempt DEF RunStates, AtWork
  <1>3. /\ run[r].pc = "unused" /\ run' = [run EXCEPT ![r] = x]
        /\ manifest' = [manifest EXCEPT ![j] = m]
        /\ activeJobs' = [activeJobs EXCEPT ![j] = r]
    BY DEF Start
  <1>4. m \in Manifests /\ m.committed = manifest[j].committed
    BY DEF IInv, TypeOK, Manifests, JobStatuses
  <1>5. /\ x.pc = "acquiring" /\ x.job = j /\ x.graph = graph /\ ~x.aborted
    OBVIOUS
  <1> HIDE DEF x, m
  <1>6. /\ run'[r] = x /\ \A q \in Runs \ {r} : run'[q] = run[q]
        /\ manifest'[j] = m /\ \A i \in Jobs \ {j} : manifest'[i] = manifest[i]
        /\ \A i \in Jobs : manifest'[i].committed = manifest[i].committed
        /\ activeJobs'[j] = r
        /\ \A i \in Jobs \ {j} : activeJobs'[i] = activeJobs[i]
        /\ manifest' \in [Jobs -> Manifests] /\ manifest \in [Jobs -> Manifests]
        /\ run \in [Runs -> RunStates]
    BY <1>3, <1>4 DEF IInv, TypeOK
  <1>7. TypeOK'
    BY <1>2, <1>3, <1>4 DEF IInv, TypeOK
  <1>8. ManifestsFit'
    BY <1>6 DEF IInv, ManifestsFit, ManifestFits, Written
  <1>9. RunsFit'
    <2> SUFFICES ASSUME NEW q \in Runs
                 PROVE  RunFits(run'[q], manifest'[run'[q].job],
                                WrittenNext(run'[q].job))
      BY DEF RunsFit, Own, Written, WrittenNext
    <2>1. CASE q = r
      <3>1. HasReasons(graph) /\ NothingUnderWay(graph)
        BY DEF HasReasons, NothingUnderWay, With
      <3> QED
        BY <1>4, <1>5, <1>6, <2>1, <3>1 DEF RunFits, AtWork
    <2>2. CASE q # r
      <3>1. RunFits(run[q], manifest[run[q].job], Written(run[q].job))
        BY DEF IInv, RunsFit, Own
      <3>2. run[q] \in RunStates /\ run[q].job \in Jobs
        BY <1>6 DEF RunStates
      <3>3. /\ manifest[run[q].job] \in Manifests
            /\ manifest'[run[q].job] \in Manifests
            /\ manifest[run[q].job].committed \subseteq manifest'[run[q].job].committed
        BY <1>6, <3>2
      <3>4. Written(run[q].job) \subseteq WrittenNext(run[q].job)
        BY <1>6, <3>2, FilesStay DEF FilesGrow
      <3> QED
        BY <1>6, <2>2, <3>1, <3>2, <3>3, <3>4, StillFits
    <2> QED
      BY <2>1, <2>2
  <1>10. ActiveInv'
    <2> SUFFICES ASSUME NEW i \in Jobs, NEW q \in Runs, activeJobs'[i] = q
                 PROVE  run'[q].job = i /\ run'[q].pc # "unused"
      BY DEF ActiveInv
    <2>1. CASE i = j
      BY <1>5, <1>6, <2>1
    <2>2. CASE i # j
      BY <1>3, <1>6, <2>2 DEF IInv, ActiveInv
    <2> QED
      BY <2>1, <2>2
  <1>11. SoleRunIsCancellable'
    <2> SUFFICES ASSUME NEW q \in Runs, run'[q].pc \in AtWork, ~run'[q].aborted,
                        \A p \in Runs \ {q} : run'[p].pc = "unused"
                                                \/ run'[p].job # run'[q].job
                 PROVE  activeJobs'[run'[q].job] = q
      BY DEF SoleRunIsCancellable, Live
    <2>1. CASE q = r
      BY <1>5, <1>6, <2>1
    <2>2. CASE q # r
      <3>1. run[q].job # j /\ run[q].job \in Jobs
        BY <1>5, <1>6, <2>2 DEF RunStates
      <3>2. \A p \in Runs \ {q} : run[p].pc = "unused" \/ run[p].job # run[q].job
        BY <1>3, <1>6, <2>2
      <3>3. activeJobs[run[q].job] = q
        BY <1>6, <2>2, <3>2 DEF IInv, SoleRunIsCancellable, Live
      <3> QED
        BY <1>6, <2>2, <3>1, <3>3
    <2> QED
      BY <2>1, <2>2
  <1>12. StartsNothing
    BY <1>5, <1>6 DEF StartsNothing
  <1> QED
    BY <1>7, <1>8, <1>9, <1>10, <1>11, <1>12 DEF IInv

LEMMA CreateKeepsIInv ==
    ASSUME IInv, NEW j \in Jobs, NEW r \in Runs, Create(j, r)
    PROVE  IInv' /\ StartsNothing
  <1>1. /\ FreshGraph \in Graphs
        /\ \A n \in Nodes : FreshGraph[n] = "pending"
    BY DEF FreshGraph, Graphs, Statuses
  <1>2. With(FreshGraph, "committed") = {}
    BY <1>1 DEF With
  <1>3. /\ Start(r, j, FreshGraph)
        /\ UNCHANGED <<project, retryCounts, restarts, writeErrors>>
    BY DEF Create
  <1> QED
    BY <1>1, <1>2, <1>3, StartKeepsIInv

(* What resume() restores: only what is checkpointed counts as committed.  *)
LEMMA RestoredFits ==
    ASSUME NEW j \in Jobs
    PROVE  /\ Restored(j) \in Graphs
           /\ \A n \in Nodes : Restored(j)[n] \in {"pending", "committed", "failed"}
           /\ With(Restored(j), "committed") \subseteq manifest[j].committed
  <1>1. Restored(j) \in Graphs
    BY DEF Restored, Graphs, Statuses
  <1>2. \A n \in Nodes : Restored(j)[n] \in {"pending", "committed", "failed"}
    BY DEF Restored
  <1>3. \A n \in Nodes : Restored(j)[n] = "committed" => n \in manifest[j].committed
    BY DEF Restored
  <1> QED
    BY <1>1, <1>2, <1>3 DEF With

LEMMA ResumeKeepsIInv ==
    ASSUME IInv, NEW j \in Jobs, NEW r \in Runs, Resume(j, r)
    PROVE  IInv' /\ StartsNothing
  <1>1. /\ Start(r, j, Restored(j))
        /\ UNCHANGED <<project, retryCounts, restarts, writeErrors>>
    BY DEF Resume
  <1> QED
    BY <1>1, RestoredFits, StartKeepsIInv

LEMMA CancelKeepsIInv ==
    ASSUME IInv, NEW j \in Jobs, Cancel(j)
    PROVE  IInv' /\ StartsNothing
  <1>1. /\ run \in [Runs -> RunStates] /\ manifest \in [Jobs -> Manifests]
        /\ \A q \in Runs : run[q] \in RunStates /\ run[q].job \in Jobs
    BY DEF IInv, TypeOK, RunStates
  <1>2. \A q \in Runs :
           /\ run'[q] \in RunStates /\ run'[q].pc = run[q].pc
           /\ run'[q].job = run[q].job /\ run'[q].node = run[q].node
           /\ run'[q].graph = run[q].graph
           /\ run'[q].attempt = run[q].attempt
           /\ q # activeJobs[j] => run'[q] = run[q]
           /\ q = activeJobs[j] => run'[q].aborted
    <2> SUFFICES ASSUME NEW q \in Runs
                 PROVE  /\ run'[q] \in RunStates /\ run'[q].pc = run[q].pc
                        /\ run'[q].job = run[q].job /\ run'[q].node = run[q].node
                        /\ run'[q].graph = run[q].graph
                        /\ run'[q].attempt = run[q].attempt
                        /\ q # activeJobs[j] => run'[q] = run[q]
                        /\ q = activeJobs[j] => run'[q].aborted
      OBVIOUS
    <2>1. CASE q = activeJobs[j]
      <3>1. run'[q] = [run[q] EXCEPT !.aborted = TRUE]
        BY <2>1 DEF Cancel
      <3> QED
        BY <1>1, <2>1, <3>1 DEF RunStates
    <2>2. CASE q # activeJobs[j]
      BY <1>1, <2>2 DEF Cancel
    <2> QED
      BY <2>1, <2>2
  <1>3. /\ manifest' \in [Jobs -> Manifests]
        /\ \A i \in Jobs : manifest'[i].committed = manifest[i].committed
    <2> DEFINE m == [manifest[j] EXCEPT !.status = "cancelled"]
    <2>1. m \in Manifests /\ m.committed = manifest[j].committed
      BY <1>1 DEF Manifests, JobStatuses
    <2>2. manifest' = [manifest EXCEPT ![j] = m]
      BY DEF Cancel
    <2> HIDE DEF m
    <2> QED
      BY <1>1, <2>1, <2>2
  <1>4. /\ activeJobs' \in [Jobs -> Runs \cup {NoRun}] /\ activeJobs'[j] = NoRun
        /\ \A i \in Jobs \ {j} : activeJobs'[i] = activeJobs[i]
        /\ UNCHANGED <<project, retryCounts, restarts, writeErrors>>
    BY DEF Cancel, IInv, TypeOK
  <1>5. TypeOK'
    <2>1. run' = [q \in Runs |-> run'[q]]
      BY DEF Cancel
    <2>2. run' \in [Runs -> RunStates]
      BY <1>2, <2>1
    <2> QED
      BY <1>3, <1>4, <2>2 DEF IInv, TypeOK
  <1>6. ManifestsFit'
    BY <1>3, <1>4 DEF IInv, ManifestsFit, ManifestFits, Written
  <1>7. RunsFit'
    <2> SUFFICES ASSUME NEW q \in Runs
                 PROVE  RunFits(run'[q], manifest'[run'[q].job],
                                WrittenNext(run'[q].job))
      BY DEF RunsFit, Own, Written, WrittenNext
    <2>1. RunFits(run[q], manifest[run[q].job], Written(run[q].job))
      BY DEF IInv, RunsFit, Own
    <2>2. run'[q].aborted => run[q].aborted \/ run[q].pc # "unused"
      BY <1>2 DEF IInv, ActiveInv
    <2>3. run[q].aborted => run'[q].aborted
      BY <1>2
    <2>4. /\ run'[q].pc = run[q].pc /\ run'[q].job = run[q].job
          /\ run'[q].node = run[q].node /\ run'[q].graph = run[q].graph
          /\ run'[q].attempt = run[q].attempt
          /\ manifest'[run'[q].job].committed = manifest[run[q].job].committed
          /\ project' = project
      BY <1>1, <1>2, <1>3, <1>4
    <2> QED
      BY <2>1, <2>2, <2>3, <2>4 DEF RunFits, Written, WrittenNext
  <1>8. ActiveInv'
    BY <1>2, <1>4, JobServiceAssumption DEF IInv, ActiveInv
  <1>9. SoleRunIsCancellable'
    <2> SUFFICES ASSUME NEW q \in Runs, run'[q].pc \in AtWork, ~run'[q].aborted,
                        \A p \in Runs \ {q} : run'[p].pc = "unused"
                                                \/ run'[p].job # run'[q].job
                 PROVE  activeJobs'[run'[q].job] = q
      BY DEF SoleRunIsCancellable, Live
    <2>1. run'[q] = run[q] /\ q # activeJobs[j]
      BY <1>2
    <2>2. \A p \in Runs \ {q} : run[p].pc = "unused" \/ run[p].job # run[q].job
      BY <1>2
    <2>3. activeJobs[run[q].job] = q
      BY <2>1, <2>2 DEF IInv, SoleRunIsCancellable, Live
    <2> QED
      BY <1>1, <1>4, <2>1, <2>3
  <1>10. StartsNothing
    BY <1>2 DEF StartsNothing
  <1> QED
    BY <1>5, <1>6, <1>7, <1>8, <1>9, <1>10 DEF IInv

(* The scan finds no manifest in the directory it is opened on, so nothing *)
(* is resumed: every run that was at work is dead.                         *)
LEMMA RestartKeepsIInv ==
    ASSUME IInv, Restart
    PROVE  IInv' /\ StartsNothing
  <1>1. Interrupted = {}
    BY DEF Interrupted, ListAll
  <1>2. /\ run' = [r \in Runs |-> IF Live(r) THEN [run[r] EXCEPT !.pc = "dead"]
                                             ELSE run[r]]
        /\ activeJobs' = [j \in Jobs |-> NoRun]
    BY <1>1 DEF Restart
  <1>3. /\ retryCounts' = [n \in Nodes |-> 0] /\ restarts' \in 0..MaxRestarts
        /\ UNCHANGED <<manifest, project, writeErrors>>
    BY JobServiceAssumption DEF Restart, IInv, TypeOK
  <1>4. /\ run \in [Runs -> RunStates]
        /\ \A q \in Runs : run[q] \in RunStates
    BY DEF IInv, TypeOK
  <1>5. \A q \in Runs :
           /\ run'[q] \in RunStates /\ run'[q].job = run[q].job
           /\ run'[q].graph = run[q].graph
           /\ run'[q].aborted = run[q].aborted
           /\ run'[q].pc = IF Live(q) THEN "dead" ELSE run[q].pc
           /\ ~Live(q) => run'[q] = run[q]
    <2> SUFFICES ASSUME NEW q \in Runs
                 PROVE  /\ run'[q] \in RunStates /\ run'[q].job = run[q].job
                        /\ run'[q].graph = run[q].graph
                        /\ run'[q].aborted = run[q].aborted
                        /\ run'[q].pc = IF Live(q) THEN "dead" ELSE run[q].pc
                        /\ ~Live(q) => run'[q] = run[q]
      OBVIOUS
    <2>1. CASE Live(q)
      <3>1. run'[q] = [run[q] EXCEPT !.pc = "dead"]
        BY <1>2, <2>1
      <3> QED
        BY <1>4, <2>1, <3>1 DEF RunStates
    <2>2. CASE ~Live(q)
      BY <1>2, <1>4, <2>2
    <2> QED
      BY <2>1, <2>2
  <1>6. \A q \in Runs : run'[q].pc \notin AtWork /\ run'[q].pc # "generating"
    BY <1>5 DEF Live, AtWork
  <1>7. TypeOK'
    <2>1. run' \in [Runs -> RunStates]
      BY <1>2, <1>5
    <2>2. activeJobs' \in [Jobs -> Runs \cup {NoRun}]
      BY <1>2
    <2>3. retryCounts' \in [Nodes -> Nat]
      BY <1>3
    <2> QED
      BY <1>3, <2>1, <2>2, <2>3 DEF IInv, TypeOK
  <1>8. ManifestsFit'
    BY <1>3 DEF IInv, ManifestsFit, Written
  <1>9. RunsFit'
    <2> SUFFICES ASSUME NEW q \in Runs
                 PROVE  RunFits(run'[q], manifest'[run'[q].job],
                                WrittenNext(run'[q].job))
      BY DEF RunsFit, Own, Written, WrittenNext
    <2>1. RunFits(run[q], manifest[run[q].job], Written(run[q].job))
      BY DEF IInv, RunsFit, Own
    <2>2. CASE Live(q)
      <3>1. run'[q].pc = "dead" /\ HasReasons(run'[q].graph)
        BY <1>5, <2>1, <2>2 DEF RunFits
      <3> QED
        BY <3>1 DEF RunFits, AtWork
    <2>3. CASE ~Live(q)
      BY <1>3, <1>5, <2>1, <2>3 DEF Written, WrittenNext
    <2> QED
      BY <2>2, <2>3
  <1>10. ActiveInv'
    BY <1>2, JobServiceAssumption DEF ActiveInv
  <1>11. SoleRunIsCancellable'
    BY <1>6 DEF SoleRunIsCancellable, Live
  <1>12. StartsNothing
    BY <1>6 DEF StartsNothing
  <1> QED
    BY <1>7, <1>8, <1>9, <1>10, <1>11, <1>12 DEF IInv

-----------------------------------------------------------------------------
(* The invariant *)

LEMMA InitIInv == Init => IInv
  <1> SUFFICES ASSUME Init
               PROVE  IInv
    OBVIOUS
  <1> DEFINE x == [pc |-> "unused", job |-> CHOOSE j \in Jobs : TRUE,
                   node |-> 1, graph |-> FreshGraph, aborted |-> FALSE,
                   attempt |-> 0]
             m == [status |-> "absent", committed |-> {}, failed |-> {}]
  <1>1. /\ 1 \in Nodes /\ (CHOOSE j \in Jobs : TRUE) \in Jobs
    BY PlanAssumption, JobServiceAssumption DEF Nodes
  <1>2. FreshGraph \in Graphs /\ \A n \in Nodes : FreshGraph[n] = "pending"
    BY DEF FreshGraph, Graphs, Statuses
  <1>3. /\ x \in RunStates /\ x.pc = "unused" /\ ~x.aborted
        /\ x.graph = FreshGraph
    BY <1>1, <1>2, FirstAttempt DEF RunStates
  <1>4. m \in Manifests /\ m.committed = {}
    BY DEF Manifests, JobStatuses
  <1>5. /\ run = [r \in Runs |-> x] /\ manifest = [j \in Jobs |-> m]
        /\ project = [j \in Jobs |-> [p \in Paths |-> NoFile]]
        /\ activeJobs = [j \in Jobs |-> NoRun]
        /\ retryCounts = [n \in Nodes |-> 0] /\ restarts = 0 /\ writeErrors = 0
    BY DEF Init
  <1> HIDE DEF x, m
  <1>6. /\ \A r \in Runs : run[r] = x
        /\ \A j \in Jobs : manifest[j] = m /\ activeJobs[j] = NoRun
    BY <1>5
  <1>7. TypeOK
    <2>1. restarts \in 0..MaxRestarts /\ writeErrors \in 0..MaxWriteErrors
      BY <1>5, JobServiceAssumption
    <2>2. /\ run \in [Runs -> RunStates] /\ manifest \in [Jobs -> Manifests]
          /\ project \in [Jobs -> [Paths -> Contents]]
          /\ activeJobs \in [Jobs -> Runs \cup {NoRun}]
          /\ retryCounts \in [Nodes -> Nat]
      BY <1>3, <1>4, <1>5 DEF Contents
    <2> QED
      BY <2>1, <2>2 DEF TypeOK
  <1>8. RunsFit
    <2>1. HasReasons(FreshGraph)
      BY <1>2 DEF HasReasons, With
    <2> QED
      BY <1>3, <1>6, <2>1 DEF RunsFit, RunFits, AtWork
  <1>9. ManifestsFit
    BY <1>4, <1>6 DEF ManifestsFit, ManifestFits
  <1>10. ActiveInv
    BY <1>6, JobServiceAssumption DEF ActiveInv
  <1>11. SoleRunIsCancellable
    BY <1>3, <1>6 DEF SoleRunIsCancellable, Live, AtWork
  <1> QED
    BY <1>7, <1>8, <1>9, <1>10, <1>11 DEF IInv

LEMMA RunStepKeepsIInv ==
    ASSUME IInv, NEW r \in Runs, RunStep(r)
    PROVE  IInv' /\ StartsNothing
  BY AcquireKeepsIInv, GenerationSucceedsKeepsIInv, RepairKeepsIInv,
     ValidationPassesKeepsIInv, FailuresKeepIInv, CheckpointKeepsIInv DEF RunStep

LEMMA IInvInductive ==
    ASSUME IInv, [Next]_vars
    PROVE  IInv' /\ [StartsNothing]_vars
  <1>1. CASE \E r \in Runs : RunStep(r)
    BY <1>1, RunStepKeepsIInv
  <1>2. CASE \E j \in Jobs : Request(j)
    BY <1>2, CreateKeepsIInv, ResumeKeepsIInv, CancelKeepsIInv DEF Request
  <1>3. CASE Restart
    BY <1>3, RestartKeepsIInv
  <1>4. CASE UNCHANGED vars
    <2>1. TypeOK'
      BY <1>4 DEF vars, IInv, TypeOK
    <2>2. \A j \in Jobs : WrittenNext(j) = Written(j)
      BY <1>4 DEF vars, Written, WrittenNext
    <2>3. RunsFit'
      <3> SUFFICES ASSUME NEW q \in Runs
                   PROVE  RunFits(run[q], manifest[run[q].job],
                                  WrittenNext(run[q].job))
        BY <1>4 DEF vars, RunsFit, Own, Written, WrittenNext
      <3>1. RunFits(run[q], manifest[run[q].job], Written(run[q].job))
        BY DEF IInv, RunsFit, Own
      <3>2. run[q].job \in Jobs
        BY DEF IInv, TypeOK, RunStates
      <3> QED
        BY <2>2, <3>1, <3>2
    <2>4. ManifestsFit'
      <3> SUFFICES ASSUME NEW j \in Jobs
                   PROVE  ManifestFits(manifest[j], WrittenNext(j))
        BY <1>4 DEF vars, ManifestsFit, Written, WrittenNext
      <3> QED
        BY <2>2 DEF IInv, ManifestsFit
    <2>5. ActiveInv' /\ SoleRunIsCancellable'
      BY <1>4 DEF vars, IInv, ActiveInv, SoleRunIsCancellable, Live
    <2> QED
      BY <1>4, <2>1, <2>3, <2>4, <2>5 DEF vars, IInv
  <1> QED
    BY <1>1, <1>2, <1>3, <1>4 DEF Next, AllQuiet

LEMMA IInvAlways == Spec => []IInv
  <1>1. IInv /\ [Next]_vars => IInv'
    BY IInvInductive
  <1> QED
    BY <1>1, InitIInv, PTL DEF Spec

-----------------------------------------------------------------------------
(* Theorems *)

(* The manifests, the runs and the counters keep the shapes jobService.ts  *)
(* gives them.                                                             *)
THEOREM TypeCorrect == Spec => []TypeOK
  <1>1. IInv => TypeOK
    BY DEF IInv
  <1> QED
    BY <1>1, IInvAlways, PTL

(* resume() may trust progress.committed: it is closed under dependencies, *)
(* for every plan and however many runs share the manifest.                *)
THEOREM CheckpointIsClosedAlways == Spec => []CheckpointIsClosed
  <1>1. IInv => CheckpointIsClosed
    BY DEF IInv, ManifestsFit, ManifestFits, CheckpointIsClosed
  <1> QED
    BY <1>1, IInvAlways, PTL

(* A checkpointed file is in the project, but for misnamed blocks: the     *)
(* commit precedes the checkpoint (manifestStore.ts).                      *)
THEOREM CheckpointedIsWrittenAlways == Spec => []CheckpointedIsWritten
  <1>1. IInv => CheckpointedIsWritten
    BY DEF IInv, ManifestsFit, ManifestFits, CheckpointedIsWritten
  <1> QED
    BY <1>1, IInvAlways, PTL

(* The loop works on a node only when what it depends on is checkpointed   *)
(* and written (scheduler.ts, nextPendingNode).                            *)
THEOREM WorkRestsOnCommittedAlways == Spec => []WorkRestsOnCommitted
  <1>1. IInv => WorkRestsOnCommitted
    <2> SUFFICES ASSUME IInv, NEW r \in Runs,
                        run[r].pc \in AtWork \ {"acquiring"}
                 PROVE  DependsOn[run[r].node] \subseteq
                           Own(r).committed \cap (Written(run[r].job) \cup Misnamed)
      BY DEF WorkRestsOnCommitted
    <2>1. /\ With(run[r].graph, "committed") \subseteq Own(r).committed
          /\ DependsOn[run[r].node] \subseteq With(run[r].graph, "committed")
      BY DEF IInv, RunsFit, RunFits
    <2>2. run[r].job \in Jobs
      BY DEF IInv, TypeOK, RunStates
    <2>3. Own(r).committed \ Misnamed \subseteq Written(run[r].job)
      BY <2>2 DEF IInv, ManifestsFit, ManifestFits, Own
    <2> QED
      BY <2>1, <2>3
  <1> QED
    BY <1>1, IInvAlways, PTL

(* Only markNodeFailed() and the deadlock branch of the loop skip nodes,   *)
(* and each only above a failure.                                          *)
THEOREM SkippedForAReasonAlways == Spec => []SkippedForAReason
  <1>1. IInv => SkippedForAReason
    BY DEF IInv, RunsFit, RunFits, HasReasons, SkippedForAReason
  <1> QED
    BY <1>1, IInvAlways, PTL

(* The loop is left with nothing pending or under way, unless cancelled.   *)
THEOREM EndedRunsAreCompleteAlways == Spec => []EndedRunsAreComplete
  <1>1. IInv => EndedRunsAreComplete
    BY DEF IInv, RunsFit, RunFits, EndedRunsAreComplete
  <1> QED
    BY <1>1, IInvAlways, PTL

(* The map of controllers loses no run that is alone on its job.           *)
THEOREM SoleRunIsCancellableAlways == Spec => []SoleRunIsCancellable
  <1>1. IInv => SoleRunIsCancellable
    BY DEF IInv
  <1> QED
    BY <1>1, IInvAlways, PTL

(* Once its signal is aborted a run starts no further node.                *)
THEOREM AbortedRunStartsNothingAlways == Spec => AbortedRunStartsNothing
  <1>1. IInv /\ [Next]_vars => [StartsNothing]_vars
    BY IInvInductive
  <1> QED
    BY <1>1, IInvAlways, PTL DEF Spec, AbortedRunStartsNothing, StartsNothing

-----------------------------------------------------------------------------
(* The promise to whoever resumes *)

ValidatedNext(j) ==
    [p \in Paths |-> IF project'[j][p] = Added THEN NoFile ELSE project'[j][p]]

StaysOnDisk(j) ==
    /\ manifest'[j].committed = manifest[j].committed
    /\ ValidatedNext(j) = Validated(j)

NothingHappens == \A j \in Jobs : StaysOnDisk(j)

(* A step of DurableProgress, in terms of the files and the manifests.     *)
AFileIsWritten(j) ==
    /\ \A i \in Jobs \ {j} : StaysOnDisk(i)
    /\ manifest'[j].committed = manifest[j].committed
    /\ \E n \in Nodes, p \in Paths :
          /\ p = n \/ n \in Misnamed
          /\ ValidatedNext(j) = [Validated(j) EXCEPT ![p] = n]

ANodeIsCheckpointed(j, n) ==
    /\ \A i \in Jobs \ {j} : StaysOnDisk(i)
    /\ ValidatedNext(j) = Validated(j)
    /\ DependsOn[n] \subseteq manifest[j].committed
    /\ n \in Misnamed \/ Validated(j)[n] \in {n} \cup Misnamed
    /\ manifest'[j].committed = manifest[j].committed \cup {n}

ProgressStep ==
    \/ NothingHappens
    \/ \E j \in Jobs : \/ AFileIsWritten(j)
                       \/ \E n \in Nodes : ANodeIsCheckpointed(j, n)

(* The checkpoints of run r's job become those of m, no other job's change.*)
ChecksIn(r, m) ==
    /\ manifest'[run[r].job].committed = m.committed
    /\ \A j \in Jobs \ {run[r].job} :
          manifest'[j].committed = manifest[j].committed

LEMMA IterateChecksIn ==
    ASSUME TypeOK, NEW r \in Runs, NEW graph, NEW m \in Manifests,
           Iterate(r, graph, m) \/ Leave(r, graph, m)
    PROVE  ChecksIn(r, m)
  <1>1. manifest \in [Jobs -> Manifests] /\ run[r].job \in Jobs
    BY DEF TypeOK, RunStates
  <1>2. CASE \E g : Leave(r, g, m)
    <2> PICK g : Leave(r, g, m)
      BY <1>2
    <2> DEFINE over == [m EXCEPT !.status = FinalStatus(g)]
    <2>1. manifest' = [manifest EXCEPT ![run[r].job] = over]
      BY DEF Leave
    <2>2. over.committed = m.committed
      BY DEF Manifests
    <2> HIDE DEF over
    <2> QED
      BY <1>1, <2>1, <2>2 DEF ChecksIn
  <1>3. CASE ~\E g : Leave(r, g, m)
    <2>1. manifest' = [manifest EXCEPT ![run[r].job] = m]
      BY <1>3 DEF Iterate
    <2> QED
      BY <1>1, <2>1 DEF ChecksIn
  <1> QED
    BY <1>2, <1>3

LEMMA CatchChecksIn ==
    ASSUME TypeOK, NEW r \in Runs, NEW graph, NEW before, NEW m \in Manifests,
           Catch(r, graph, before, m) \/ FailNode(r, before, m)
    PROVE  ChecksIn(r, m)
  BY IterateChecksIn DEF Catch, FailNode

LEMMA FilesUnchanged ==
    ASSUME UNCHANGED project
    PROVE  \A j \in Jobs : ValidatedNext(j) = Validated(j)
  BY DEF Validated, ValidatedNext

(* What a validation adds hides no validated file, and counts as none.     *)
LEMMA ExtrasAreNoFiles ==
    ASSUME TypeOK, NEW j \in Jobs, NEW extras \in SUBSET Synthesised,
           project' = [project EXCEPT ![j] = WithExtras(j, extras)]
    PROVE  \A i \in Jobs : ValidatedNext(i) = Validated(i)
  <1> DEFINE more == WithExtras(j, extras)
  <1>1. \A p \in Paths : \/ more[p] = project[j][p]
                         \/ project[j][p] = NoFile /\ more[p] = Added
    BY ExtrasKeepFiles
  <1> HIDE DEF more
  <1>2. /\ project'[j] = more
        /\ \A i \in Jobs \ {j} : project'[i] = project[i]
    BY DEF more, TypeOK
  <1>3. ValidatedNext(j) = Validated(j)
    BY <1>1, <1>2, NobodysFile DEF Validated, ValidatedNext
  <1>4. \A i \in Jobs \ {j} : ValidatedNext(i) = Validated(i)
    BY <1>2 DEF Validated, ValidatedNext
  <1> QED
    BY <1>3, <1>4

LEMMA PassedFileIsWritten ==
    ASSUME TypeOK, NEW j \in Jobs, NEW extras \in SUBSET Synthesised,
           NEW n \in Nodes, NEW p \in Paths,
           project' = [project EXCEPT ![j] =
                          [WithExtras(j, extras) EXCEPT ![p] = n]]
    PROVE  /\ ValidatedNext(j) = [Validated(j) EXCEPT ![p] = n]
           /\ \A i \in Jobs \ {j} : ValidatedNext(i) = Validated(i)
  <1> DEFINE more == WithExtras(j, extras)
  <1>1. /\ more \in [Paths -> Contents]
        /\ \A q \in Paths : \/ more[q] = project[j][q]
                            \/ project[j][q] = NoFile /\ more[q] = Added
    BY ExtrasKeepFiles
  <1> HIDE DEF more
  <1>2. /\ project'[j] = [more EXCEPT ![p] = n]
        /\ \A i \in Jobs \ {j} : project'[i] = project[i]
    BY DEF more, TypeOK
  <1>3. /\ project'[j][p] = n
        /\ \A q \in Paths \ {p} : project'[j][q] = more[q]
    BY <1>1, <1>2
  <1>4. ValidatedNext(j) = [Validated(j) EXCEPT ![p] = n]
    BY <1>1, <1>3, NobodysFile DEF Validated, ValidatedNext
  <1>5. \A i \in Jobs \ {j} : ValidatedNext(i) = Validated(i)
    BY <1>2 DEF Validated, ValidatedNext
  <1> QED
    BY <1>4, <1>5

(* A step of a run that adds to no checkpoint and no file.                 *)
LEMMA QuietStep ==
    ASSUME TypeOK, NEW r \in Runs, NEW m, m.committed = Own(r).committed,
           ChecksIn(r, m), \A j \in Jobs : ValidatedNext(j) = Validated(j)
    PROVE  ProgressStep
  BY DEF ChecksIn, ProgressStep, NothingHappens, StaysOnDisk, Own

(* A checkpoint of the current node, or one that could not be written.     *)
LEMMA CheckpointIsProgress ==
    ASSUME IInv, NEW r \in Runs, Checkpoint(r) \/ CheckpointFails(r)
    PROVE  ProgressStep
  <1> DEFINE n == run[r].node
             j == run[r].job
  <1>1. run[r].pc = "committing" /\ UNCHANGED project
    BY DEF Checkpoint, CheckpointFails
  <1>2. AtNode(r) /\ TypeOK
    BY <1>1 DEF AtNode, AtWork, IInv
  <1>3. /\ n \in Nodes /\ j \in Jobs /\ Own(r) \in Manifests
        /\ DependsOn[n] \subseteq Own(r).committed
    BY <1>2, AtNodeFits
  <1>4. n \in Misnamed \/ Validated(j)[n] \in {n} \cup Misnamed
    <2>1. n \in Written(j) \cup Misnamed
      BY <1>1 DEF IInv, RunsFit, RunFits
    <2> QED
      BY <1>3, <2>1, NobodysFile, JobServiceAssumption
         DEF Written, Validated, Paths
  <1>5. PICK written \in {{}, {n}} :
           ChecksIn(r, [Own(r) EXCEPT !.committed = @ \cup written])
    <2>1. ASSUME NEW written \in {{}, {n}}
          PROVE  [Own(r) EXCEPT !.committed = @ \cup written] \in Manifests
      BY <1>3 DEF Manifests
    <2>2. CASE Checkpoint(r)
      <3>1. Iterate(r, [run[r].graph EXCEPT ![n] = "committed"],
                    [Own(r) EXCEPT !.committed = @ \cup {n}])
        BY <2>2 DEF Checkpoint
      <3> QED
        BY <1>2, <2>1, <3>1, IterateChecksIn
    <2>3. CASE CheckpointFails(r)
      <3>1. PICK written \in {{}, {n}} :
               Catch(r, [run[r].graph EXCEPT ![n] = "committed"], 0,
                     [Own(r) EXCEPT !.committed = @ \cup written])
        BY <2>3 DEF CheckpointFails
      <3> QED
        BY <1>2, <2>1, <3>1, CatchChecksIn
    <2> QED
      BY <2>2, <2>3
  <1> DEFINE m == [Own(r) EXCEPT !.committed = @ \cup written]
  <1>6. m.committed = Own(r).committed \cup written /\ ChecksIn(r, m)
    BY <1>3, <1>5 DEF Manifests
  <1> HIDE DEF m
  <1>7. \A i \in Jobs : ValidatedNext(i) = Validated(i)
    BY <1>1, FilesUnchanged
  <1>8. CASE written = {}
    BY <1>2, <1>6, <1>7, <1>8, QuietStep
  <1>9. CASE written = {n}
    <2> HIDE DEF n, j
    <2>1. ANodeIsCheckpointed(j, n)
      BY <1>3, <1>4, <1>6, <1>7, <1>9
         DEF ANodeIsCheckpointed, ChecksIn, StaysOnDisk, Own, j
    <2> QED
      BY <1>3, <2>1 DEF ProgressStep
  <1> QED
    BY <1>5, <1>8, <1>9

LEMMA ValidationIsProgress ==
    ASSUME IInv, NEW r \in Runs, ValidationPasses(r) \/ ValidationThrows(r)
    PROVE  ProgressStep
  <1>1. AtNode(r) /\ TypeOK
    BY DEF ValidationPasses, ValidationThrows, AtNode, AtWork, IInv
  <1>2. /\ run[r].node \in Nodes /\ run[r].job \in Jobs /\ Own(r) \in Manifests
    BY <1>1, AtNodeFits
  <1>3. CASE ValidationPasses(r)
    <2>1. PICK p \in IF run[r].node \in Misnamed THEN Paths ELSE {run[r].node},
               extras \in SUBSET Synthesised :
            project' = [project EXCEPT ![run[r].job] =
                           [WithExtras(run[r].job, extras)
                               EXCEPT ![p] = run[r].node]]
      BY <1>3 DEF ValidationPasses
    <2>2. p \in Paths /\ (p = run[r].node \/ run[r].node \in Misnamed)
      BY <1>2, <2>1 DEF Paths
    <2>3. /\ ValidatedNext(run[r].job)
                = [Validated(run[r].job) EXCEPT ![p] = run[r].node]
          /\ \A i \in Jobs \ {run[r].job} : ValidatedNext(i) = Validated(i)
      BY <1>1, <1>2, <2>1, <2>2, PassedFileIsWritten
    <2>4. UNCHANGED manifest
      BY <1>3 DEF ValidationPasses
    <2>5. AFileIsWritten(run[r].job)
      BY <1>2, <2>2, <2>3, <2>4 DEF AFileIsWritten, StaysOnDisk
    <2> QED
      BY <1>2, <2>5 DEF ProgressStep
  <1>4. CASE ValidationThrows(r)
    <2>1. PICK extras \in SUBSET Synthesised :
            project' = [project EXCEPT ![run[r].job] =
                           WithExtras(run[r].job, extras)]
      BY <1>4 DEF ValidationThrows
    <2>2. \A i \in Jobs : ValidatedNext(i) = Validated(i)
      BY <1>1, <1>2, <2>1, ExtrasAreNoFiles
    <2>3. ChecksIn(r, Own(r))
      BY <1>1, <1>2, <1>4, CatchChecksIn DEF ValidationThrows
    <2> QED
      BY <1>1, <2>2, <2>3, QuietStep
  <1> QED
    BY <1>3, <1>4

(* The other steps of a run change at most the status and the failures.    *)
LEMMA RunStepIsProgress ==
    ASSUME IInv, NEW r \in Runs, RunStep(r)
    PROVE  ProgressStep
  <1>1. TypeOK /\ run[r].job \in Jobs /\ run[r].node \in Nodes
        /\ Own(r) \in Manifests
    BY DEF IInv, TypeOK, RunStates, Own
  <1>2. CASE Checkpoint(r) \/ CheckpointFails(r)
    BY <1>2, CheckpointIsProgress
  <1>3. CASE ValidationPasses(r) \/ ValidationThrows(r)
    BY <1>3, ValidationIsProgress
  <1>4. CASE GenerationSucceeds(r) \/ RepairStarts(r) \/ RepairSucceeds(r)
    <2>1. UNCHANGED <<manifest, project>>
      BY <1>4 DEF GenerationSucceeds, RepairStarts, RepairSucceeds
    <2> QED
      BY <2>1, FilesUnchanged DEF ProgressStep, NothingHappens, StaysOnDisk
  <1>5. CASE AcquireFails(r)
    <2>1. /\ manifest' = [manifest EXCEPT ![run[r].job].status = "failed"]
          /\ UNCHANGED project
      BY <1>5 DEF AcquireFails
    <2>2. \A j \in Jobs : manifest'[j].committed = manifest[j].committed
      BY <1>1, <2>1 DEF TypeOK, Manifests
    <2> QED
      BY <2>1, <2>2, FilesUnchanged DEF ProgressStep, NothingHappens, StaysOnDisk
  <1>6. CASE AcquireSucceeds(r)
    <2>1. ChecksIn(r, Own(r)) /\ UNCHANGED project
      BY <1>1, <1>6, IterateChecksIn DEF AcquireSucceeds
    <2> QED
      BY <1>1, <2>1, FilesUnchanged, QuietStep
  <1>7. CASE GenerationFails(r) \/ RepairThrows(r)
    <2>1. ChecksIn(r, Own(r)) /\ UNCHANGED project
      BY <1>1, <1>7, CatchChecksIn DEF GenerationFails, RepairThrows
    <2> QED
      BY <1>1, <2>1, FilesUnchanged, QuietStep
  <1>8. CASE ValidationFails(r)
    <2> DEFINE m == [Own(r) EXCEPT !.failed = @ \cup {run[r].node}]
    <2>1. m \in Manifests /\ m.committed = Own(r).committed
      BY <1>1 DEF Manifests
    <2>2. FailNode(r, retryCounts[run[r].node], m) /\ UNCHANGED project
      BY <1>8 DEF ValidationFails
    <2> HIDE DEF m
    <2>3. ChecksIn(r, m)
      BY <1>1, <2>1, <2>2, CatchChecksIn
    <2> QED
      BY <1>1, <2>1, <2>2, <2>3, FilesUnchanged, QuietStep
  <1> QED
    BY <1>2, <1>3, <1>4, <1>5, <1>6, <1>7, <1>8 DEF RunStep

(* The routes change statuses only, and a restart changes nothing on disk. *)
LEMMA StepIsProgress ==
    ASSUME IInv, [Next]_vars
    PROVE  ProgressStep
  <1>1. manifest \in [Jobs -> Manifests]
    BY DEF IInv, TypeOK
  <1>2. CASE \E r \in Runs : RunStep(r)
    BY <1>2, RunStepIsProgress
  <1>3. CASE \E j \in Jobs : Request(j)
    <2>1. /\ UNCHANGED project
          /\ \E j \in Jobs : \E s : manifest' = [manifest EXCEPT ![j].status = s]
      BY <1>3 DEF Request, Create, Resume, Cancel, Start
    <2>2. \A j \in Jobs : manifest'[j].committed = manifest[j].committed
      BY <1>1, <2>1 DEF Manifests
    <2> QED
      BY <2>1, <2>2, FilesUnchanged DEF ProgressStep, NothingHappens, StaysOnDisk
  <1>4. CASE Restart \/ UNCHANGED vars
    <2>1. UNCHANGED <<manifest, project>>
      BY <1>4 DEF Restart, vars
    <2> QED
      BY <2>1, FilesUnchanged DEF ProgressStep, NothingHappens, StaysOnDisk
  <1> QED
    BY <1>2, <1>3, <1>4 DEF Next, AllQuiet

CommittedOnDisk == [j \in Jobs |-> manifest[j].committed]
FilesOnDisk == [j \in Jobs |-> Validated(j)]

LEMMA ProgressIsPromised ==
    ASSUME ProgressStep
    PROVE  [Progress!Next]_(Progress!progressVars)
  <1>1. /\ CommittedOnDisk' = [j \in Jobs |-> manifest'[j].committed]
        /\ FilesOnDisk' = [j \in Jobs |-> ValidatedNext(j)]
    BY DEF CommittedOnDisk, FilesOnDisk, Validated, ValidatedNext
  <1>2. CASE NothingHappens
    <2>1. UNCHANGED <<CommittedOnDisk, FilesOnDisk>>
      BY <1>1, <1>2 DEF NothingHappens, StaysOnDisk, CommittedOnDisk, FilesOnDisk
    <2> QED
      BY <2>1 DEF Progress!progressVars, CommittedOnDisk, FilesOnDisk
  <1>3. ASSUME NEW j \in Jobs, AFileIsWritten(j)
        PROVE  Progress!Next
    <2>1. PICK n \in Nodes, p \in Paths :
             /\ p = n \/ n \in Misnamed
             /\ ValidatedNext(j) = [Validated(j) EXCEPT ![p] = n]
      BY <1>3 DEF AFileIsWritten
    <2>2. UNCHANGED CommittedOnDisk
      BY <1>1, <1>3 DEF AFileIsWritten, StaysOnDisk, CommittedOnDisk
    <2>3. FilesOnDisk' = [FilesOnDisk EXCEPT ![j][p] = n]
      BY <1>1, <1>3, <2>1 DEF AFileIsWritten, StaysOnDisk, FilesOnDisk
    <2>4. Progress!WriteFile(j, n, p)
      BY <2>1, <2>2, <2>3 DEF Progress!WriteFile, CommittedOnDisk, FilesOnDisk
    <2> QED
      BY <2>1, <2>4 DEF Progress!Next
  <1>4. ASSUME NEW j \in Jobs, NEW n \in Nodes, ANodeIsCheckpointed(j, n)
        PROVE  Progress!Next
    <2>1. /\ UNCHANGED FilesOnDisk
          /\ CommittedOnDisk' = [CommittedOnDisk EXCEPT ![j] = @ \cup {n}]
      BY <1>1, <1>4
         DEF ANodeIsCheckpointed, StaysOnDisk, CommittedOnDisk, FilesOnDisk
    <2>2. /\ DependsOn[n] \subseteq CommittedOnDisk[j]
          /\ n \in Misnamed \/ FilesOnDisk[j][n] \in {n} \cup Misnamed
      BY <1>4 DEF ANodeIsCheckpointed, CommittedOnDisk, FilesOnDisk
    <2>3. Progress!CheckpointNode(j, n)
      BY <2>1, <2>2 DEF Progress!CheckpointNode, CommittedOnDisk, FilesOnDisk
    <2> QED
      BY <2>3 DEF Progress!Next
  <1> QED
    BY <1>2, <1>3, <1>4 DEF ProgressStep

(* The job service implements DurableProgress: whatever its runs do to each*)
(* other, whoever cancels or resumes and whenever the router dies, files   *)
(* give way only to their own kind or to a misnamed node's, checkpoints are*)
(* never taken back, and a file and its dependencies come before its own.  *)
THEOREM ImplementsDurableProgressAlways == Spec => ImplementsDurableProgress
  <1>1. Init => Progress!Init
    BY NobodysFile DEF Init, Progress!Init, Validated
  <1>2. IInv /\ [Next]_vars => [Progress!Next]_(Progress!progressVars)
    BY StepIsProgress, ProgressIsPromised
  <1> QED
    BY <1>1, <1>2, IInvAlways, PTL
       DEF Spec, ImplementsDurableProgress, Progress!SafeSpec

-----------------------------------------------------------------------------
(* Running jobs, while nothing crashes *)

(* Run r keeps to its job, and is at work or has said how the job ended.   *)
KeepsItsJob(r) ==
    /\ run'[r].job = run[r].job
    /\ \A q \in Runs \ {r} : run'[q] = run[q]
    /\ \A j \in Jobs \ {run[r].job} : manifest'[j] = manifest[j]
    /\ run'[r].pc \in AtWork \/ manifest'[run[r].job].status # "running"

LEMMA LeaveKeepsItsJob ==
    ASSUME TypeOK, NEW r \in Runs, NEW graph, NEW m \in Manifests,
           Leave(r, graph, m)
    PROVE  KeepsItsJob(r)
  <1> DEFINE x == [run[r] EXCEPT !.pc = "over", !.graph = graph, !.attempt = 0]
             over == [m EXCEPT !.status = FinalStatus(graph)]
  <1>1. run[r] \in RunStates /\ run[r].job \in Jobs
    BY DEF TypeOK, RunStates
  <1>2. x.job = run[r].job
    BY <1>1 DEF RunStates
  <1>3. over.status = FinalStatus(graph)
    BY DEF Manifests
  <1>4. over.status # "running"
    BY <1>3 DEF FinalStatus
  <1>5. /\ run' = [run EXCEPT ![r] = x]
        /\ manifest' = [manifest EXCEPT ![run[r].job] = over]
    BY DEF Leave
  <1> HIDE DEF x, over
  <1> QED
    BY <1>1, <1>2, <1>4, <1>5 DEF TypeOK, KeepsItsJob

LEMMA IterateKeepsItsJob ==
    ASSUME TypeOK, NEW r \in Runs, NEW graph, NEW m \in Manifests,
           Iterate(r, graph, m)
    PROVE  KeepsItsJob(r)
  <1>1. CASE \E g : Leave(r, g, m)
    BY <1>1, LeaveKeepsItsJob
  <1>2. CASE ~\E g : Leave(r, g, m)
    <2> DEFINE n == NextPendingNode(graph)
               x == [run[r] EXCEPT !.pc = "generating", !.node = n,
                                   !.graph = [graph EXCEPT ![n] = "generating"],
                                   !.attempt = 0]
    <2>1. /\ run' = [run EXCEPT ![r] = x]
          /\ manifest' = [manifest EXCEPT ![run[r].job] = m]
      BY <1>2 DEF Iterate
    <2>2. run[r] \in RunStates /\ run[r].job \in Jobs
      BY DEF TypeOK, RunStates
    <2> HIDE DEF n
    <2>3. x.job = run[r].job /\ x.pc = "generating"
      BY <2>2 DEF RunStates
    <2> HIDE DEF x
    <2> QED
      BY <2>1, <2>2, <2>3 DEF TypeOK, KeepsItsJob, AtWork
  <1> QED
    BY <1>1, <1>2

LEMMA CatchKeepsItsJob ==
    ASSUME TypeOK, NEW r \in Runs, NEW graph, NEW before, NEW m \in Manifests,
           Catch(r, graph, before, m) \/ FailNode(r, before, m)
    PROVE  KeepsItsJob(r)
  BY LeaveKeepsItsJob, IterateKeepsItsJob DEF Catch, FailNode

LEMMA RunStepKeepsItsJob ==
    ASSUME TypeOK, NEW r \in Runs, RunStep(r)
    PROVE  Live(r) /\ KeepsItsJob(r)
  <1>1. run[r] \in RunStates /\ run[r].job \in Jobs /\ Own(r) \in Manifests
    BY DEF TypeOK, RunStates, Own
  <1>2. Live(r)
    BY DEF RunStep, AcquireFails, AcquireSucceeds, GenerationFails,
           GenerationSucceeds, RepairStarts, RepairSucceeds, RepairThrows,
           ValidationFails, ValidationThrows, ValidationPasses, Checkpoint, CheckpointFails, Live, AtWork
  <1> SUFFICES KeepsItsJob(r)
    BY <1>2
  <1>3. CASE AcquireFails(r)
    <2>1. /\ run' = [run EXCEPT ![r].pc = "dead"]
          /\ manifest' = [manifest EXCEPT ![run[r].job].status = "failed"]
      BY <1>3 DEF AcquireFails
    <2>2. /\ run'[r].job = run[r].job
          /\ \A q \in Runs \ {r} : run'[q] = run[q]
      BY <1>1, <2>1 DEF TypeOK, RunStates
    <2>3. /\ manifest'[run[r].job].status = "failed"
          /\ \A j \in Jobs \ {run[r].job} : manifest'[j] = manifest[j]
      BY <1>1, <2>1 DEF TypeOK, Manifests
    <2> QED
      BY <2>2, <2>3 DEF KeepsItsJob
  <1>4. CASE AcquireSucceeds(r)
    BY <1>1, <1>4, IterateKeepsItsJob DEF AcquireSucceeds
  <1>5. CASE GenerationFails(r) \/ RepairThrows(r) \/ ValidationThrows(r)
    BY <1>1, <1>5, CatchKeepsItsJob
       DEF GenerationFails, RepairThrows, ValidationThrows
  <1>6. CASE GenerationSucceeds(r)
    <2> DEFINE x == [run[r] EXCEPT !.pc = "validating",
                        !.graph = [run[r].graph EXCEPT
                                      ![run[r].node] = "validating"]]
    <2>1. run' = [run EXCEPT ![r] = x] /\ UNCHANGED manifest
      BY <1>6 DEF GenerationSucceeds
    <2>2. x.job = run[r].job /\ x.pc = "validating"
      BY <1>1 DEF RunStates
    <2> HIDE DEF x
    <2> QED
      BY <2>1, <2>2 DEF TypeOK, KeepsItsJob, AtWork
  <1>7. CASE ValidationPasses(r) \/ RepairStarts(r)
    <2>1. /\ \/ run' = [run EXCEPT ![r].pc = "committing"]
             \/ run' = [run EXCEPT ![r].pc = "repairing"]
          /\ UNCHANGED manifest
      BY <1>7 DEF ValidationPasses, RepairStarts
    <2>2. /\ run'[r].job = run[r].job /\ run'[r].pc \in {"committing", "repairing"}
          /\ \A q \in Runs \ {r} : run'[q] = run[q]
      BY <1>1, <2>1 DEF TypeOK, RunStates
    <2> QED
      BY <2>1, <2>2 DEF KeepsItsJob, AtWork
  <1>8. CASE ValidationFails(r)
    <2>1. [Own(r) EXCEPT !.failed = @ \cup {run[r].node}] \in Manifests
      BY <1>1 DEF Manifests, RunStates
    <2> QED
      BY <1>8, <2>1, CatchKeepsItsJob DEF ValidationFails
  <1>9. CASE Checkpoint(r)
    <2>1. [Own(r) EXCEPT !.committed = @ \cup {run[r].node}] \in Manifests
      BY <1>1 DEF Manifests, RunStates
    <2> QED
      BY <1>9, <2>1, IterateKeepsItsJob DEF Checkpoint
  <1>10. CASE CheckpointFails(r)
    <2>1. PICK written \in {{}, {run[r].node}} :
             Catch(r, [run[r].graph EXCEPT ![run[r].node] = "committed"], 0,
                   [Own(r) EXCEPT !.committed = @ \cup written])
      BY <1>10 DEF CheckpointFails
    <2>2. [Own(r) EXCEPT !.committed = @ \cup written] \in Manifests
      BY <1>1 DEF Manifests, RunStates
    <2> QED
      BY <2>1, <2>2, CatchKeepsItsJob
  <1>11. CASE RepairSucceeds(r)
    <2> DEFINE x == [run[r] EXCEPT !.pc = "validating",
                                   !.attempt = run[r].attempt + 1]
    <2>1. run' = [run EXCEPT ![r] = x] /\ UNCHANGED manifest
      BY <1>11 DEF RepairSucceeds
    <2>2. x.job = run[r].job /\ x.pc = "validating"
      BY <1>1 DEF RunStates
    <2> HIDE DEF x
    <2> QED
      BY <2>1, <2>2 DEF TypeOK, KeepsItsJob, AtWork
  <1> QED
    BY <1>3, <1>4, <1>5, <1>6, <1>7, <1>8, <1>9, <1>10, <1>11 DEF RunStep

LEMMA StepKeepsRunningJobs ==
    ASSUME MaxRestarts = 0, TypeOK, RunningJobsHaveARun, [Next]_vars
    PROVE  RunningJobsHaveARun'
  <1>1. run \in [Runs -> RunStates] /\ manifest \in [Jobs -> Manifests]
    BY DEF TypeOK
  <1>2. CASE \E r \in Runs : RunStep(r)
    <2> PICK r \in Runs : RunStep(r)
      BY <1>2
    <2>1. KeepsItsJob(r)
      BY RunStepKeepsItsJob
    <2> SUFFICES ASSUME NEW j \in Jobs, manifest'[j].status = "running"
                 PROVE  \E q \in Runs : run'[q].pc \in AtWork /\ run'[q].job = j
      BY DEF RunningJobsHaveARun, Live
    <2> QED
      BY <2>1 DEF RunningJobsHaveARun, Live, KeepsItsJob
  <1>3. ASSUME NEW j \in Jobs, NEW r \in Runs, NEW graph, Start(r, j, graph)
        PROVE  RunningJobsHaveARun'
    <2> DEFINE x == [pc |-> "acquiring", job |-> j, node |-> 1,
                     graph |-> graph, aborted |-> FALSE, attempt |-> 0]
    <2>1. run[r].pc = "unused" /\ run' = [run EXCEPT ![r] = x]
      BY <1>3 DEF Start
    <2>2. x.pc = "acquiring" /\ x.job = j
      OBVIOUS
    <2> HIDE DEF x
    <2>3. \A i \in Jobs \ {j} : manifest'[i] = manifest[i]
      BY <1>1, <1>3 DEF Start
    <2> SUFFICES ASSUME NEW i \in Jobs, manifest'[i].status = "running"
                 PROVE  \E q \in Runs : run'[q].pc \in AtWork /\ run'[q].job = i
      BY DEF RunningJobsHaveARun, Live
    <2>4. CASE i = j
      BY <1>1, <2>1, <2>2, <2>4 DEF AtWork
    <2>5. CASE i # j
      <3>1. PICK q \in Runs : run[q].pc \in AtWork /\ run[q].job = i
        BY <2>3, <2>5 DEF RunningJobsHaveARun, Live
      <3> QED
        BY <1>1, <2>1, <3>1 DEF AtWork
    <2> QED
      BY <2>4, <2>5
  <1>4. ASSUME NEW j \in Jobs, Cancel(j)
        PROVE  RunningJobsHaveARun'
    <2>1. /\ \A i \in Jobs \ {j} : manifest'[i] = manifest[i]
          /\ manifest'[j].status = "cancelled"
      BY <1>1, <1>4 DEF Cancel, Manifests
    <2>2. \A q \in Runs : run'[q].pc = run[q].pc /\ run'[q].job = run[q].job
      <3> SUFFICES ASSUME NEW q \in Runs
                   PROVE  run'[q].pc = run[q].pc /\ run'[q].job = run[q].job
        OBVIOUS
      <3>1. \/ run'[q] = run[q]
            \/ run'[q] = [run[q] EXCEPT !.aborted = TRUE]
        BY <1>4 DEF Cancel
      <3> QED
        BY <1>1, <3>1 DEF RunStates
    <2> QED
      BY <2>1, <2>2 DEF RunningJobsHaveARun, Live
  <1>5. ~Restart
    BY DEF Restart, TypeOK
  <1>6. CASE \E j \in Jobs : Request(j)
    BY <1>3, <1>4, <1>6 DEF Request, Create, Resume
  <1>7. CASE UNCHANGED vars
    BY <1>7 DEF vars, RunningJobsHaveARun, Live
  <1> QED
    BY <1>2, <1>5, <1>6, <1>7 DEF Next, AllQuiet

(* While the router does not restart, a manifest never says "running" with *)
(* no run at work: every way out of run() (jobService.ts) writes another   *)
(* status.  The run jobs_crash shows that a restart breaks it.             *)
THEOREM RunningJobsHaveARunAlways ==
    MaxRestarts = 0 => (Spec => []RunningJobsHaveARun)
  <1>1. Init => RunningJobsHaveARun
    BY DEF Init, RunningJobsHaveARun
  <1>2. MaxRestarts = 0 /\ TypeOK /\ RunningJobsHaveARun /\ [Next]_vars
           => RunningJobsHaveARun'
    BY StepKeepsRunningJobs
  <1> SUFFICES ASSUME MaxRestarts = 0
               PROVE  Spec => []RunningJobsHaveARun
    OBVIOUS
  <1>3. TypeOK /\ RunningJobsHaveARun /\ [Next]_vars => RunningJobsHaveARun'
    BY <1>2
  <1> QED
    BY <1>1, <1>3, TypeCorrect, PTL DEF Spec

-----------------------------------------------------------------------------
(* How far the runs are from their end *)

Unfinished(graph) ==
    {n \in Nodes : graph[n] \in {"pending", "generating", "validating"}}

(* What a run in local state x may still have to do; 0: it is to start.    *)
WorkOf(x) ==
    CASE x.pc = "unused" -> Nodes \cup {0}
      [] x.pc \in AtWork -> Unfinished(x.graph)
      [] OTHER           -> {}

(* How far it is from being done with its current node.                    *)
StepsOf(x) ==
    CASE x.pc = "acquiring"  -> 2 * MaxRetries + 4
      [] x.pc = "generating" -> 2 * MaxRetries + 3
      [] x.pc = "validating" -> 2 * (MaxRetries - x.attempt) + 2
      [] x.pc = "repairing"  -> 2 * (MaxRetries - x.attempt) + 1
      [] x.pc = "committing" -> 1
      [] OTHER               -> 0

(* How often a node may still fail and be tried again.                     *)
RetriesLeft(count) == IF count < MaxRetries THEN MaxRetries - count ELSE 0

(* What the environment may still do to all of them.                       *)
Mishaps == (MaxRestarts - restarts) + (MaxWriteErrors - writeErrors)

SameWork == \A r \in Runs : WorkOf(run'[r]) = WorkOf(run[r])

LessWork ==
    /\ \A r \in Runs : WorkOf(run'[r]) \subseteq WorkOf(run[r])
    /\ \E r \in Runs : WorkOf(run'[r]) # WorkOf(run[r])

SameRetries ==
    \A n \in Nodes : RetriesLeft(retryCounts'[n]) = RetriesLeft(retryCounts[n])

FewerRetries ==
    /\ \A n \in Nodes :
          RetriesLeft(retryCounts'[n]) <= RetriesLeft(retryCounts[n])
    /\ \E n \in Nodes :
          RetriesLeft(retryCounts'[n]) < RetriesLeft(retryCounts[n])

FewerSteps ==
    \E r \in Runs : /\ StepsOf(run'[r]) < StepsOf(run[r])
                    /\ \A q \in Runs \ {r} : StepsOf(run'[q]) = StepsOf(run[q])

(* The order by which the runs end: lexicographic, and well founded as long*)
(* as there are finitely many runs.                                        *)
Closer ==
    \/ Mishaps' < Mishaps
    \/ Mishaps' = Mishaps /\ LessWork
    \/ Mishaps' = Mishaps /\ SameWork /\ FewerRetries
    \/ Mishaps' = Mishaps /\ SameWork /\ SameRetries /\ FewerSteps

NoFarther ==
    /\ Mishaps' = Mishaps /\ SameWork /\ SameRetries
    /\ \A r \in Runs : StepsOf(run'[r]) = StepsOf(run[r])

OnlyRun(r) == \A q \in Runs \ {r} : run'[q] = run[q]

NoMishap == UNCHANGED <<restarts, writeErrors>>

LEMMA LessWorkIsCloser ==
    ASSUME NoMishap, NEW r \in Runs, OnlyRun(r),
           WorkOf(run'[r]) \subseteq WorkOf(run[r]),
           NEW n, n \in WorkOf(run[r]), n \notin WorkOf(run'[r])
    PROVE  Closer
  <1>1. Mishaps' = Mishaps
    BY DEF NoMishap, Mishaps
  <1>2. LessWork
    BY DEF LessWork, OnlyRun
  <1> QED
    BY <1>1, <1>2 DEF Closer

LEMMA FewerRetriesIsCloser ==
    ASSUME NoMishap, NEW r \in Runs, OnlyRun(r),
           WorkOf(run'[r]) \subseteq WorkOf(run[r]), FewerRetries
    PROVE  Closer
  <1>1. Mishaps' = Mishaps
    BY DEF NoMishap, Mishaps
  <1>2. LessWork \/ SameWork
    BY DEF LessWork, SameWork, OnlyRun
  <1> QED
    BY <1>1, <1>2 DEF Closer

LEMMA FewerStepsIsCloser ==
    ASSUME NoMishap, NEW r \in Runs, OnlyRun(r), UNCHANGED retryCounts,
           WorkOf(run'[r]) \subseteq WorkOf(run[r]),
           StepsOf(run'[r]) < StepsOf(run[r])
    PROVE  Closer
  <1>1. Mishaps' = Mishaps
    BY DEF NoMishap, Mishaps
  <1>2. LessWork \/ SameWork
    BY DEF LessWork, SameWork, OnlyRun
  <1>3. SameRetries /\ FewerSteps
    BY DEF SameRetries, FewerSteps, OnlyRun
  <1> QED
    BY <1>1, <1>2, <1>3 DEF Closer

LEMMA MishapIsCloser ==
    ASSUME TypeOK,
           \/ restarts' = restarts + 1 /\ UNCHANGED writeErrors
           \/ writeErrors' = writeErrors + 1 /\ UNCHANGED restarts
    PROVE  Closer
  <1>1. /\ restarts \in Nat /\ writeErrors \in Nat
        /\ MaxRestarts \in Nat /\ MaxWriteErrors \in Nat
    BY JobServiceAssumption DEF TypeOK
  <1>2. Mishaps' < Mishaps
    BY <1>1 DEF Mishaps
  <1> QED
    BY <1>2 DEF Closer

LEMMA LeavesNothing ==
    ASSUME TypeOK, NEW r \in Runs, NEW graph, NEW m, Leave(r, graph, m)
    PROVE  /\ OnlyRun(r)
           /\ WorkOf(run'[r]) = {} /\ StepsOf(run'[r]) = 0
  <1> DEFINE x == [run[r] EXCEPT !.pc = "over", !.graph = graph, !.attempt = 0]
  <1>1. run \in [Runs -> RunStates] /\ run[r] \in RunStates
    BY DEF TypeOK
  <1>2. run' = [run EXCEPT ![r] = x]
    BY DEF Leave
  <1>3. x.pc = "over"
    BY <1>1 DEF RunStates
  <1> HIDE DEF x
  <1>4. run'[r] = x /\ OnlyRun(r)
    BY <1>1, <1>2 DEF OnlyRun
  <1> QED
    BY <1>3, <1>4 DEF WorkOf, StepsOf, AtWork

(* What is left after an iteration is what its graph leaves.               *)
LEMMA IterateLeavesTheRest ==
    ASSUME TypeOK, NEW r \in Runs, NEW graph \in Graphs, NEW m,
           Iterate(r, graph, m)
    PROVE  /\ OnlyRun(r)
           /\ WorkOf(run'[r]) \subseteq Unfinished(graph)
           /\ StepsOf(run'[r]) <= 2 * MaxRetries + 3
  <1>1. MaxRetries \in Nat
    BY JobServiceAssumption
  <1>2. CASE \E g : Leave(r, g, m)
    BY <1>1, <1>2, LeavesNothing
  <1>3. CASE ~\E g : Leave(r, g, m)
    <2> DEFINE n == NextPendingNode(graph)
               g == [graph EXCEPT ![n] = "generating"]
               x == [run[r] EXCEPT !.pc = "generating", !.node = n,
                                   !.graph = g, !.attempt = 0]
    <2>1. run' = [run EXCEPT ![r] = x] /\ Ready(graph) # {}
      BY <1>3 DEF Iterate
    <2>2. n \in Nodes /\ graph[n] = "pending"
      BY <2>1, NextIsReady DEF Ready, With
    <2>3. run \in [Runs -> RunStates] /\ run[r] \in RunStates
      BY DEF TypeOK
    <2> HIDE DEF n
    <2>4. Unfinished(g) \subseteq Unfinished(graph)
      BY <2>2 DEF Unfinished, Graphs
    <2> HIDE DEF g
    <2>5. x.pc = "generating" /\ x.graph = g
      BY <2>3 DEF RunStates
    <2> HIDE DEF x
    <2>6. run'[r] = x /\ OnlyRun(r)
      BY <2>1, <2>3 DEF OnlyRun
    <2>7. WorkOf(x) = Unfinished(g) /\ StepsOf(x) = 2 * MaxRetries + 3
      BY <2>5 DEF WorkOf, StepsOf, AtWork
    <2> QED
      BY <1>1, <2>4, <2>6, <2>7
  <1> QED
    BY <1>2, <1>3

(* A run at work on a node has that node left.                             *)
LEMMA NodeIsLeft ==
    ASSUME IInv, NEW r \in Runs, AtNode(r)
    PROVE  /\ run[r].node \in WorkOf(run[r])
           /\ WorkOf(run[r]) = Unfinished(run[r].graph)
  <1>1. /\ Live(r) /\ run[r].node \in Nodes
        /\ run[r].graph[run[r].node] \in {"generating", "validating"}
    BY AtNodeFits
  <1> QED
    BY <1>1 DEF WorkOf, Live, Unfinished, AtWork

(* A counted failure uses up a retry, or ends the work on the node.        *)
LEMMA FailNodeIsCloser ==
    ASSUME IInv, NoMishap, NEW r \in Runs, AtNode(r), NEW m,
           FailNode(r, retryCounts[run[r].node], m)
    PROVE  Closer
  <1> DEFINE n == run[r].node
             count == retryCounts[n]
  <1>1. /\ n \in Nodes /\ run[r].graph \in Graphs /\ TypeOK
        /\ run[r].graph[n] \in {"generating", "validating"}
        /\ retryCounts \in [Nodes -> Nat] /\ count \in Nat /\ MaxRetries \in Nat
    BY AtNodeFits, JobServiceAssumption DEF IInv, TypeOK
  <1>2. n \in WorkOf(run[r]) /\ WorkOf(run[r]) = Unfinished(run[r].graph)
    BY NodeIsLeft
  <1>3. retryCounts' = [retryCounts EXCEPT ![n] = count + 1]
    BY DEF FailNode
  <1>4. CASE count + 1 <= MaxRetries
    <2> DEFINE g == [run[r].graph EXCEPT ![n] = "pending"]
    <2>1. Iterate(r, g, m)
      BY <1>4 DEF FailNode
    <2> HIDE DEF n, count
    <2>2. g \in Graphs
      BY <1>1 DEF Graphs, Statuses
    <2>3. Unfinished(g) \subseteq Unfinished(run[r].graph)
      BY <1>1 DEF Unfinished, Graphs
    <2> HIDE DEF g
    <2>4. OnlyRun(r) /\ WorkOf(run'[r]) \subseteq WorkOf(run[r])
      BY <1>1, <1>2, <2>1, <2>2, <2>3, IterateLeavesTheRest
    <2>5. \A i \in Nodes \ {n} : retryCounts'[i] = retryCounts[i]
      BY <1>1, <1>3
    <2>6. retryCounts'[n] = count + 1 /\ retryCounts[n] = count
      BY <1>1, <1>3 DEF count
    <2>7. RetriesLeft(count + 1) < RetriesLeft(count)
      BY <1>1, <1>4 DEF RetriesLeft
    <2>8. \A i \in Nodes : RetriesLeft(retryCounts[i]) \in Nat
      BY <1>1 DEF RetriesLeft
    <2>9. FewerRetries
      <3>1. RetriesLeft(retryCounts'[n]) < RetriesLeft(retryCounts[n])
        BY <2>6, <2>7
      <3>2. \A i \in Nodes \ {n} :
               RetriesLeft(retryCounts'[i]) = RetriesLeft(retryCounts[i])
        BY <2>5
      <3>3. RetriesLeft(retryCounts'[n]) <= RetriesLeft(retryCounts[n])
        <4>1. RetriesLeft(count + 1) \in Nat /\ RetriesLeft(count) \in Nat
          BY <1>1 DEF RetriesLeft
        <4> QED
          BY <2>6, <2>7, <4>1
      <3>4. \A i \in Nodes :
               RetriesLeft(retryCounts'[i]) <= RetriesLeft(retryCounts[i])
        BY <2>8, <3>2, <3>3
      <3> QED
        BY <1>1, <3>1, <3>4 DEF FewerRetries
    <2> QED
      BY <2>4, <2>9, FewerRetriesIsCloser
  <1>5. CASE ~(count + 1 <= MaxRetries)
    <2> DEFINE g == MarkNodeFailed(run[r].graph, n)
    <2>1. Iterate(r, g, m)
      BY <1>5 DEF FailNode
    <2> HIDE DEF n, count
    <2>2. /\ g \in Graphs /\ g[n] = "failed"
          /\ \A i \in Skipped(run[r].graph, n) : g[i] = "skipped"
          /\ \A i \in Nodes : i # n /\ i \notin Skipped(run[r].graph, n) =>
                g[i] = run[r].graph[i]
      BY <1>1, MarkNodeFailedType
    <2> HIDE DEF g
    <2>3. Unfinished(g) \subseteq Unfinished(run[r].graph) \ {n}
      BY <2>2 DEF Unfinished
    <2>4. OnlyRun(r) /\ WorkOf(run'[r]) \subseteq Unfinished(g)
      BY <1>1, <2>1, <2>2, IterateLeavesTheRest
    <2> QED
      BY <1>2, <2>3, <2>4, LessWorkIsCloser DEF n
  <1> QED
    BY <1>4, <1>5

LEMMA CatchIsCloser ==
    ASSUME IInv, NoMishap, NEW r \in Runs, AtNode(r), NEW graph, NEW m,
           Catch(r, graph, retryCounts[run[r].node], m)
    PROVE  Closer
  <1>1. CASE run[r].aborted
    <2>1. Leave(r, graph, m)
      BY <1>1 DEF Catch
    <2>2. OnlyRun(r) /\ WorkOf(run'[r]) = {}
      BY <2>1, LeavesNothing DEF IInv
    <2> QED
      BY <2>2, NodeIsLeft, LessWorkIsCloser
  <1>2. CASE ~run[r].aborted
    BY <1>2, FailNodeIsCloser DEF Catch
  <1> QED
    BY <1>1, <1>2

LEMMA CheckpointIsCloser ==
    ASSUME IInv, NEW r \in Runs, Checkpoint(r)
    PROVE  Closer
  <1> DEFINE n == run[r].node
             g == [run[r].graph EXCEPT ![n] = "committed"]
  <1>1. AtNode(r) /\ NoMishap /\ TypeOK
    BY DEF Checkpoint, AtNode, AtWork, NoMishap, IInv
  <1>2. /\ n \in WorkOf(run[r]) /\ WorkOf(run[r]) = Unfinished(run[r].graph)
        /\ n \in Nodes /\ run[r].graph \in Graphs
    BY <1>1, NodeIsLeft, AtNodeFits
  <1>3. \E m : Iterate(r, g, m)
    BY DEF Checkpoint
  <1> HIDE DEF n
  <1>4. g \in Graphs
    BY <1>2 DEF Graphs, Statuses
  <1>5. Unfinished(g) \subseteq Unfinished(run[r].graph) \ {n}
    BY <1>2 DEF Unfinished, Graphs
  <1> HIDE DEF g
  <1>6. OnlyRun(r) /\ WorkOf(run'[r]) \subseteq Unfinished(g)
    BY <1>1, <1>3, <1>4, IterateLeavesTheRest
  <1> QED
    BY <1>1, <1>2, <1>5, <1>6, LessWorkIsCloser

LEMMA AcquireIsCloser ==
    ASSUME IInv, NEW r \in Runs, AcquireFails(r) \/ AcquireSucceeds(r)
    PROVE  Closer
  <1>1. /\ NoMishap /\ UNCHANGED retryCounts /\ run[r].pc = "acquiring"
        /\ TypeOK /\ run \in [Runs -> RunStates] /\ MaxRetries \in Nat
        /\ run[r].graph \in Graphs
    BY JobServiceAssumption
       DEF AcquireFails, AcquireSucceeds, NoMishap, IInv, TypeOK, RunStates
  <1>2. /\ WorkOf(run[r]) = Unfinished(run[r].graph)
        /\ StepsOf(run[r]) = 2 * MaxRetries + 4
    BY <1>1 DEF WorkOf, StepsOf, AtWork
  <1>3. CASE AcquireFails(r)
    <2>1. OnlyRun(r) /\ run'[r].pc = "dead"
      BY <1>1, <1>3 DEF AcquireFails, OnlyRun, RunStates
    <2>2. WorkOf(run'[r]) = {} /\ StepsOf(run'[r]) = 0
      BY <2>1 DEF WorkOf, StepsOf, AtWork
    <2> QED
      BY <1>1, <1>2, <2>1, <2>2, FewerStepsIsCloser
  <1>4. CASE AcquireSucceeds(r)
    <2>1. /\ OnlyRun(r) /\ WorkOf(run'[r]) \subseteq Unfinished(run[r].graph)
          /\ StepsOf(run'[r]) <= 2 * MaxRetries + 3
      BY <1>1, <1>4, IterateLeavesTheRest DEF AcquireSucceeds
    <2>2. StepsOf(run'[r]) < StepsOf(run[r])
      <3>1. StepsOf(run'[r]) \in Int
        <4>1. run'[r] \in RunStates
          BY RunStepKeepsIInv DEF IInv, TypeOK, RunStep
        <4> QED
          BY <1>1, <4>1 DEF StepsOf, RunStates
      <3> QED
        BY <1>1, <1>2, <2>1, <3>1
    <2> QED
      BY <1>1, <1>2, <2>1, <2>2, FewerStepsIsCloser
  <1> QED
    BY <1>3, <1>4

(* The steps that only bring a run nearer to the end of its node.          *)
LEMMA NodeStepIsCloser ==
    ASSUME IInv, NEW r \in Runs,
           \/ GenerationSucceeds(r) \/ RepairStarts(r) \/ RepairSucceeds(r)
           \/ ValidationPasses(r)
    PROVE  Closer
  <1>1. /\ NoMishap /\ UNCHANGED retryCounts /\ AtNode(r) /\ TypeOK
        /\ run \in [Runs -> RunStates] /\ MaxRetries \in Nat
    BY JobServiceAssumption DEF GenerationSucceeds, RepairStarts, RepairSucceeds,
       ValidationPasses, NoMishap, IInv, TypeOK, AtNode, AtWork
  <1>2. run[r] \in RunStates /\ run[r].attempt \in 0..MaxRetries
    BY <1>1 DEF RunStates
  <1>3. WorkOf(run[r]) = Unfinished(run[r].graph)
    BY <1>1, NodeIsLeft
  <1>4. CASE GenerationSucceeds(r)
    <2> DEFINE g == [run[r].graph EXCEPT ![run[r].node] = "validating"]
               x == [run[r] EXCEPT !.pc = "validating", !.graph = g]
    <2>1. run' = [run EXCEPT ![r] = x] /\ run[r].pc = "generating"
      BY <1>4 DEF GenerationSucceeds
    <2>2. Unfinished(g) \subseteq Unfinished(run[r].graph)
      BY <1>1, AtNodeFits DEF Unfinished, Graphs
    <2> HIDE DEF g
    <2>3. x.pc = "validating" /\ x.graph = g /\ x.attempt = run[r].attempt
      BY <1>2 DEF RunStates
    <2> HIDE DEF x
    <2>4. OnlyRun(r) /\ run'[r] = x
      BY <1>1, <2>1 DEF OnlyRun
    <2>5. WorkOf(x) = Unfinished(g)
      BY <2>3 DEF WorkOf, AtWork
    <2>6. StepsOf(x) < StepsOf(run[r])
      BY <1>1, <1>2, <2>1, <2>3 DEF StepsOf
    <2> QED
      BY <1>1, <1>3, <2>2, <2>4, <2>5, <2>6, FewerStepsIsCloser
  <1>5. ASSUME NEW x \in RunStates, run' = [run EXCEPT ![r] = x],
               x.pc \in AtWork, x.graph = run[r].graph,
               StepsOf(x) < StepsOf(run[r])
        PROVE  Closer
    <2>1. OnlyRun(r) /\ run'[r] = x
      BY <1>1, <1>5 DEF OnlyRun
    <2>2. WorkOf(x) = Unfinished(run[r].graph)
      BY <1>5 DEF WorkOf, AtWork
    <2> QED
      BY <1>1, <1>3, <1>5, <2>1, <2>2, FewerStepsIsCloser
  <1>6. CASE RepairStarts(r) \/ ValidationPasses(r)
    <2> PICK s \in {"repairing", "committing"} :
             run' = [run EXCEPT ![r].pc = s] /\ run[r].pc = "validating"
      BY <1>6 DEF RepairStarts, ValidationPasses
    <2> DEFINE x == [run[r] EXCEPT !.pc = s]
    <2>1. x \in RunStates /\ x.pc = s /\ x.graph = run[r].graph
          /\ x.attempt = run[r].attempt
      BY <1>2 DEF RunStates, AtWork
    <2>2. run' = [run EXCEPT ![r] = x]
      OBVIOUS
    <2> HIDE DEF x
    <2>3. StepsOf(x) < StepsOf(run[r])
      BY <1>1, <1>2, <2>1 DEF StepsOf
    <2>4. x.pc \in AtWork
      BY <2>1 DEF AtWork
    <2> QED
      BY <1>5, <2>1, <2>2, <2>3, <2>4
  <1>7. CASE RepairSucceeds(r)
    <2>1. run[r].pc = "repairing" /\ run[r].attempt < MaxRetries
      BY <1>7 DEF RepairSucceeds, IInv, RunsFit, RunFits
    <2> DEFINE x == [run[r] EXCEPT !.pc = "validating",
                                   !.attempt = run[r].attempt + 1]
    <2>2. run[r].attempt + 1 \in 0..MaxRetries
      BY <1>1, <1>2, <2>1
    <2>3. /\ x \in RunStates /\ x.pc = "validating" /\ x.graph = run[r].graph
          /\ x.attempt = run[r].attempt + 1
      BY <1>2, <2>2 DEF RunStates, AtWork
    <2>4. run' = [run EXCEPT ![r] = x]
      BY <1>7 DEF RepairSucceeds
    <2> HIDE DEF x
    <2>5. StepsOf(x) < StepsOf(run[r])
      BY <1>1, <1>2, <2>1, <2>3 DEF StepsOf
    <2>6. x.pc \in AtWork
      BY <2>3 DEF AtWork
    <2> QED
      BY <1>5, <2>3, <2>4, <2>5, <2>6
  <1> QED
    BY <1>4, <1>6, <1>7

LEMMA RunStepIsCloser ==
    ASSUME IInv, NEW r \in Runs, RunStep(r)
    PROVE  Closer
  <1>1. CASE GenerationFails(r) \/ RepairThrows(r) \/ ValidationThrows(r)
    <2>1. AtNode(r) /\ NoMishap
      BY <1>1 DEF GenerationFails, RepairThrows, ValidationThrows, AtNode, AtWork,
                  NoMishap
    <2> QED
      BY <1>1, <2>1, CatchIsCloser
         DEF GenerationFails, RepairThrows, ValidationThrows
  <1>2. CASE ValidationFails(r)
    <2>1. AtNode(r) /\ NoMishap
      BY <1>2 DEF ValidationFails, AtNode, AtWork, NoMishap
    <2> QED
      BY <1>2, <2>1, FailNodeIsCloser DEF ValidationFails
  <1>3. CASE CheckpointFails(r)
    BY <1>3, MishapIsCloser DEF CheckpointFails, IInv
  <1> QED
    BY <1>1, <1>2, <1>3, AcquireIsCloser, NodeStepIsCloser, CheckpointIsCloser
       DEF RunStep

(* A run that starts is no longer to start.                                *)
LEMMA StartIsCloser ==
    ASSUME IInv, NoMishap, NEW r \in Runs, NEW j, NEW graph, Start(r, j, graph)
    PROVE  Closer
  <1> DEFINE x == [pc |-> "acquiring", job |-> j, node |-> 1, graph |-> graph,
                   aborted |-> FALSE, attempt |-> 0]
  <1>1. run[r].pc = "unused" /\ run' = [run EXCEPT ![r] = x]
        /\ run \in [Runs -> RunStates]
    BY DEF Start, IInv, TypeOK
  <1>2. x.pc = "acquiring" /\ x.graph = graph
    OBVIOUS
  <1> HIDE DEF x
  <1>3. OnlyRun(r) /\ run'[r] = x
    BY <1>1 DEF OnlyRun
  <1>4. WorkOf(run[r]) = Nodes \cup {0} /\ WorkOf(x) \subseteq Nodes
    BY <1>1, <1>2 DEF WorkOf, AtWork, Unfinished
  <1>5. 0 \notin Nodes
    BY PlanAssumption DEF Nodes
  <1> QED
    BY <1>3, <1>4, <1>5, LessWorkIsCloser

LEMMA CancelIsNoFarther ==
    ASSUME IInv, NEW j \in Jobs, Cancel(j)
    PROVE  NoFarther
  <1>1. UNCHANGED <<retryCounts, restarts, writeErrors>>
    BY DEF Cancel
  <1>2. ASSUME NEW r \in Runs
        PROVE  /\ WorkOf(run'[r]) = WorkOf(run[r])
               /\ StepsOf(run'[r]) = StepsOf(run[r])
    <2>1. run[r] \in RunStates
      BY DEF IInv, TypeOK
    <2>2. run'[r] = run[r] \/ run'[r] = [run[r] EXCEPT !.aborted = TRUE]
      BY DEF Cancel
    <2>3. /\ run'[r].pc = run[r].pc /\ run'[r].graph = run[r].graph
          /\ run'[r].attempt = run[r].attempt
      BY <2>1, <2>2 DEF RunStates
    <2> QED
      BY <2>3 DEF WorkOf, StepsOf
  <1> QED
    BY <1>1, <1>2 DEF NoFarther, Mishaps, SameWork, SameRetries

(* Every step of the job pipeline but a cancellation brings its runs closer*)
(* to their end, and a cancellation does not put it off: the measure by    *)
(* which the loops of run() (jobService.ts) end although one scheduler's   *)
(* counters serve all runs and each commit resets them.  A commit resets a *)
(* counter only for less work; a failed write resets one for nothing, which*)
(* is why their number must be bounded.                                    *)
THEOREM EveryStepIsCloser ==
    Spec => [][Closer \/ ((\E j \in Jobs : Cancel(j)) /\ NoFarther)]_vars
  <1>1. IInv /\ [Next]_vars
           => [Closer \/ ((\E j \in Jobs : Cancel(j)) /\ NoFarther)]_vars
    <2> SUFFICES ASSUME IInv, Next, vars' # vars
                 PROVE  Closer \/ ((\E j \in Jobs : Cancel(j)) /\ NoFarther)
      OBVIOUS
    <2>1. CASE \E r \in Runs : RunStep(r)
      BY <2>1, RunStepIsCloser
    <2>2. ASSUME NEW j \in Jobs, NEW r \in Runs, Create(j, r) \/ Resume(j, r)
          PROVE  Closer
      <3>1. NoMishap /\ \E graph : Start(r, j, graph)
        BY <2>2 DEF Create, Resume, NoMishap
      <3> QED
        BY <3>1, StartIsCloser
    <2>3. ASSUME NEW j \in Jobs, Cancel(j)
          PROVE  NoFarther
      BY <2>3, CancelIsNoFarther
    <2>4. CASE Restart
      BY <2>4, MishapIsCloser DEF Restart, IInv
    <2> QED
      BY <2>1, <2>2, <2>3, <2>4 DEF Next, Request, AllQuiet
  <1> QED
    BY <1>1, IInvAlways, PTL DEF Spec
=============================================================================
