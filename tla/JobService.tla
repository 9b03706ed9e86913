----------------------------- MODULE JobService -----------------------------
(***************************************************************************)
(* The job pipeline: jobs/jobService.ts with the scheduler, the worker, the*)
(* validation pipeline and the commit manager it calls, the manifests it   *)
(* keeps on disk (jobs/manifestStore.ts) and the scan at start-up          *)
(* (jobs/recoveryManager.ts).                                              *)
(*                                                                         *)
(* A run is one execution of run(), started by create() or resume().  Runs *)
(* of several jobs, and of one job, live in one process and interleave at  *)
(* their awaits.  Manifests and project files survive a restart; runs, the *)
(* map of active jobs and the scheduler's counters do not.                 *)
(***************************************************************************)
EXTENDS ExecutionGraph

CONSTANTS
    Jobs,           \* the jobs that may be created
    Runs,           \* bound: how many runs there may be
    NoRun,          \* "activeJobs has no entry"
    MaxRetries,     \* config.generation.maxRepairAttempts
    Misnamed,       \* the nodes whose file may be written under another path
    Synthesised,    \* the paths a validator may add a file for
    MaxRestarts,    \* bound: how often the router restarts
    MaxWriteErrors  \* bound: how many writes of a manifest fail

Elsewhere == 0      \* a path that is not a node of the plan
Paths == Nodes \cup {Elsewhere}

(* Whose file a path holds: a node's, one that a validator added, or none. *)
NoFile == 0
Added == Files + 1
Contents == Nodes \cup {NoFile, Added}

ASSUME JobServiceAssumption ==
    /\ Jobs # {}
    /\ NoRun \notin Runs
    /\ MaxRetries \in Nat
    /\ Misnamed \subseteq Nodes
    /\ Synthesised \subseteq Paths
    /\ MaxRestarts \in Nat
    /\ MaxWriteErrors \in Nat

VARIABLES
    manifest,     \* the manifest of each job, on disk
    project,      \* what each path of the workspace of each job holds
    activeJobs,   \* the run whose AbortController is registered for each job
    retryCounts,  \* scheduler.retryCounts: one scheduler serves every job
    run,          \* the local state of each run
    restarts,
    writeErrors

vars == <<manifest, project, activeJobs, retryCounts, run, restarts,
          writeErrors>>

(* "absent": the job was never created.  The statuses nobody sets ("plan-  *)
(* ning", "generating"...) are left out; "pending" never outlives create().*)
JobStatuses == {"absent", "running", "completed", "failed", "cancelled"}
Manifests == [status : JobStatuses, committed : SUBSET Nodes,
              failed : SUBSET Nodes]

(* "over": the loop was left; "dead": the model could not be acquired, or  *)
(* the process died.                                                       *)
AtWork == {"acquiring", "generating", "validating", "repairing", "committing"}
RunStates == [pc : AtWork \cup {"unused", "over", "dead"}, job : Jobs,
              node : Nodes, graph : Graphs, aborted : BOOLEAN,
              attempt : 0..MaxRetries]

Live(r) == run[r].pc \in AtWork

TypeOK ==
    /\ manifest \in [Jobs -> Manifests]
    /\ project \in [Jobs -> [Paths -> Contents]]
    /\ activeJobs \in [Jobs -> Runs \cup {NoRun}]
    /\ retryCounts \in [Nodes -> Nat]
    /\ run \in [Runs -> RunStates]
    /\ restarts \in 0..MaxRestarts
    /\ writeErrors \in 0..MaxWriteErrors

FreshGraph == [n \in Nodes |-> "pending"]

Init ==
    /\ manifest = [j \in Jobs |->
                      [status |-> "absent", committed |-> {}, failed |-> {}]]
    /\ project = [j \in Jobs |-> [p \in Paths |-> NoFile]]
    /\ activeJobs = [j \in Jobs |-> NoRun]
    /\ retryCounts = [n \in Nodes |-> 0]
    /\ run = [r \in Runs |->
                 [pc |-> "unused", job |-> CHOOSE j \in Jobs : TRUE, node |-> 1,
                  graph |-> FreshGraph, aborted |-> FALSE, attempt |-> 0]]
    /\ restarts = 0
    /\ writeErrors = 0

-----------------------------------------------------------------------------
(* The loop of run() *)

FinalStatus(graph) ==
    IF With(graph, "failed") = Nodes THEN "failed" ELSE "completed"

(* Mutant: the end of a run clears the whole map of active jobs.           *)
LeaveAndClear(r, graph, m) ==
    /\ run' = [run EXCEPT ![r] = [@ EXCEPT !.pc = "over", !.graph = graph,
                                              !.attempt = 0]]
    /\ manifest' = [manifest EXCEPT ![run[r].job] =
                       [m EXCEPT !.status = FinalStatus(graph)]]
    /\ activeJobs' = [j \in Jobs |-> NoRun]

(* Run r leaves the loop: the status of the manifest is overwritten, and   *)
(* the job's entry in activeJobs is dropped, whoever owns it by now.       *)
Leave(r, graph, m) ==
    /\ run' = [run EXCEPT ![r] = [@ EXCEPT !.pc = "over", !.graph = graph,
                                              !.attempt = 0]]
    /\ manifest' = [manifest EXCEPT ![run[r].job] =
                       [m EXCEPT !.status = FinalStatus(graph)]]
    /\ activeJobs' = [activeJobs EXCEPT ![run[r].job] = NoRun]

(* Mutant: the loop does not look at the signal.                           *)
IterateUnlessDone(r, graph, m) ==
    IF Ready(graph) = {} THEN Leave(r, ResolveDeadlock(graph), m)
    ELSE LET n == NextPendingNode(graph) IN
         /\ run' = [run EXCEPT ![r] =
                       [@ EXCEPT !.pc = "generating", !.node = n,
                                 !.graph = [graph EXCEPT ![n] = "generating"],
                                 !.attempt = 0]]
         /\ manifest' = [manifest EXCEPT ![run[r].job] = m]
         /\ UNCHANGED activeJobs

(* The head of the loop, with the graph and the job's manifest as the last *)
(* iteration left them: stop, give up when nothing is ready (what is still *)
(* pending is skipped), or start a node.                                   *)
Iterate(r, graph, m) ==
    IF IsGraphComplete(graph) \/ run[r].aborted THEN Leave(r, graph, m)
    ELSE IF Ready(graph) = {} THEN Leave(r, ResolveDeadlock(graph), m)
    ELSE LET n == NextPendingNode(graph) IN
         /\ run' = [run EXCEPT ![r] =
                       [@ EXCEPT !.pc = "generating", !.node = n,
                                 !.graph = [graph EXCEPT ![n] = "generating"],
                                 !.attempt = 0]]
         /\ manifest' = [manifest EXCEPT ![run[r].job] = m]
         /\ UNCHANGED activeJobs

(* Mutant: a failure is not counted.                                       *)
FailNodeUncounted(r, before, m) ==
    /\ retryCounts' = [retryCounts EXCEPT ![run[r].node] = before]
    /\ Iterate(r, [run[r].graph EXCEPT ![run[r].node] = "pending"], m)

(* scheduler.onFailed() counts `before` + 1 failures of the node: it goes  *)
(* back to pending, or is given up with what depends on it.                *)
FailNode(r, before, m) ==
    LET n == run[r].node IN
    /\ retryCounts' = [retryCounts EXCEPT ![n] = before + 1]
    /\ Iterate(r,
               IF before + 1 <= MaxRetries
               THEN [run[r].graph EXCEPT ![n] = "pending"]
               ELSE MarkNodeFailed(run[r].graph, n),
               m)

(* The catch block of an iteration.                                        *)
Catch(r, graph, before, m) ==
    \/ /\ run[r].aborted
       /\ Leave(r, graph, m)
       /\ retryCounts' = [retryCounts EXCEPT ![run[r].node] = before]
    \/ /\ ~run[r].aborted
       /\ FailNode(r, before, m)

Own(r) == manifest[run[r].job]

-----------------------------------------------------------------------------
(* The steps of a run, from one await to the next *)

(* Mutant: a run that gets no model leaves the manifest as it is.          *)
AcquireFailsSilently(r) ==
    /\ run[r].pc = "acquiring"
    /\ run' = [run EXCEPT ![r].pc = "dead"]
    /\ activeJobs' = [activeJobs EXCEPT ![run[r].job] = NoRun]
    /\ UNCHANGED <<manifest, project, retryCounts, restarts, writeErrors>>

(* acquire() rejects: the job fails, and so does its run.                  *)
AcquireFails(r) ==
    /\ run[r].pc = "acquiring"
    /\ run' = [run EXCEPT ![r].pc = "dead"]
    /\ manifest' = [manifest EXCEPT ![run[r].job].status = "failed"]
    /\ activeJobs' = [activeJobs EXCEPT ![run[r].job] = NoRun]
    /\ UNCHANGED <<project, retryCounts, restarts, writeErrors>>

AcquireSucceeds(r) ==
    /\ run[r].pc = "acquiring"
    /\ Iterate(r, run[r].graph, Own(r))
    /\ UNCHANGED <<project, retryCounts, restarts, writeErrors>>

(* No file in the output, or the generation throws; it always throws when  *)
(* the run was aborted (ModelExecutor).                                    *)
GenerationFails(r) ==
    /\ run[r].pc = "generating"
    /\ Catch(r, run[r].graph, retryCounts[run[r].node], Own(r))
    /\ UNCHANGED <<project, restarts, writeErrors>>

GenerationSucceeds(r) ==
    /\ run[r].pc = "generating"
    /\ ~run[r].aborted
    /\ run' = [run EXCEPT ![r] =
                  [@ EXCEPT !.pc = "validating",
                            !.graph = [run[r].graph EXCEPT
                                          ![run[r].node] = "validating"]]]
    /\ UNCHANGED <<manifest, project, activeJobs, retryCounts, restarts,
                   writeErrors>>

(* Mutant: there is always an attempt left.                                *)
RepairStartsOnLast(r) ==
    /\ run[r].pc = "validating"
    /\ run[r].attempt <= MaxRetries
    /\ run' = [run EXCEPT ![r].pc = "repairing"]
    /\ UNCHANGED <<manifest, project, activeJobs, retryCounts, restarts,
                   writeErrors>>

(* The file has errors, and attempts are left: it is repaired.             *)
RepairStarts(r) ==
    /\ run[r].pc = "validating"
    /\ run[r].attempt < MaxRetries
    /\ run' = [run EXCEPT ![r].pc = "repairing"]
    /\ UNCHANGED <<manifest, project, activeJobs, retryCounts, restarts,
                   writeErrors>>

(* A repaired file is validated again.                                     *)
RepairSucceeds(r) ==
    /\ run[r].pc = "repairing"
    /\ ~run[r].aborted
    /\ run' = [run EXCEPT ![r] = [@ EXCEPT !.pc = "validating",
                                          !.attempt = run[r].attempt + 1]]
    /\ UNCHANGED <<manifest, project, activeJobs, retryCounts, restarts,
                   writeErrors>>

(* The generation of a repair throws; it always does in an aborted run.    *)
RepairThrows(r) ==
    /\ run[r].pc = "repairing"
    /\ Catch(r, run[r].graph, retryCounts[run[r].node], Own(r))
    /\ UNCHANGED <<project, restarts, writeErrors>>

(* The file is in error at its last attempt, or a repair returned no file. *)
(* The failure is recorded whether or not the node will be retried.        *)
ValidationFails(r) ==
    /\ \/ run[r].pc = "validating" /\ run[r].attempt = MaxRetries
       \/ run[r].pc = "repairing" /\ ~run[r].aborted
    /\ FailNode(r, retryCounts[run[r].node],
                [Own(r) EXCEPT !.failed = @ \cup {run[r].node}])
    /\ UNCHANGED <<project, restarts, writeErrors>>

(* Mutant: the validator's files are written over what is there by now.    *)
Overwriting(j, extras) == extras

(* Of the files a validator added, those whose path is free when it is     *)
(* done: another run may have committed a file there meanwhile.            *)
Missing(j, extras) == {p \in extras : project[j][p] = NoFile}

WithExtras(j, extras) ==
    [p \in Paths |-> IF p \in Missing(j, extras) THEN Added ELSE project[j][p]]

(* The validation throws, or the commit after it, when the validator's own *)
(* files have been written.                                                *)
ValidationThrows(r) ==
    /\ run[r].pc = "validating"
    /\ Catch(r, run[r].graph, retryCounts[run[r].node], Own(r))
    /\ \E extras \in SUBSET Synthesised :
          project' = [project EXCEPT ![run[r].job] = WithExtras(run[r].job, extras)]
    /\ UNCHANGED <<restarts, writeErrors>>

(* The file passes, cancelled or not: what the validator added is written, *)
(* and then the file itself, under the path its output block, its repair   *)
(* or the validator gave it, over whatever that path held.                 *)
ValidationPasses(r) ==
    /\ run[r].pc = "validating"
    /\ \E p \in IF run[r].node \in Misnamed THEN Paths ELSE {run[r].node},
          extras \in SUBSET Synthesised :
          project' = [project EXCEPT ![run[r].job] =
                         [WithExtras(run[r].job, extras) EXCEPT ![p] = run[r].node]]
    /\ run' = [run EXCEPT ![r].pc = "committing"]
    /\ UNCHANGED <<manifest, activeJobs, retryCounts, restarts, writeErrors>>

(* Mutant: a checkpoint writes the run's own progress over the manifest's. *)
CheckpointOverwrites(r) ==
    LET graph == [run[r].graph EXCEPT ![run[r].node] = "committed"] IN
    /\ run[r].pc = "committing"
    /\ retryCounts' = [retryCounts EXCEPT ![run[r].node] = 0]
    /\ Iterate(r, graph, [Own(r) EXCEPT !.committed = With(graph, "committed")])
    /\ UNCHANGED <<project, restarts, writeErrors>>

(* Only microtasks separate this from the write; a crash may.              *)
Checkpoint(r) ==
    /\ run[r].pc = "committing"
    /\ retryCounts' = [retryCounts EXCEPT ![run[r].node] = 0]
    /\ Iterate(r, [run[r].graph EXCEPT ![run[r].node] = "committed"],
               [Own(r) EXCEPT !.committed = @ \cup {run[r].node}])
    /\ UNCHANGED <<project, restarts, writeErrors>>

(* checkpoint(), or recordAttempt() after it, cannot write the manifest:   *)
(* the counter has been reset, and the committed node counts as failed.    *)
CheckpointFails(r) ==
    /\ run[r].pc = "committing"
    /\ writeErrors < MaxWriteErrors
    /\ writeErrors' = writeErrors + 1
    /\ \E written \in {{}, {run[r].node}} :
          Catch(r, [run[r].graph EXCEPT ![run[r].node] = "committed"], 0,
                [Own(r) EXCEPT !.committed = @ \cup written])
    /\ UNCHANGED <<project, restarts>>

-----------------------------------------------------------------------------
(* The routes, and the restart *)

(* run() up to its first await, on behalf of job j.                        *)
Start(r, j, graph) ==
    /\ run[r].pc = "unused"
    /\ run' = [run EXCEPT ![r] = [pc |-> "acquiring", job |-> j, node |-> 1,
                                  graph |-> graph, aborted |-> FALSE,
                                  attempt |-> 0]]
    /\ activeJobs' = [activeJobs EXCEPT ![j] = r]
    /\ manifest' = [manifest EXCEPT ![j].status = "running"]

Create(j, r) ==
    /\ manifest[j].status = "absent"
    /\ Start(r, j, FreshGraph)
    /\ UNCHANGED <<project, retryCounts, restarts, writeErrors>>

(* Mutant: resume() takes what failed for committed.                       *)
RestoredAllDone(j) ==
    [n \in Nodes |-> IF n \in manifest[j].committed \cup manifest[j].failed
                     THEN "committed" ELSE "pending"]

(* Mutant: resume() mistakes the failed nodes for the skipped ones.        *)
RestoredSwapped(j) ==
    [n \in Nodes |-> IF n \in manifest[j].committed THEN "committed"
                     ELSE IF n \in manifest[j].failed THEN "skipped"
                     ELSE "pending"]

(* The graph resume() restores.  progress.skipped is never written.        *)
Restored(j) ==
    [n \in Nodes |-> IF n \in manifest[j].committed THEN "committed"
                     ELSE IF n \in manifest[j].failed THEN "failed"
                     ELSE "pending"]

Resume(j, r) ==
    /\ manifest[j].status # "absent"
    /\ Start(r, j, Restored(j))
    /\ UNCHANGED <<project, retryCounts, restarts, writeErrors>>

Cancel(j) ==
    /\ manifest[j].status # "absent"
    /\ run' = [r \in Runs |-> IF r = activeJobs[j]
                              THEN [run[r] EXCEPT !.aborted = TRUE] ELSE run[r]]
    /\ activeJobs' = [activeJobs EXCEPT ![j] = NoRun]
    /\ manifest' = [manifest EXCEPT ![j].status = "cancelled"]
    /\ UNCHANGED <<project, retryCounts, restarts, writeErrors>>

(* ManifestStore.listAll() of a store opened on a directory: the jobs whose*)
(* manifest is in a subdirectory of it.                                    *)
ListAll(dir) ==
    IF dir = "runtime.root/jobs"
    THEN {j \in Jobs : manifest[j].status # "absent"} ELSE {}

(* What the scan at start-up resumes: index.ts opens its store on          *)
(* runtime.root, not on the directory of the job service.                  *)
Interrupted ==
    {j \in ListAll("runtime.root") : manifest[j].status = "running"}

(* The process dies and is started again; the scan runs before any request.*)
Restart ==
    /\ restarts < MaxRestarts
    /\ restarts' = restarts + 1
    /\ retryCounts' = [n \in Nodes |-> 0]
    /\ \E by \in [Interrupted -> {r \in Runs : run[r].pc = "unused"}] :
          /\ \A i, j \in Interrupted : by[i] = by[j] => i = j
          /\ run' = [r \in Runs |->
                       IF Live(r) THEN [run[r] EXCEPT !.pc = "dead"]
                       ELSE IF \E j \in Interrupted : by[j] = r
                       THEN LET j == CHOOSE j \in Interrupted : by[j] = r IN
                            [pc |-> "acquiring", job |-> j, node |-> 1,
                             graph |-> Restored(j), aborted |-> FALSE,
                             attempt |-> 0]
                       ELSE run[r]]
          /\ activeJobs' = [j \in Jobs |->
                              IF j \in Interrupted THEN by[j] ELSE NoRun]
    /\ UNCHANGED <<manifest, project, writeErrors>>

-----------------------------------------------------------------------------
RunStep(r) ==
    \/ AcquireFails(r) \/ AcquireSucceeds(r)
    \/ GenerationFails(r) \/ GenerationSucceeds(r)
    \/ RepairStarts(r) \/ RepairSucceeds(r) \/ RepairThrows(r)
    \/ ValidationFails(r) \/ ValidationThrows(r) \/ ValidationPasses(r)
    \/ Checkpoint(r) \/ CheckpointFails(r)

Request(j) ==
    \/ \E r \in Runs : Create(j, r) \/ Resume(j, r)
    \/ Cancel(j)

(* No run is left to do anything: the bounded instance may stop.           *)
AllQuiet == /\ \A r \in Runs : run[r].pc \in {"over", "dead"}
            /\ UNCHANGED vars

Next ==
    \/ \E r \in Runs : RunStep(r)
    \/ \E j \in Jobs : Request(j)
    \/ Restart
    \/ AllQuiet

(* Generations, validations and loads settle; clients and crashes are free.*)
Fairness == \A r \in Runs : WF_vars(RunStep(r))

Spec == Init /\ [][Next]_vars /\ Fairness

-----------------------------------------------------------------------------
(* Properties *)

(* A checkpointed node has all its dependencies checkpointed, whatever was *)
(* retried, given up, cancelled, resumed twice at once or lost in a crash: *)
(* resume() may trust progress.committed.                                  *)
CheckpointIsClosed ==
    \A j \in Jobs : \A n \in manifest[j].committed :
        DependsOn[n] \subseteq manifest[j].committed

(* The nodes whose path holds their own file, or the file of a misnamed    *)
(* node that was written over it: never nothing, never a validator's file, *)
(* never the file of another node that is named as it should be.           *)
Written(j) == {n \in Nodes : project[j][n] \in {n} \cup Misnamed}

(* "Checkpoint only after successful commit" (manifestStore.ts): the path  *)
(* of a checkpointed node holds what that node's validation let through,   *)
(* not what the validation of another, of this run or of another, put      *)
(* there.  Two things are let pass, both because the single block of an    *)
(* output is kept whatever its path (generationEngine.ts): a misnamed node *)
(* may have no file at its own path, and its block may have replaced the   *)
(* file of another node.                                                   *)
CheckpointedIsWritten ==
    \A j \in Jobs : manifest[j].committed \ Misnamed \subseteq Written(j)

(* The validated files of a job: what the validators added counts as none. *)
Validated(j) ==
    [p \in Paths |-> IF project[j][p] = Added THEN NoFile ELSE project[j][p]]

(* To whoever resumes a job, its manifest and files are DurableProgress,   *)
(* however its runs failed, overlapped, were cancelled or died: a crash    *)
(* between the write and the checkpoint, or in the checkpoint, loses work  *)
(* but takes back nothing that is on disk.                                 *)
Progress ==
    INSTANCE DurableProgress
    WITH committed <- [j \in Jobs |-> manifest[j].committed],
         files <- [j \in Jobs |-> Validated(j)]

ImplementsDurableProgress == Progress!SafeSpec

(* A node is generated, validated or committed only on top of dependencies *)
(* that are checkpointed and, but for misnamed ones, whose paths hold what *)
(* Written says ("Next node ready to generate (deps committed)",           *)
(* scheduler.ts).                                                          *)
WorkRestsOnCommitted ==
    \A r \in Runs : run[r].pc \in AtWork \ {"acquiring"} =>
        DependsOn[run[r].node]
            \subseteq Own(r).committed \cap (Written(run[r].job) \cup Misnamed)

(* A run gives up only what it must: a skipped node has a dependency that  *)
(* failed or was skipped.                                                  *)
SkippedForAReason ==
    \A r \in Runs : \A n \in With(run[r].graph, "skipped") :
        \E d \in DependsOn[n] : run[r].graph[d] \in {"failed", "skipped"}

(* A run that was not cancelled leaves its loop with every node committed, *)
(* failed or skipped.                                                      *)
EndedRunsAreComplete ==
    \A r \in Runs : run[r].pc = "over" /\ ~run[r].aborted =>
        IsGraphComplete(run[r].graph)

(* A cancelled run starts no further node.                                 *)
AbortedRunStartsNothing ==
    [][\A r \in Runs : run[r].aborted /\ run'[r].pc = "generating" =>
          run[r].pc = "generating" /\ run'[r].node = run[r].node]_vars

(* Every run ends: failures are retried a bounded number of times, even    *)
(* though the counters are shared by the runs and reset by each commit.    *)
EveryRunEnds == \A r \in Runs : Live(r) ~> ~Live(r)

(* A manifest says "running" only while some run is at work on the job; if *)
(* the router restarts, because the scan resumes it ("on startup, scan     *)
(* manifests and resume interrupted jobs", recoveryManager.ts).            *)
RunningJobsHaveARun ==
    \A j \in Jobs : manifest[j].status = "running" =>
        \E r \in Runs : Live(r) /\ run[r].job = j

(* cancel() reaches the run at work on a job for which no second run was   *)
(* ever started.                                                           *)
SoleRunIsCancellable ==
    \A r \in Runs :
        /\ Live(r) /\ ~run[r].aborted
        /\ \A q \in Runs \ {r} : run[q].pc = "unused" \/ run[q].job # run[r].job
        => activeJobs[run[r].job] = r
=============================================================================
