# A TLA+ model of the CodeCrab router

CodeCrab is a fork of VS Code (`vscode/`) with a local model router (`router/`), a Node process that serves chat requests
and generation jobs from models loaded into one GPU. The editor is vendored but for a contribution and a supervisor; the
program's own logic is `router/src`, and nearly all that is modelled here; the rest is the supervisor and the file watcher
in the editor's tree. This directory holds TLA+ modules translated from it,
TLC configurations that check them on small instances, and proofs checked by TLAPS.

Paths below are relative to `src/router/src` unless they say otherwise.

## 1. The system

The router is one JavaScript thread. Its concurrency is that of promises: a handler runs until it awaits, microtasks run
when it does, and any event - a request, a closed connection, a timer, a finished load - may come in before it goes on. An
action of every module below is therefore *what runs between two awaits*, with the microtasks it queues when their order
matters.

| Component | State | Operations | Talks to | What makes it correct |
|---|---|---|---|---|
| Chat request slot (`server/requestMutex.ts`) | flag, queue of waiters, active controller | acquire, release, abort route | every chat handler | one request at a time, first come first served, never lost, abort reaches the running one |
| Request lifecycle (`server/requestLifecycle.ts`) | controller, timer, listeners, cleaned flag | begin, abort, timeout, cleanup | slot, handler | four things happen on every exit path |
| Chat handler (`index.ts`, `chat/*`) | llama context, phase | prepare, incremental branch, phases, fallback | legacy model manager, incremental engine, tools | every exit goes through cleanup; contexts are disposed |
| Model manager of the job pipeline (`models/modelManager.ts`, `modelLease.ts`, `vramBudget.ts`) | resident map, load lock, use counter | init, acquire, evict, load, release | jobs | VRAM budget, no double load, serialised loads that always hand over, LRU |
| Legacy model manager (`models/legacyModelManager.ts`) | the same, an idle timer, active model | the same, unloadAll | chat handler | budget, LRU, an active model that is resident, no model forgotten by the idle timer |
| Execution graph, scheduler (`planning/*`, `scheduling/scheduler.ts`) | node statuses, retry counters | next, onCommitted, onFailed, resolveDeadlock | job service | only nodes on committed dependencies run; a run always ends |
| Job service (`jobs/*`, `commits/*`, `generation/worker.ts`) | manifests on disk, active jobs, runs | create, run, cancel, resume, scan at start-up | all of the above | checkpoints closed and behind the disk; crash recovery; cancel |
| Validation pipeline, repair (`validation/*`, `validator.ts`, `repairEngine.ts`) | attempts, extra files | validate, repair | job service, incremental engine | bounded repairs; nothing unvalidated is committed |
| Incremental engine (`incrementalEngine.ts`, `pipelineState.ts`, `generationManifest.ts`, `workspaceSnapshot.ts`) | node statuses, state machine, manifest, snapshot | generate, validate, repair, commit, project phase | chat handler | the machine follows the phases; the manifest names what was written; the loop ends |
| Shadow chat route (`router/chatRoutes.ts`, mounted at `/shadow`) | its own context and session | the older chat handler: compaction, hand-off to the frontend | slot, legacy model manager | takes turns with the live route; contexts are disposed |
| Pending edits (`tools/toolEngine.ts`, `router/editRoutes.ts`) | pending sessions | create, accept, reject, expire | editor | (nothing creates a session, see section 6) |
| Retrieval index (`rag.ts`, `router/ragRoutes.ts`, the editor's `codecrabRagWatcher.ts`) | one table per workspace | index, update, delete, sync, retrieve | chat handler, file watcher | one copy of each file; a sync takes only what is gone |
| Artifact hand-off (`rag/artifact.ts`) | files in a session cache | write, load, delete, cleanup | phases | no artifact survives its request |
| Router supervisor (`vscode/src/vs/code/electron-main/codecrabRouterSupervisor.ts`) | promise of the launch, router process | probe, spawn, wait | router over HTTP, `main.ts` | one router however many editors, and it outlives them |
| Prompts, briefs, routing, parsing | none | pure text | | |

The hard behaviours are the ones of the table's middle: handlers that overlap at awaits, four kinds of abort, several exits
per handler, state read before an await and used after it, crashes between a file and its checkpoint, runs of one job
that overlap. `PROJECT.json` lists them one by one under "hazards", each at its line, with the properties that cover it.

## 2. The modules

| Module | Models | Role |
|---|---|---|
| `ChatRequests` | slot, lifecycle, chat handler | component |
| `ExclusiveSlot` | what the slot promises | abstract specification |
| `MCChatRequests` | | instance for TLC |
| `ChatRequestsProofs` | | TLAPS proofs about `ChatRequests` and `ShadowRoute` |
| `ShadowRoute` | shadow chat route beside the live one | component over `ChatRequests` |
| `MCShadowRoute` | | instance for TLC |
| `VramBudget` | `vramBudget.ts`, keys of intents | operators of both managers |
| `ModelManager` | model manager of the job pipeline | component |
| `MCModelManager` | | instance for TLC |
| `ModelManagerProofs` | | TLAPS proofs about `ModelManager` |
| `LegacyModelManager` | model manager of the chat route, idle timer | component |
| `MCLegacyModelManager` | | instance for TLC |
| `LegacyModelManagerProofs` | | TLAPS proofs about `LegacyModelManager` |
| `ExecutionGraph` | plan, ready nodes, failure propagation | operators on node statuses |
| `ExecutionGraphProofs` | | TLAPS lemmas about these operators |
| `JobService` | job loop, scheduler counters, manifests, restart | component over `ExecutionGraph` |
| `DurableProgress` | what is on disk, to whoever resumes a job | abstract specification |
| `MCJobService` | | plans for TLC |
| `JobServiceProofs` | | TLAPS proofs about `JobService` |
| `IncrementalEngine` | engine, state machine, manifest | component over `ExecutionGraph` |
| `MCIncrementalEngine` | | a plan for TLC |
| `IncrementalEngineProofs` | | TLAPS proofs about `IncrementalEngine` |
| `RagIndex` | retrieval index, its routes, the file watcher | component |
| `MCRagIndex` | | instance for TLC |
| `RagIndexProofs` | | TLAPS proofs about `RagIndex` |
| `RouterSupervisor` | supervisor, launches of the editor, router processes | component |
| `MCRouterSupervisor` | | instance for TLC |
| `RouterSupervisorProofs` | | TLAPS proofs about `RouterSupervisor` |

Definitions whose comment starts with "Mutant:" are not part of the specifications: each is a plausible mistake in the
code, used to show that a property notices it (`PROJECT.json`, "mutants").

### ChatRequests

`requestInFlight`, `requestQueue` and `activeController` are the module variables of `requestMutex.ts`, with a request
standing for its resolver and for its controller. `phase` is where the handler of a request stands:

    new -> rejected                              503 during a model swap
    new -> queued -> preparing                   slot busy, or
    new -> preparing                             slot free: acquireRequestSlot() + beginRequest()
    preparing -> acquiring | incremental         prepareRequest() returned
    incremental -> catching -> acquiring         the incremental branch threw; its context is disposed
    acquiring -> generating (-> acquiring -> generating)     runSpecialistPhase(), once or twice
    any of these -> (cleaning ->) finished       return or throw, then cleanup()
    incremental, catching -> abandoned           the exit that calls releaseSlot() itself

`Release(r, n, exit)` is the leaving of `r` with `n` calls of its release function: `n` is 1 everywhere but on the last
exit, where it is 2 (`index.ts:638` and then `cleanup()`). A waiter that is started and its `beginRequest()` are part of
the release: its continuation is a microtask, and no event can run before it. `cleanup()` is one step when there is no
context to dispose and two when there is. `Disconnect`, `Timeout` and `AbortRoute` only set `aborted`: the handler looks
at the signal in two places (the head of a generation loop and the catch block), and otherwise may go on, so a handler
step never depends on it elsewhere.

`ExclusiveSlot` is what a handler may rely on: a holder, a queue, the requests that have asked. `Slot` in `ChatRequests`
maps the nine variables of the handler onto it. The slot that the code implements is exclusive only as long as nobody
calls its release function twice; the specification says so with `Break`, which a request of `Twice` (the ones that may
take the incremental branch) can take and after which nothing is promised. `ImplementsExclusiveSlot` is the refinement,
fairness included.

### ShadowRoute

`chatRoutes.ts` is the chat handler of before `requestLifecycle.ts`, still mounted at `/shadow`. It EXTENDS `ChatRequests`:
a request of `Shadows` arrives, queues, is aborted and gets the slot by the same actions and takes the same incremental
branch, but runs `ShadowStep` instead of `HandlerStep`. `phase` is shared; "catching" stands for every awaited disposal of
the try block, `disposeFor` for its reason: the incremental branch failed, three quarters of the context are used
(compaction), the backend hands over to the frontend, or the frontend is not needed. `opened` counts the contexts a handler
has created and not disposed, `sessionLive` says whether the session it prompts belongs to the context it has. Its
`finally` block disposes and then releases; if the disposal is rejected, the release never happens (`leaked`).

### ModelManager

`resident`, `lastUsed`, `useCounter`, `loading` and `maxResident` are the fields of the class; `lockQueue` is the chain of
promises on `loadLock`, its head the caller whose load function runs; `pc` and `want` are the callers' local state;
`leaseLive` says whether the model a caller's lease points to has been disposed, `result` how its last `acquire()` ended.
`Settle` is the one delicate step. When a load function settles, two reactions are queued: the one that resolves the lock,
registered first, and the one that resumes the caller. So the next waiter's load function runs up to its first await -
deletion of the model it evicts included - *before* the caller reads `this.resident.get(key)!`. A waiter that finds its
model resident returns at once: it is in state "returning", during which no event runs (`Returning`).

### LegacyModelManager

The same lock and eviction as `ModelManager`, and what that one lacks. `cache` is the record of the class's fields, so that
its synchronous helpers (`Used`, `Disposed`, `MakeRoom`...) are functions of it that compose as the code composes them.
`Unload` is the loop of `unloadAll()` up to its next await: it visits the keys that were resident when the timer fired
(`toUnload`), passes over those that have gone and disposes the rest, loaded again since or not; at its end the active key
is cleared, whatever was acquired meanwhile. It takes no lock, so `IdleFires` and `DisposalDone` come between any two steps
of a load. A request holds its model in pc "using"; its own timeout, as long as the idle timer and set before it, has
aborted it (`timedOut`) before the idle timer of its `acquire()` can fire. `live` says whether its model is still there.

### ExecutionGraph and JobService

A node is its index in `graph.nodes`; a graph is a function from nodes to statuses. The order of the nodes is that of the
plan and need not be topological: a route and a middleware that it imports are of one stage and are ordered by module
name. What is assumed of a plan is `PlanAssumption`: it is acyclic, since `LAYER_IMPORTS` is. `Skipped` says what the recursive walk
of `markNodeFailed()` reaches without recursion: the pending nodes that are in every set of pending nodes which the walk,
started at the failed node, cannot leave.

`manifest` and `project` are on disk and survive `Restart`; `activeJobs`, `retryCounts` and `run` do not. A run is one
execution of `run()`; its `pc` says what it awaits. `Iterate` is the head of the loop, called at the end of every step
that goes back to it; `Leave` is what follows the loop - the final status and the deletion from `activeJobs`, whoever is
registered. The write of a file (`ValidationPasses`) and its checkpoint are separate steps so that a crash can come between
them. `Interrupted` is the set the start-up scan resumes; as `index.ts` opens the scan's store on another directory, the
set is always empty, and the part of `Restart` that would start runs is there for the day it is not.

`ValidationPipeline.validate()` is part of the run: it alternates between "validating" and "repairing", `attempt` counts the
repairs that returned a file, and the last attempt has none. A run aborted while it validates may still pass, and is then
written and checkpointed; a repair of an aborted run throws. When a file passes, the files that the validator has added to it
are written first, straight into the workspace. The validator looks for free paths before its awaits and the pipeline looks
again when it writes (`Missing`, `WithExtras`); what it may add is any subset of `Synthesised`.

`project` says whose file each path holds: a node's, one that a validator added (`Added`), or none. A node of `Misnamed` may
have its file written under another path, over whatever is there: the only block of its output has one
(`generationEngine.ts:40`), or the only block of its repair (`validationPipeline.ts:90`), or the validator normalised it
(`validator.ts:200`). `Written` are the nodes whose path holds their own file or a misnamed node's. `CheckpointedIsWritten`
and `WorkRestsOnCommitted` say that checkpointed nodes are among them, the misnamed ones excepted: where the file of a
correctly named node belongs there is never nothing, never a validator's file and never the file of another correctly named
node, but there may be the block of a misnamed one. Nothing in the code prevents that replacement, and the properties claim
no more.

`DurableProgress` is what a resumed job may rely on: `files`, whose validated file each path holds, and `committed`, the
checkpointed nodes, which only grow. A file is written at its node's path, or anywhere if the node is misnamed; a checkpoint
comes after the file and on top of checkpointed dependencies. It knows nothing of runs, statuses, retries, cancellations or
restarts, nor of the validator's files. `Progress` in `JobService` maps `Validated` - `project` without what the validators
added - and `progress.committed` of each manifest onto it (`ImplementsDurableProgress`): every failure, crash and overlap is
a step of it or a stutter. That checkpoints are closed under dependencies (`CheckpointIsClosed`) follows.

### IncrementalEngine

`runIncrementalEngine()` is sequential: `pc` says which of its awaits it is at, and only `Abort` comes in between. `graph` is
the status of each node, `machine` the state of the `PipelineStateMachine`, which every action moves by `SafeTransition`,
the table and its silent refusals included; `manifest` is the file the engine keeps, `disk` what exists. What a model
answers is any path (`file'`), what a validator finds anything. Some facts of the code show in the shape of the actions:
issues that no repair resolves are committed all the same (`Repaired`), the repair of a project only counts
(`ProjectRepair`), an aborted run with pending nodes ends as "done" unless a file failed (`Finalize`), and an exception
leaves the manifest as it is (`Throw`).

### RagIndex

The routes of the index wait for nobody else's work: `op` holds the operations in flight, each with the place
(`pc`) of its next call of the database and what it has read. The content of a file is the number of its save; `rows` is
what the table holds of each file, so that a file is there twice when its sequence has two entries. `disk` is the workspace,
`reported` the deletions that the editor's watcher has collected and not yet sent, which `ReportLost` loses as its `catch`
does. An update may carry any earlier content (`PostUpdate`): nothing orders the requests of a client
(`updateIndexedFile()`, the editor's own, has no caller yet; the route is there for any other).
`Restart` keeps the table only. `overlapped` remembers that two writing operations were ever in flight at once.
`SyncTakesOnlyGhosts` is about the await between the check of a sync and its deletion: a file that was gone may be saved in
between, but what the sync then deletes are still chunks of its earlier contents, because only a writing operation could have
added the new one. A sync that went by the watcher's reports instead (its mutant) would delete chunks of files re-created
since.

### RouterSupervisor

`editor` is the main process of each launch, `ensure` its `ensureRouterRunning()`, `router` the process it spawned, which
is detached and outlives it. A probe that finds nobody spawns, or is "offline" when there is no router to start; a second
router loses the port and exits (`Listen`), a boot may fail or take longer than the deadline, and a router that listens may
crash. A launch that is not the first instance hands over and quits, with what it was waiting for.

## 3. The runs

| Run | Instance | Shows |
|---|---|---|
| `chat` | 3 requests, 2 of which may create | safety and liveness of the slot and the lifecycle; the handler implements `ExclusiveSlot` |
| `chat_overlap` | 3 requests, violation of `OneAtATime` | a double release starts two requests |
| `shadow` | 1 request at the live route, 2 at `/shadow`, 2 compactions | contexts, abort and service of two routes at one slot |
| `models` | 3 callers, 3 keys, every band of VRAM, 2 uses before the last calls | safety and liveness of the job pipeline's cache |
| `legacy` | 2 requests, 3 keys, every band, 4 uses | the chat route's cache under its idle timer |
| `legacy_idle` | 1 request, violation of `ModelInUseStaysLoaded` | the idle unloading disposes a model in use |
| `jobs` | 1 job, 3 nodes, 1 of them misnamed and 1 synthesised, 2 overlapping runs, 1 restart, 1 failed write | refinement of `DurableProgress`, order of work, ends of runs |
| `jobs_shared` | 2 jobs, 2 nodes, 2 runs, 1 failed write, no restart | termination with shared counters, status, cancel |
| `jobs_crash` | 1 job, 1 restart, violation of `RunningJobsHaveARun` | an interrupted job is not resumed |
| `engine` | 4 nodes: a chain of three and one alone | machine, manifest, final statuses, end of the engine |
| `rag` | 2 files, 2 operations in flight, 2 saves of each file | one copy of a file; a sync takes only what is gone |
| `supervisor` | 3 launches, 1 crash | the router outlives the editors; one is left; every launch settles |

**Why the bounds are enough.** The double release needs one request that leaves and two that wait: three requests, which
is also the least at which order among waiters is visible. Two of the three may create, so that both kinds of exit occur
beside a request of the other kind. In `models`, three callers give a running load, a waiter and a lease holder at once,
and as many callers as keys, so that every budget from 1 to 3 can be full; `MaxUses` bounds when calls may start, and
callers already under way go on past it, which lets a model be loaded, leased again and outlive another (the case
the LRU order is about). In `jobs`, three nodes are the least with a node that has two dependencies, of which one comes
after its dependent in the plan; two runs are the least that overlap; `MaxRetries` is 1, so that a node is both retried
and given up. `jobs_shared` swaps the third node and the restart for a second job. The misnamed node is the one two others rest on;
the synthesised one comes first in the plan and waits for it, so that the validation of the misnamed node, of the same run or
of the other, may add its file before, while or after it is committed.
`MaxRetries` bounds the repairs too, as the code has one number for both, so each attempt has its repair and its failure.
In `shadow`, one of the shadow's requests may take the incremental branch, and two compactions are enough for one before
and one after the session was last assigned. `legacy` has one request fewer than `models` and two more uses, which is what
the timer needs: a model loaded, kept, unloaded and loaded again while another request waits. In `engine` a chain of three
lets a failure skip through a node in between, while the fourth node goes on; which nodes the planner found done, which
files exist and what the models answer are all free. In `rag` two operations of any kinds are the least that overlap, two
saves the least that can arrive out of order. In `supervisor` three launches let one quit, one win and one lose the port.

`MaxRestarts` and `MaxWriteErrors` bound crashes and failing writes. Without the second bound a manifest write that fails
each time would make the loop endless, as `onCommitted()` has already reset the retry counter: the code has no bound there.

**Fairness.** `ChatRequests`: each handler that holds the slot eventually takes its next step, since whatever it awaits -
a load, a generation, a disposal - settles; clients, timers and the abort route owe nothing. `ModelManager`: the engine
starts or fails, and each call makes progress; nobody has to call or to release a lease. `JobService`: each run makes
progress, whatever the outcome; requests and crashes are free. `ShadowRoute`: as `ChatRequests`, on both routes.
`LegacyModelManager`: the engine, each call and the timer make progress, and a request that uses a model times out and, timed
out, ends (`RequestTimeout` is the code's own timer, so its fairness is the code's); nobody owes a call. `IncrementalEngine`:
whatever it awaits settles. `RouterSupervisor`: a probe answers or times out, the deadline of the wait comes, a boot
ends; users and crashes are free. `RagIndex` has no liveness property and no fairness.

**Deadlock** is checked in every run. The bounded instances end in a stuttering action (`AllOver`, `AllIdle`, `AllQuiet`,
`Stopped`, `Over`) enabled only when nobody has anything left to do; `Stopped` also when a leaked slot leaves the others
queued for ever, which is what the code does then.

## 4. What disagrees with the repository's own words

Three disagreements are runs, with TLC's counterexample:

1. *Two chat requests at once* (`chat_overlap`). `requestMutex.ts` promises one. The exit at `index.ts:638` releases the
   slot and the `finally` block releases it again. What holds is `OneAtATimeUnlessAbandoned`.
2. *A model disposed under its request* (`legacy_idle`). `requestMutex.ts:6` says the queue prevents it; the idle timer's
   `unloadAll()` is not in the queue.
3. *Recovery that recovers nothing* (`jobs_crash`). The start-up scan opens its store on another directory.

The others were met while modelling. The models contain the behaviour, and the properties are stated so that they hold
beside it:

- *Contexts that are never disposed* (`chat/phaseRunner.ts:220`). Item 3 of `requestLifecycle.ts` holds for the handler's own
  `context`, which only the incremental branch sets; the context of each phase is local to `runSpecialistPhase`
  (`phaseContexts`).
- *A client gone while queued* (`index.ts:380`). Its listeners do not exist yet, so it is generated for.
- *Leases do not lock* (`models/modelManager.ts:147`). `modelLease.ts:4` says a leased model cannot be unloaded; nothing
  records leases. And *a load that succeeds and throws* (`:194`), by the order of microtasks explained above. Neither happens
  on a card that holds every model: `LeasesHoldWhereAllFit`.
- *Two managers on one card* (`index.ts:851`). The chat route's and the job pipeline's share no state and each takes the
  whole budget; `VramWithinBudget` bounds each.
- *A checkpoint without its file* (`generation/generationEngine.ts:40`). The filter on generated files keeps a single block
  whatever its path (`Misnamed`). The block of such a node also replaces the file of a checkpointed node whose path it bears
  (`commits/commitManager.ts:42`): `Written` lets that pass, and only that.
- *Files committed by no commit* (`validation/validationPipeline.ts:66`). `commits/commitManager.ts:3` says it is the only subsystem
  that may modify project files; what the validator adds is written by the pipeline, with no backup and no validation of its
  own. It never replaces a committed file (`CheckpointedIsWritten`).
- *The status `cancelled` is overwritten* when the cancelled run ends (`Leave`), and a job resumed while a run of it is alive
  has one run that `cancel()` cannot reach (`SoleRunIsCancellable` says when it can).
- *A machine that does not end* (`incrementalEngine.ts:630`). `pipelineState.ts:4` says invalid transitions throw; the engine
  uses `safeTransition()` only. A project that validates and is not compiled ends in "Linking", whence no row leads to
  "Completed". `MachineFollowsEngine` says what the machine's state is worth.
- *Files nobody planned* (`incrementalEngine.ts:486`). `repairEngine.ts:108` says a repair may never generate one; the
  answers of a generation and of a node's repair (`repairEngine.ts:366`, `:380`) are not filtered.
- *A session of a disposed context* (`router/chatRoutes.ts:1696`). After a compaction of the frontend phase the new session is
  a constant nobody reads; the loop prompts the old one (`sessionLive`).
- *A slot lost for both routes* (`router/chatRoutes.ts:1907`). The shadow's `finally` block awaits a disposal, unguarded, before
  it releases (`leaked`; `ServedUnlessLeaked`).
- *Two copies of a file* (`rag.ts:230`). Two updates of one file may both delete before either adds (`overlapped`).
- *Live chunks taken for ghosts* (`rag.ts:388`). An update between the check of a sync and its deletion loses the chunks it
  adds (`SyncTakesOnlyGhosts` assumes no overlap), and `deleteFiles()` (`:361`) does not look whether a reported file is there
  again.
- *Ghosts in a prompt* (`rag.ts:335`). The comment at line 272 says that vectors of deleted files never enter prompts. The
  filter, and `rag/contextAssembler.ts:78` after it, test the existence of a file once; a file deleted between that test and
  the prompt is still in it. `RetrieveFilters` models the test, and no property claims more.
- *A workbench that is early* (`main.ts:131`). The supervisor "guarantees the router is running before the workbench tries to
  talk to it"; nobody waits for it, and the one sync at start-up fails in silence.

## 5. What is proved

Every invariant and action property that a passing run checks is a theorem below, but for the ones named in section 6, and
so is the safety part of both refinements.

`ChatRequestsProofs` proves, for every set of requests and every choice of those that may create, under
`RequestsAssumption` only (`Creates` is a set of requests and `NoRequest` is not one):

| Theorem | States |
|---|---|
| `TypeCorrect` | `Spec => []TypeOK` |
| `SlotNeverLeaksAlways` | `Spec => []SlotNeverLeaks` |
| `MutualExclusion` | `Spec => []OneAtATimeUnlessAbandoned` |
| `MutualExclusionWithoutCreates` | `Creates = {} => (Spec => []OneAtATime)` |
| `RunnerIsAbortableAlways` | `Spec => []RunnerIsAbortable` |
| `RegisteredControllerIsLiveAlways` | `Spec => []RegisteredControllerIsLive` |
| `ExitsAreCleanAlways` | `Spec => []ExitsAreClean` |
| `FirstComeFirstServedAlways` | `Spec => FirstComeFirstServed` |
| `ImplementsSlotSafely` | `Spec => Slot!SafeSpec` |

None of the invariants is inductive by itself. `IInv` adds what the code relies on without saying so: the queue holds
exactly the requests in phase "queued", each once; whoever holds the slot is unique and registered as long as nobody was
abandoned; the flag is up while anybody holds; a context or a timer belongs to a holder. The proof that a step keeps `IInv`
has one lemma per kind of step - the ones that release (`ReleaseKeepsInv`, cited with 1 and 2 calls), the ones that only
move a handler (`MoveKeepsSlot`), the exits (`ExitKeepsIInv`) and the catch block (`CatchKeepsIInv`) - and they rest on two
facts about the queue, `QueueAfterRelease` and `GrantedWereQueued`.

The last two theorems are about steps. `StepKinds` sorts every step: it rejects or queues a request, takes the free slot,
releases it once or twice, or leaves the slot alone; `FirstComeFirstServed` and the refinement follow case by case
(`StepRefinesSlot`). The refinement needs one more invariant, `BranchInv`: only requests that may create are ever in the
incremental branch, so that whoever releases twice is one of `Twice` (`DoubleReleaseIsBreak`); and that the abandoned stay
abandoned (`AbandonedIsFinal`), as a broken slot stays broken.

The same module proves about `ShadowRoute`, for every set of requests, every part of it that arrives at `/shadow` and every
bound on compactions, under `ShadowAssumption`:

| Theorem | States |
|---|---|
| `RouteTypeCorrect` | `RouteSpec => []RouteTypeOK` |
| `ShadowContextsAreDisposedAlways` | `RouteSpec => []ShadowContextsAreDisposed` |
| `EitherRouteIsAbortableAlways` | `RouteSpec => []EitherRouteIsAbortable` |
| `RouteMutualExclusion` | `RouteSpec => []OneAtATimeUnlessAbandoned` |
| `RouteExitsAreClean` | `RouteSpec => []ExitsAreClean` |
| `RouteFirstComeFirstServed` | waiters of both routes are served in order |
| `RouteImplementsSlotSafely` | `RouteSpec => Slot!SafeSpec` |
| `LeakStopsBothRoutesForever` | `RouteSpec => [][LeakStopsBothRoutes]_<<vars, shadowVars>>` |

The two handlers share the slot and nothing else, and the invariant is divided that way: `SharedInv` is about the slot, its
queue and the timers, whoever holds it; `Resources` is what a handler of the live route owns, `ShadowResources` what one of
the shadow route does. `IInv` is `SharedInv` with the first for every request, `RouteIInv` with the second for the requests
of `Shadows`, so that the lemmas about releases, exits and kinds of step are stated once, from `SharedInv`, and cited for both
handlers (`SlotKinds`). `RouteTypeOK` alone is not inductive: that a compaction under way is one below the
bound, and that a session is live only in a context that is there, belong to `ShadowResources`. `LeakStopsBothRoutes` is
the proved side of the slot lost in section 4: after one rejected disposal the flag, the controller and the holder never
change again, on either route. `RouteSpec => Slot!SafeSpec` says that the leak is still within what the slot promises, as a
holder that does not leave; what it costs is liveness.

`ModelManagerProofs` proves, for every set of callers, of intents and of VRAM totals, under `ModelManagerAssumption` (the
intents are the router's, the totals are natural numbers):

| Theorem | States |
|---|---|
| `TypeCorrect` | `Spec => []TypeOK` |
| `LockIsHandedOverAlways` | `Spec => []LockIsHandedOver` |
| `VramWithinBudgetAlways` | `Spec => []VramWithinBudget` |
| `NeverLoadedTwiceAlways` | `Spec => []NeverLoadedTwice` |
| `LeastRecentlyUsedGoesFirstAlways` | `Spec => LeastRecentlyUsedGoesFirst` |
| `LeasesHoldWhereAllFitAlways` | `Spec => []LeasesHoldWhereAllFit` |
| `WaitersComeCloserAlways` | `Spec => [][WaitersComeCloser]_vars` |

The inductive invariant adds three facts to the type and the lock. `BudgetInv`: whoever evicts or loads already has room for
its model, and its model is not resident - so the budget holds *through* the load, which nothing checks at its end.
`StartInv`: until the engine is ready nothing is resident and nobody uses the lock - otherwise the budget set by `init()`
could be smaller than what is loaded. `UseInv`: the resident keys have distinct uses, none past the counter - without it
the oldest key need not be unique. `HandOver` shows that the queue is in order when its head leaves and the next waiter
starts; `SettleKeepsIInv`, about every way in which a load function settles, is cited three times; `EvictionMakesRoom` says
that one eviction is enough, so that the second turn of the loop in `evictIfNeeded()` never evicts. `LeaseInv` is the strengthening of the last theorem: on a card
with room for every key the resident models and the one being loaded are too few to evict for (`NothingEvicted`).

`WaitersComeCloser` is the measure under `EveryAcquireSettles`. `StepsAhead(i, h)` is the number of steps before the caller at
place `i` of the queue holds the lock: one or two of the present holder, as it is loading or still evicting (it never evicts a
second time), and at most two of everybody in between. Each step of the holder makes it smaller for every waiter, or gives
the waiter the lock; no other step changes it. With the fairness of the holder's steps this is why every waiter is served;
only that last inference is left to TLC.

`LegacyModelManagerProofs` proves, under `LegacyModelManagerAssumption` and for every set of callers:

| Theorem | States |
|---|---|
| `TypeCorrect` | `Spec => []TypeOK` |
| `ActiveModelIsResidentAlways` | `Spec => []ActiveModelIsResident` |
| `NoModelIsForgottenAlways` | `Spec => []NoModelIsForgotten` |
| `VramWithinBudgetAlways` | `Spec => []VramWithinBudget` |
| `WaitersComeCloserAlways` | `Spec => [][WaitersComeCloser]_vars` |

`Sound` is about the cache alone, so that each synchronous helper is shown to keep it once (the helpers are functions on
caches): it fits the budget, its active key is resident, and whatever is resident will be visited by the armed timer or by
the unloading under way. `LockInv` is the order of the queue, `RoomInv` the room that a caller has made and keeps - the
timer, which takes no lock, can only make more - and `StartInv` what holds before the engine is ready.
`WaitersComeCloser` is the measure of `ModelManager`; that the timer may unload between two steps of a load delays nobody.

`ExecutionGraphProofs` holds the lemmas the next two share: the next node is ready and a number (`NextIsReady`), a failure
skips pending nodes only, each above one that failed or was skipped, and all of them (`MarkNodeFailedType`,
`SkippedHasReason`, `SkippedIsTheWalk`); and, by the well-foundedness of `<` on the ranks of an acyclic plan, pending nodes
none of which rests on a failure have a ready one among them (`PendingCanFollow`).

`JobServiceProofs` proves, for every acyclic plan and any number of jobs, runs, retries, restarts and failed writes, under
`PlanAssumption` and `JobServiceAssumption`:

| Theorem | States |
|---|---|
| `TypeCorrect` | `Spec => []TypeOK` |
| `ImplementsDurableProgressAlways` | `Spec => ImplementsDurableProgress` |
| `CheckpointIsClosedAlways` | `Spec => []CheckpointIsClosed` |
| `CheckpointedIsWrittenAlways` | `Spec => []CheckpointedIsWritten` |
| `WorkRestsOnCommittedAlways` | `Spec => []WorkRestsOnCommitted` |
| `SkippedForAReasonAlways` | `Spec => []SkippedForAReason` |
| `EndedRunsAreCompleteAlways` | `Spec => []EndedRunsAreComplete` |
| `RunningJobsHaveARunAlways` | `MaxRestarts = 0 => (Spec => []RunningJobsHaveARun)` |
| `SoleRunIsCancellableAlways` | `Spec => []SoleRunIsCancellable` |
| `AbortedRunStartsNothingAlways` | `Spec => AbortedRunStartsNothing` |
| `EveryStepIsCloser` | `Spec => [][Closer \/ ((\E j \in Jobs : Cancel(j)) /\ NoFarther)]_vars` |

What makes overlapping runs safe is that nothing is ever taken out of `progress.committed` or of the workspace: `RunsFit`
(each run's graph commits only what the manifest of its job does, its current node is the only one under way and rests on
committed ones, and when it is about to be checkpointed its file is written) stays true of a run whatever the others add
(`StillFits`). `FilesGrow` says of the workspace that a node's path, once it holds its own file or a misnamed node's, goes on
to: what a validator adds goes where nothing was (`ExtrasGrow`), and a file that passed goes to its node's path unless it is
misnamed (`PassedFilesGrow`). `ManifestsFit` is what the manifest itself promises, `ActiveInv` says that a registered run is
one of its job, without which `cancel()` could abort a run that has not begun. `MoveKeepsIInv` is cited by every step of a
run, through `IterateKeepsIInv` where the step goes back to the head of the loop and `CatchKeepsIInv` where it may throw;
`StartKeepsIInv` by `Create` and `Resume`. That `Interrupted` is empty, which the proof of `RestartKeepsIInv` uses, is the
wrong directory of section 4; the condition of `RunningJobsHaveARunAlways` is what `jobs_crash` refutes.

The refinement needs no invariant beyond `IInv` (`ProgressStep`): each action writes one node's file or leaves `Validated` as
it is, and the one that adds to a manifest's `progress.committed` is the checkpoint of a run whose file is written and whose
dependencies are committed in its graph, hence in the manifest (`ChecksIn`). A run that is behind the manifest cannot take
anything back, because `checkpoint()` reads the manifest and adds to it; the mutant of the property, which writes the run's
own view of the progress over it, is refuted by two overlapping runs.

`EveryStepIsCloser` is the measure under `EveryRunEnds`: lexicographically, the restarts and failed writes that may still come
(`Mishaps`), the sets of nodes that the runs have still to finish (`WorkOf`), the retries that are left to the nodes
(`RetriesLeft`) and the steps of each run to the end of its node (`StepsOf`). Every step but a cancel lowers it, and a cancel
does not raise it, so finitely many runs take finitely many steps, whatever fails. The first component is the reason for
`MaxWriteErrors`: a manifest write that fails after `onCommitted()` puts back both the node and its retries, and nothing else in
the code goes down.

`IncrementalEngineProofs` proves, for every acyclic plan:

| Theorem | States |
|---|---|
| `TypeCorrect` | `Spec => []TypeOK` |
| `NeverDeadlockedAlways` | `Spec => []NeverDeadlocked` |
| `MachineFollowsEngineAlways` | `Spec => []MachineFollowsEngine` |
| `ManifestIsNoLiarAlways` | `Spec => []ManifestIsNoLiar` |
| `FinalStatusesAreFinalAlways` | `Spec => FinalStatusesAreFinal` |
| `StepsAreBounded` | `Spec => [](StepsLeft \in 0..(5 * Files + 10))` |
| `EveryStepIsProgress` | `Spec => [][LessIsLeft]_vars` |

`GraphInv` adds that the current node is the only one under way and that no pending node rests on one that failed or was
skipped; the first theorem about the loop then follows from `PendingCanFollow`, whatever the shape of the plan.
`StepsLeft` counts five steps for each node without a final status and what is left of the current one; it is bounded by the
plan, and every step but an abort lowers it. So the engine ends after `5 * Files + 10` steps of its own at most, which is
`EngineEnds` but for the fairness that makes it take them: no failed generation, useless repair or unwritable file starts a node
again.

`RagIndexProofs` proves `TypeCorrect`, `SerialOpsLeaveOneCopyAlways` (`Spec => []SerialOpsLeaveOneCopy`) and
`SyncTakesOnlyGhostsAlways` (`Spec => []SyncTakesOnlyGhosts`) for every set of files and of operations. `WriterInv` says that
one operation writes at a time until two overlap, `GapInv` that until then the file of an update between its two calls has no
rows. For the sync, `Saved` adds that no content is in the table, on disk or on its way (`OfSaves`) before it was saved, so
that a save during the sync gives the file a content that is in no row (`OutsideKeepsGhostInv`); `OpKeepsGhostInv` is the
step of any operation. `RouterSupervisorProofs` proves `TypeCorrect` and `RouterOutlivesEditorsAlways` (`Spec =>
[]RouterOutlivesEditors`) for every set of launches; `LaunchInv` is that a launch has no router before its probe has
answered.

## 6. What is only model-checked, and what is not modelled

Liveness (`EveryRequestIsServed`, `ServedUnlessLeaked`, `EveryAcquireSettles`, `IdleModelsAreUnloaded`, `EveryRunEnds`,
`EngineEnds`, `EnsureSettles`, `OneRouterIsLeft`), the fairness part of `ImplementsExclusiveSlot` and anything about `ENABLED`
are out of the proof system's reach and stay with TLC. What is proved of `EveryAcquireSettles`, `EveryRunEnds` and `EngineEnds`
is the measure that each step lowers (section 5); what is left to TLC is that fair steps do get taken. The finiteness that
turns the measure of `EveryStepIsCloser` into termination is also not a theorem: it needs an induction over data.

Not modelled, and why:

- What the models generate, the text of prompts, chunking, embedding and ranking: pure data.
- Logging, metrics, the event bus and the system routes: nothing reads them back.
- Pending edits (`tools/toolEngine.ts`, `router/editRoutes.ts`): `createPendingSession()` has no caller (`chatRoutes.ts` imports
  it and never calls it), so the store is always empty in the running program.
- Workspace snapshots: they are created and discarded and never restored.
- Backups and the event log of a job, `progress.currentNode`: written, never read by the loop.
- The passes of the validator and the text of a repair: `JobService` has the loop around them and `IncrementalEngine` its own,
  with what they find and answer left free.
- Failures to write a manifest elsewhere than at a checkpoint.
- Artifacts handed from one specialist to the next (`rag/artifact.ts`): files of a session cache, written and read by one
  request.
- The editor, but for the supervisor and the file watcher.

## 7. Plan

Next: the measures under the remaining liveness properties - the place of a waiter in the queue of the chat slot
(`EveryRequestIsServed`), the boots that may still come in the supervisor (`EnsureSettles`) - and `ArtifactHandoff`.
