----------------------------- MODULE ShadowRoute -----------------------------
(***************************************************************************)
(* router/chatRoutes.ts, mounted at /shadow beside the live route of       *)
(* index.ts.  It takes the same slot and registers the same controller,    *)
(* but is the older handler: no beginRequest(), a finally block that does  *)
(* not expect a disposal to fail, one context of its own that it disposes  *)
(* and creates again on the way, at each compaction and between the        *)
(* backend and the frontend phase.                                         *)
(*                                                                         *)
(* A request is served by the route it arrived on; everything up to the    *)
(* slot, and the events that abort, are ChatRequests'.                     *)
(***************************************************************************)
EXTENDS ChatRequests, FiniteSets

CONSTANTS
    Shadows,        \* the requests that arrive at /shadow
    MaxCompactions  \* MAX_AGENT_ITERATIONS - 1: compactions of one phase

ASSUME ShadowAssumption ==
    /\ Shadows \subseteq Requests
    /\ MaxCompactions \in Nat

VARIABLES
    stage,        \* the specialist at work: "primary" or "frontend"
    compactions,  \* how often this stage was compacted
    disposeFor,   \* why a handler in "catching" awaits a disposal
    opened,       \* the contexts created and not disposed
    sessionLive,  \* the session prompted belongs to `context`
    leaked        \* the handlers that a rejected disposal ended for good

shadowVars == <<stage, compactions, disposeFor, opened, sessionLive, leaked>>

Reasons == {"fallback", "compact", "frontend", "return"}

RouteTypeOK ==
    /\ TypeOK
    /\ stage \in [Shadows -> {"primary", "frontend"}]
    /\ compactions \in [Shadows -> 0..MaxCompactions]
    /\ disposeFor \in [Shadows -> Reasons]
    /\ opened \in [Shadows -> 0..2]
    /\ sessionLive \in [Shadows -> BOOLEAN]
    /\ leaked \subseteq Shadows

RouteInit ==
    /\ Init
    /\ stage = [s \in Shadows |-> "primary"]
    /\ compactions = [s \in Shadows |-> 0]
    /\ disposeFor = [s \in Shadows |-> "fallback"]
    /\ opened = [s \in Shadows |-> 0]
    /\ sessionLive = [s \in Shadows |-> FALSE]
    /\ leaked = {}

-----------------------------------------------------------------------------
(* The finally block disposes of what there is and then releases: what     *)
(* cleanup() does, as long as nothing is rejected.                         *)

(* An early answer, or a throw, before a specialist is asked.              *)
AnswerAtOnce(s) ==
    /\ PrepareEnds(s)
    /\ UNCHANGED shadowVars

ChooseBranch(s) ==
    /\ PrepareContinues(s)
    /\ UNCHANGED shadowVars

OpenIncrementalContext(s) ==
    /\ IncrementalOpensContext(s)
    /\ opened' = [opened EXCEPT ![s] = @ + 1]
    /\ UNCHANGED <<stage, compactions, disposeFor, sessionLive, leaked>>

EndIncremental(s) ==
    /\ IncrementalReturns(s) \/ IncrementalThrows(s)
    /\ UNCHANGED shadowVars

Dispose(s) ==
    /\ context' = [context EXCEPT ![s] = FALSE]
    /\ opened' = [opened EXCEPT ![s] = @ - 1]
    /\ sessionLive' = [sessionLive EXCEPT ![s] = FALSE]
    /\ disposeFor' = [disposeFor EXCEPT ![s] = "fallback"]

(* The catch block of the incremental branch: once disposed, as in the     *)
(* live route, an aborted request releases the slot itself as well.        *)
FallBack(s) ==
    /\ phase[s] = "catching" /\ disposeFor[s] = "fallback"
    /\ Dispose(s)
    /\ FallBackOrAbandon(s)
    /\ UNCHANGED <<connected, aborted, phaseContexts, stage, compactions, leaked>>

-----------------------------------------------------------------------------
(* acquire() and createContext(): the primary phase assigns the session it *)
(* prompts, the frontend phase does so only when it starts; after one of   *)
(* its compactions it goes on with the session of the disposed context.    *)
OpenContext(s) ==
    /\ phase[s] = "acquiring"
    /\ phase' = [phase EXCEPT ![s] = "generating"]
    /\ context' = [context EXCEPT ![s] = TRUE]
    /\ opened' = [opened EXCEPT ![s] = @ + 1]
    /\ sessionLive' = [sessionLive EXCEPT
                         ![s] = stage[s] = "primary" \/ compactions[s] = 0]
    /\ UNCHANGED <<requestInFlight, requestQueue, activeController, connected,
                   aborted, timer, phaseContexts, stage, compactions,
                   disposeFor, leaked>>

OpenContextThrows(s) ==
    /\ AcquireThrows(s)
    /\ UNCHANGED shadowVars

(* A handler stops generating to dispose of its context.                   *)
StartDisposing(s, reason) ==
    /\ phase[s] = "generating"
    /\ sessionLive[s]
    /\ phase' = [phase EXCEPT ![s] = "catching"]
    /\ disposeFor' = [disposeFor EXCEPT ![s] = reason]
    /\ UNCHANGED <<requestInFlight, requestQueue, activeController, connected,
                   aborted, timer, context, phaseContexts, stage, compactions,
                   opened, sessionLive, leaked>>

(* Three quarters of the context are used.                                 *)
Compact(s) ==
    /\ compactions[s] < MaxCompactions
    /\ StartDisposing(s, "compact")

(* A full-stack request goes on to the frontend, or finds it needs none.   *)
EndBackend(s) ==
    /\ stage[s] = "primary"
    /\ StartDisposing(s, "frontend") \/ StartDisposing(s, "return")

Compacted(s) ==
    /\ phase[s] = "catching" /\ disposeFor[s] = "compact"
    /\ Dispose(s)
    /\ phase' = [phase EXCEPT ![s] = "acquiring"]
    /\ compactions' = [compactions EXCEPT ![s] = @ + 1]
    /\ UNCHANGED <<requestInFlight, requestQueue, activeController, connected,
                   aborted, timer, phaseContexts, stage, leaked>>

(* Mutant: the context of the backend is left to be overwritten.           *)
HandOffKeepsContext(s) ==
    /\ phase[s] = "catching" /\ disposeFor[s] = "frontend"
    /\ phase' = [phase EXCEPT ![s] = "acquiring"]
    /\ stage' = [stage EXCEPT ![s] = "frontend"]
    /\ compactions' = [compactions EXCEPT ![s] = 0]
    /\ UNCHANGED <<requestInFlight, requestQueue, activeController, connected,
                   aborted, timer, context, phaseContexts, disposeFor, opened,
                   sessionLive, leaked>>

HandOff(s) ==
    /\ phase[s] = "catching" /\ disposeFor[s] = "frontend"
    /\ Dispose(s)
    /\ phase' = [phase EXCEPT ![s] = "acquiring"]
    /\ stage' = [stage EXCEPT ![s] = "frontend"]
    /\ compactions' = [compactions EXCEPT ![s] = 0]
    /\ UNCHANGED <<requestInFlight, requestQueue, activeController, connected,
                   aborted, timer, phaseContexts, leaked>>

SkipFrontend(s) ==
    /\ phase[s] = "catching" /\ disposeFor[s] = "return"
    /\ Dispose(s)
    /\ Release(s, 1, "finished")
    /\ UNCHANGED <<connected, aborted, phaseContexts, stage, compactions, leaked>>

(* A disposal in the try block is rejected: the outer catch, and then the  *)
(* finally block, which has the context still and disposes of it again.    *)
DisposalThrows(s) ==
    /\ phase[s] = "catching"
    /\ ExitWithCleanup(s)
    /\ disposeFor' = [disposeFor EXCEPT ![s] = "fallback"]
    /\ UNCHANGED <<connected, aborted, context, phaseContexts, stage,
                   compactions, opened, sessionLive, leaked>>

(* Mutant: the handler's return in the middle of the try block loses the   *)
(* finally block.                                                          *)
StopWithoutFinally(s) ==
    /\ phase[s] = "generating"
    /\ phase' = [phase EXCEPT ![s] = "finished"]
    /\ UNCHANGED <<requestInFlight, requestQueue, activeController, connected,
                   aborted, timer, context, phaseContexts, shadowVars>>

(* The handler returns, or throws, as it does when it is aborted, out of   *)
(* iterations or prompts a session whose context is disposed.              *)
StopGenerating(s) ==
    /\ GenerationEnds(s)
    /\ UNCHANGED shadowVars

(* Mutant: the controller is deregistered after the release, unconditionally*)
FinallyReleasesFirst(s) ==
    /\ phase[s] = "cleaning"
    /\ s \notin leaked
    /\ Dispose(s)
    /\ requestQueue' = SubSeq(requestQueue, 2, Len(requestQueue))
    /\ requestInFlight' = (requestQueue # <<>>)
    /\ activeController' = NoRequest
    /\ phase' = [q \in Requests |->
                    IF q = s THEN "finished"
                    ELSE IF q \in Granted(1) THEN "preparing" ELSE phase[q]]
    /\ timer' = [q \in Requests |-> q \in Granted(1) \/ timer[q]]
    /\ UNCHANGED <<connected, aborted, phaseContexts, stage, compactions, leaked>>

FinallyDisposes(s) ==
    /\ phase[s] = "cleaning"
    /\ s \notin leaked
    /\ Dispose(s)
    /\ Release(s, 1, "finished")
    /\ UNCHANGED <<connected, aborted, phaseContexts, stage, compactions, leaked>>

(* The disposal of the finally block is rejected: express answers 500, the *)
(* controller stays registered and the slot is never released.             *)
FinallyThrows(s) ==
    /\ phase[s] = "cleaning"
    /\ s \notin leaked
    /\ leaked' = leaked \cup {s}
    /\ UNCHANGED <<vars, stage, compactions, disposeFor, opened, sessionLive>>

-----------------------------------------------------------------------------
ShadowStep(s) ==
    \/ AnswerAtOnce(s) \/ ChooseBranch(s)
    \/ OpenIncrementalContext(s) \/ EndIncremental(s) \/ FallBack(s)
    \/ OpenContext(s) \/ OpenContextThrows(s)
    \/ Compact(s) \/ EndBackend(s)
    \/ Compacted(s) \/ HandOff(s) \/ SkipFrontend(s) \/ DisposalThrows(s)
    \/ StopGenerating(s) \/ FinallyDisposes(s) \/ FinallyThrows(s)

LiveStep(r) == HandlerStep(r) /\ UNCHANGED shadowVars

RouteEvent ==
    /\ AbortRoute \/ \E r \in Requests : ClientStep(r)
    /\ UNCHANGED shadowVars

(* Nothing is left to happen, or nothing can because of a leak.            *)
Stopped ==
    /\ \A r \in Requests :
          \/ phase[r] \in TerminalPhases
          \/ leaked # {} /\ (r \in leaked \/ phase[r] = "queued")
    /\ UNCHANGED <<vars, shadowVars>>

RouteNext ==
    \/ \E s \in Shadows : ShadowStep(s)
    \/ \E r \in Requests \ Shadows : LiveStep(r)
    \/ RouteEvent
    \/ Stopped

(* Every promise a handler awaits settles, on both routes.                 *)
RouteFairness ==
    /\ \A s \in Shadows : WF_<<vars, shadowVars>>(ShadowStep(s))
    /\ \A r \in Requests \ Shadows : WF_<<vars, shadowVars>>(LiveStep(r))

RouteSpec ==
    RouteInit /\ [][RouteNext]_<<vars, shadowVars>> /\ RouteFairness

-----------------------------------------------------------------------------
(* Properties *)

(* The shadow's handler never has two contexts in GPU memory, whichever    *)
(* branch failed before and however often it is compacted, and has none    *)
(* when it has ended (the live route's runSpecialistPhase keeps its own).  *)
ShadowContextsAreDisposed ==
    \A s \in Shadows :
        /\ opened[s] = IF context[s] THEN 1 ELSE 0
        /\ phase[s] \in TerminalPhases => opened[s] = 0

(* "/v1/chat/abort can reach the request that is running, whichever route  *)
(* it arrived on" (requestMutex.ts:19): a handler of either route that is  *)
(* at work is the one whose controller is registered.                      *)
AtWork(r) == Holding(r) /\ r \notin leaked

EitherRouteIsAbortable ==
    NobodyAbandoned => \A r \in Requests : AtWork(r) => activeController = r

(* A request of either route that waits is served, unless a disposal of    *)
(* the shadow's finally block was rejected.                                *)
ServedUnlessLeaked ==
    \A r \in Requests : phase[r] = "queued" ~> Holding(r) \/ leaked # {}

=============================================================================
