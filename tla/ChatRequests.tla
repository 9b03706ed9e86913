---------------------------- MODULE ChatRequests ----------------------------
(***************************************************************************)
(* POST /v1/chat/completions: the request slot and the global abort        *)
(* controller (server/requestMutex.ts), the lifecycle every request gets   *)
(* (server/requestLifecycle.ts) and the handler that uses both (index.ts). *)
(*                                                                         *)
(* The router is one JavaScript thread: an action is what runs between two *)
(* awaits, together with the microtasks it queues.  In particular a slot   *)
(* handed to a waiter and the waiter's beginRequest() are one step,        *)
(* because no event can run between the resolve and its continuation.     *)
(***************************************************************************)
EXTENDS Naturals, Sequences

CONSTANTS
    Requests,   \* the chat requests that may arrive
    Creates,    \* those that pass the guard of the incremental branch
    NoRequest   \* "activeController is null"

ASSUME RequestsAssumption ==
    /\ Creates \subseteq Requests
    /\ NoRequest \notin Requests

VARIABLES
    requestInFlight,   \* requestMutex.requestInFlight
    requestQueue,      \* requestMutex.requestQueue, the waiters in order
    activeController,  \* the request whose controller is registered
    phase,             \* where each handler stands
    connected,         \* the client still holds its connection
    aborted,           \* controller.signal.aborted
    timer,             \* the request timeout is armed
    context,           \* the handler's own `context` is open
    phaseContexts      \* contexts opened by runSpecialistPhase and still open

vars == <<requestInFlight, requestQueue, activeController, phase, connected,
          aborted, timer, context, phaseContexts>>

(* The phases between beginRequest() and the release of the slot.          *)
HoldingPhases == {"preparing", "incremental", "catching", "acquiring",
                  "generating", "cleaning"}
(* "abandoned" is the exit of index.ts that skips the monolithic fallback.  *)
TerminalPhases == {"rejected", "finished", "abandoned"}
Phases == {"new", "queued"} \cup HoldingPhases \cup TerminalPhases

Holding(r) == phase[r] \in HoldingPhases

TypeOK ==
    /\ requestInFlight \in BOOLEAN
    /\ requestQueue \in Seq(Requests)
    /\ activeController \in Requests \cup {NoRequest}
    /\ phase \in [Requests -> Phases]
    /\ connected \in [Requests -> BOOLEAN]
    /\ aborted \in [Requests -> BOOLEAN]
    /\ timer \in [Requests -> BOOLEAN]
    /\ context \in [Requests -> BOOLEAN]
    /\ phaseContexts \in [Requests -> 0..2]

Init ==
    /\ requestInFlight = FALSE
    /\ requestQueue = <<>>
    /\ activeController = NoRequest
    /\ phase = [r \in Requests |-> "new"]
    /\ connected = [r \in Requests |-> TRUE]
    /\ aborted = [r \in Requests |-> FALSE]
    /\ timer = [r \in Requests |-> FALSE]
    /\ context = [r \in Requests |-> FALSE]
    /\ phaseContexts = [r \in Requests |-> 0]

-----------------------------------------------------------------------------
(* The slot *)

(* The waiters that n calls of a release function start.                   *)
Granted(n) == {requestQueue[i] : i \in DOMAIN requestQueue \cap (1..n)}

(* Mutant: cleanup() drops whatever controller is registered.              *)
ControllerCleared(r, n) == NoRequest

(* The last controller registered by the n calls: each waiter started      *)
(* registers its own, and the releasing request deregisters only itself.   *)
ControllerAfter(r, n) ==
    IF requestQueue # <<>>
    THEN requestQueue[IF n <= Len(requestQueue) THEN n ELSE Len(requestQueue)]
    ELSE IF activeController = r THEN NoRequest ELSE activeController

(* Mutant: the flag is lowered although a waiter has been started.         *)
ReleaseLowersFlag(r, n, exit) ==
    /\ requestQueue' = SubSeq(requestQueue, n + 1, Len(requestQueue))
    /\ requestInFlight' = FALSE
    /\ activeController' = ControllerAfter(r, n)
    /\ phase' = [q \in Requests |->
                    IF q = r THEN exit
                    ELSE IF q \in Granted(n) THEN "preparing" ELSE phase[q]]
    /\ timer' = [q \in Requests |->
                    IF q = r THEN FALSE ELSE q \in Granted(n) \/ timer[q]]

(* Mutant: the last waiter is started, as by pop() in place of shift().    *)
ReleasePops(r, n, exit) ==
    LET first == IF n < Len(requestQueue) THEN Len(requestQueue) - n ELSE 0
        granted == {requestQueue[i] : i \in DOMAIN requestQueue \ (1..first)} IN
    /\ requestQueue' = SubSeq(requestQueue, 1, first)
    /\ requestInFlight' = (n <= Len(requestQueue))
    /\ activeController' = IF granted = {} THEN ControllerAfter(r, n)
                           ELSE requestQueue[first + 1]
    /\ phase' = [q \in Requests |->
                    IF q = r THEN exit
                    ELSE IF q \in granted THEN "preparing" ELSE phase[q]]
    /\ timer' = [q \in Requests |->
                    IF q = r THEN FALSE ELSE q \in granted \/ timer[q]]

(* Request r leaves through `exit`, its release function called n times.   *)
(* Every call starts the first waiter, or clears the flag if there is none.*)
Release(r, n, exit) ==
    /\ requestQueue' = SubSeq(requestQueue, n + 1, Len(requestQueue))
    /\ requestInFlight' = (n <= Len(requestQueue))
    /\ activeController' = ControllerAfter(r, n)
    /\ phase' = [q \in Requests |->
                    IF q = r THEN exit
                    ELSE IF q \in Granted(n) THEN "preparing" ELSE phase[q]]
    /\ timer' = [q \in Requests |->
                    IF q = r THEN FALSE ELSE q \in Granted(n) \/ timer[q]]

(* cleanup() with no context to dispose runs to its end at once; with one, *)
(* it clears the timer and awaits the disposal.                            *)
ExitWithCleanup(r) ==
    \/ /\ ~context[r]
       /\ Release(r, 1, "finished")
    \/ /\ context[r]
       /\ phase' = [phase EXCEPT ![r] = "cleaning"]
       /\ timer' = [timer EXCEPT ![r] = FALSE]
       /\ UNCHANGED <<requestInFlight, requestQueue, activeController>>

(* 503 while the model manager is swapping: the slot is never asked for.   *)
RejectDuringSwap(r) ==
    /\ phase[r] = "new"
    /\ phase' = [phase EXCEPT ![r] = "rejected"]
    /\ UNCHANGED <<requestInFlight, requestQueue, activeController, connected,
                   aborted, timer, context, phaseContexts>>

(* acquireRequestSlot() on a free slot, then beginRequest().               *)
TakeFreeSlot(r) ==
    /\ phase[r] = "new"
    /\ ~requestInFlight
    /\ requestInFlight' = TRUE
    /\ activeController' = r
    /\ phase' = [phase EXCEPT ![r] = "preparing"]
    /\ timer' = [timer EXCEPT ![r] = TRUE]
    /\ UNCHANGED <<requestQueue, connected, aborted, context, phaseContexts>>

(* Mutant: a newcomer is put before the waiters.                           *)
JoinQueueInFront(r) ==
    /\ phase[r] = "new"
    /\ requestInFlight
    /\ requestQueue' = <<r>> \o requestQueue
    /\ phase' = [phase EXCEPT ![r] = "queued"]
    /\ UNCHANGED <<requestInFlight, activeController, connected, aborted,
                   timer, context, phaseContexts>>

(* acquireRequestSlot() on a busy slot.                                    *)
JoinQueue(r) ==
    /\ phase[r] = "new"
    /\ requestInFlight
    /\ requestQueue' = Append(requestQueue, r)
    /\ phase' = [phase EXCEPT ![r] = "queued"]
    /\ UNCHANGED <<requestInFlight, activeController, connected, aborted,
                   timer, context, phaseContexts>>

-----------------------------------------------------------------------------
(* The events that abort a request *)

(* The client closes its connection.  The listeners exist only once        *)
(* beginRequest() has run: a close seen while queued reaches nobody.       *)
Disconnect(r) ==
    /\ connected[r]
    /\ phase[r] \notin TerminalPhases \cup {"new"}
    /\ connected' = [connected EXCEPT ![r] = FALSE]
    /\ aborted' = [aborted EXCEPT ![r] = @ \/ Holding(r)]
    /\ UNCHANGED <<requestInFlight, requestQueue, activeController, phase,
                   timer, context, phaseContexts>>

Timeout(r) ==
    /\ timer[r]
    /\ timer' = [timer EXCEPT ![r] = FALSE]
    /\ aborted' = [aborted EXCEPT ![r] = TRUE]
    /\ UNCHANGED <<requestInFlight, requestQueue, activeController, phase,
                   connected, context, phaseContexts>>

(* POST /v1/chat/abort                                                     *)
AbortRoute ==
    /\ activeController # NoRequest
    /\ ~aborted[activeController]
    /\ aborted' = [aborted EXCEPT ![activeController] = TRUE]
    /\ UNCHANGED <<requestInFlight, requestQueue, activeController, phase,
                   connected, timer, context, phaseContexts>>

-----------------------------------------------------------------------------
(* The handler *)

(* Mutant: an early return outside the try block skips cleanup().          *)
PrepareReturnsBare(r) ==
    /\ phase[r] = "preparing"
    /\ phase' = [phase EXCEPT ![r] = "finished"]
    /\ UNCHANGED <<requestInFlight, requestQueue, activeController, connected,
                   aborted, timer, context, phaseContexts>>

(* prepareRequest() answers by itself, or throws.                          *)
PrepareEnds(r) ==
    /\ phase[r] = "preparing"
    /\ ExitWithCleanup(r)
    /\ UNCHANGED <<connected, aborted, context, phaseContexts>>

PrepareContinues(r) ==
    /\ phase[r] = "preparing"
    /\ \/ phase' = [phase EXCEPT ![r] = "acquiring"]
       \/ r \in Creates /\ phase' = [phase EXCEPT ![r] = "incremental"]
    /\ UNCHANGED <<requestInFlight, requestQueue, activeController, connected,
                   aborted, timer, context, phaseContexts>>

(* The frontend step of the incremental branch creates its context.        *)
IncrementalOpensContext(r) ==
    /\ phase[r] = "incremental"
    /\ ~context[r]
    /\ context' = [context EXCEPT ![r] = TRUE]
    /\ UNCHANGED <<requestInFlight, requestQueue, activeController, phase,
                   connected, aborted, timer, phaseContexts>>

IncrementalReturns(r) ==
    /\ phase[r] = "incremental"
    /\ ExitWithCleanup(r)
    /\ UNCHANGED <<connected, aborted, context, phaseContexts>>

(* The inner catch, once there is no context left: an aborted request      *)
(* calls releaseSlot() itself, and the finally block calls it again.  (The *)
(* other half of the test, res.writableEnded, is never true here: nothing  *)
(* throws once the branch has ended the response.)                         *)
FallBackOrAbandon(r) ==
    \/ /\ aborted[r]
       /\ Release(r, 2, "abandoned")
    \/ /\ ~aborted[r]
       /\ phase' = [phase EXCEPT ![r] = "acquiring"]
       /\ UNCHANGED <<requestInFlight, requestQueue, activeController, timer>>

IncrementalThrows(r) ==
    /\ phase[r] = "incremental"
    /\ \/ /\ context[r]
          /\ phase' = [phase EXCEPT ![r] = "catching"]
          /\ UNCHANGED <<requestInFlight, requestQueue, activeController, timer>>
       \/ /\ ~context[r]
          /\ FallBackOrAbandon(r)
    /\ UNCHANGED <<connected, aborted, context, phaseContexts>>

(* The catch block's own dispose() settles; if it rejects, the error goes  *)
(* to the outer catch and the context is still there for cleanup().        *)
CatchDisposes(r) ==
    /\ phase[r] = "catching"
    /\ \/ /\ context' = [context EXCEPT ![r] = FALSE]
          /\ FallBackOrAbandon(r)
       \/ /\ ExitWithCleanup(r)
          /\ UNCHANGED context
    /\ UNCHANGED <<connected, aborted, phaseContexts>>

(* runSpecialistPhase(): the model is acquired and a context created.      *)
OpenPhaseContext(r) ==
    /\ phase[r] = "acquiring"
    /\ phase' = [phase EXCEPT ![r] = "generating"]
    /\ phaseContexts' = [phaseContexts EXCEPT ![r] = @ + 1]
    /\ UNCHANGED <<requestInFlight, requestQueue, activeController, connected,
                   aborted, timer, context>>

AcquireThrows(r) ==
    /\ phase[r] = "acquiring"
    /\ ExitWithCleanup(r)
    /\ UNCHANGED <<connected, aborted, context, phaseContexts>>

(* The primary phase returns and a full-stack request goes on to the       *)
(* frontend phase.                                                         *)
SecondaryPhase(r) ==
    /\ phase[r] = "generating"
    /\ phaseContexts[r] = 1
    /\ phase' = [phase EXCEPT ![r] = "acquiring"]
    /\ UNCHANGED <<requestInFlight, requestQueue, activeController, connected,
                   aborted, timer, context, phaseContexts>>

(* Mutant: the handler returns from the generation without cleanup().      *)
GenerationReturnsBare(r) ==
    /\ phase[r] = "generating"
    /\ phase' = [phase EXCEPT ![r] = "finished"]
    /\ UNCHANGED <<requestInFlight, requestQueue, activeController, connected,
                   aborted, timer, context, phaseContexts>>

(* The last phase returns, or a phase throws: an aborted loop does either, *)
(* since the signal is only tested at the head of an iteration.            *)
GenerationEnds(r) ==
    /\ phase[r] = "generating"
    /\ ExitWithCleanup(r)
    /\ UNCHANGED <<connected, aborted, context, phaseContexts>>

(* Mutant: cleanup() releases the slot and leaves the context.             *)
CleanupKeepsContext(r) ==
    /\ phase[r] = "cleaning"
    /\ Release(r, 1, "finished")
    /\ UNCHANGED <<connected, aborted, context, phaseContexts>>

(* The disposal that cleanup() awaits settles, either way.                 *)
CleanupDisposes(r) ==
    /\ phase[r] = "cleaning"
    /\ context' = [context EXCEPT ![r] = FALSE]
    /\ Release(r, 1, "finished")
    /\ UNCHANGED <<connected, aborted, phaseContexts>>

-----------------------------------------------------------------------------
(* What the router does for r once r holds the slot.                       *)
HandlerStep(r) ==
    \/ PrepareEnds(r) \/ PrepareContinues(r)
    \/ IncrementalOpensContext(r) \/ IncrementalReturns(r)
    \/ IncrementalThrows(r) \/ CatchDisposes(r)
    \/ OpenPhaseContext(r) \/ AcquireThrows(r)
    \/ SecondaryPhase(r) \/ GenerationEnds(r) \/ CleanupDisposes(r)

ClientStep(r) ==
    \/ RejectDuringSwap(r) \/ TakeFreeSlot(r) \/ JoinQueue(r)
    \/ Disconnect(r) \/ Timeout(r)

(* Every request is over: the bounded instance may stop here.              *)
AllOver == /\ \A r \in Requests : phase[r] \in TerminalPhases
           /\ UNCHANGED vars

Next ==
    \/ \E r \in Requests : HandlerStep(r) \/ ClientStep(r)
    \/ AbortRoute
    \/ AllOver

(* Every promise a handler awaits settles; clients owe nothing.            *)
Fairness == \A r \in Requests : WF_vars(HandlerStep(r))

Spec == Init /\ [][Next]_vars /\ Fairness

-----------------------------------------------------------------------------
(* Properties *)

(* The slot never leaks (requestLifecycle.ts, "otherwise the next request  *)
(* waits forever"): somebody waits only while the flag is up, and the flag *)
(* is up only while some handler still has a release to call.  It holds    *)
(* even on the exit that releases twice.                                   *)
SlotNeverLeaks ==
    /\ requestQueue # <<>> => requestInFlight
    /\ requestInFlight => \E r \in Requests : Holding(r)

(* No request has taken the exit that calls releaseSlot() by itself.       *)
NobodyAbandoned == \A r \in Requests : phase[r] # "abandoned"

(* "Only one chat request runs at a time" (requestMutex.ts): two handlers  *)
(* never stand between beginRequest() and the release of the slot.         *)
OneAtATime ==
    \A r, s \in Requests : Holding(r) /\ Holding(s) => r = s

(* What the handler does guarantee: one at a time until some request has   *)
(* left through the abort test of the incremental branch's catch block.    *)
OneAtATimeUnlessAbandoned == NobodyAbandoned => OneAtATime

(* /v1/chat/abort reaches the request that is running, whichever it is, as *)
(* long as every exit has released the slot once.                          *)
RunnerIsAbortable ==
    NobodyAbandoned => \A r \in Requests : Holding(r) => activeController = r

(* The registered controller is never one that is already gone: it belongs *)
(* to a handler still at work (requestLifecycle.ts, item 4).  This one     *)
(* survives the double release, since deregistering compares controllers.  *)
RegisteredControllerIsLive ==
    activeController # NoRequest => Holding(activeController)

(* On every exit path the timer is cleared, the handler's own context is   *)
(* disposed and the request is in no queue (requestLifecycle.ts, 1 to 3).  *)
ExitsAreClean ==
    \A r \in Requests : phase[r] \in TerminalPhases =>
        /\ ~timer[r]
        /\ ~context[r]
        /\ \A i \in DOMAIN requestQueue : requestQueue[i] # r

(* Nobody overtakes: a request that was waiting starts only once every     *)
(* request ahead of it has been started, a newcomer takes the slot only    *)
(* when nobody waits, and one that must wait goes behind all the others.   *)
NobodyOvertakes ==
    \A r \in Requests :
        Holding(r)' /\ ~Holding(r) =>
            \A i \in DOMAIN requestQueue', j \in DOMAIN requestQueue :
                requestQueue[j] = requestQueue'[i] =>
                    \E k \in 1..(j - 1) : requestQueue[k] = r

QueueGrowsAtItsEnd ==
    Len(requestQueue') > Len(requestQueue) =>
        SubSeq(requestQueue', 1, Len(requestQueue)) = requestQueue

FirstComeFirstServed == [][NobodyOvertakes /\ QueueGrowsAtItsEnd]_vars

(* Every request that waits for the slot gets it, whatever aborts, errors  *)
(* and early returns happen to the ones ahead, the double release included.*)
EveryRequestIsServed ==
    \A r \in Requests : phase[r] = "queued" ~> Holding(r)

(* The handler, with its aborts, timeouts, early returns and errors,       *)
(* implements the slot it was built on, the registered controller standing *)
(* for the holder, until a request leaves through the one exit that        *)
(* releases twice.                                                         *)
Slot == INSTANCE ExclusiveSlot
            WITH Twice <- Creates,
                 holder <- IF NobodyAbandoned THEN activeController ELSE NoRequest,
                 waiting <- IF NobodyAbandoned THEN requestQueue ELSE <<>>,
                 asked <- {r \in Requests : NobodyAbandoned /\ phase[r] # "new"},
                 broken <- ~NobodyAbandoned

ImplementsExclusiveSlot == Slot!Spec

=============================================================================
