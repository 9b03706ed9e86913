------------------------- MODULE LegacyModelManager -------------------------
(***************************************************************************)
(* models/legacyModelManager.ts: the chat route's cache of loaded models.  *)
(* It has the load lock of ModelManager, and two things that one lacks:    *)
(* the active model, which status.loaded reports to the 503 guard of the   *)
(* chat handler, and an idle timer that unloads everything.  The unloading *)
(* does not take the lock: it visits the keys that were resident when the  *)
(* timer fired, awaiting a disposal between two of them, while requests    *)
(* come, load and use models.                                              *)
(*                                                                         *)
(* An action is what runs between two awaits.                              *)
(***************************************************************************)
EXTENDS VramBudget, Sequences, FiniteSets

CONSTANTS
    Callers,    \* the requests that call acquire()
    Intents,    \* the intents they ask for
    VramSizes,  \* the VRAM totals, in GB, the machine may report; 0: unknown
    MaxUses     \* bound on useCounter, for model checking only

ASSUME LegacyModelManagerAssumption ==
    /\ Intents \subseteq {"frontend", "backend", "general", "advisor"}
    /\ VramSizes \subseteq Nat
    /\ MaxUses \in Nat

VARIABLES
    engine,       \* what became of init(): "starting", "ready" or "failed"
    maxResident,
    cache,        \* the other fields of the class, see TypeOK
    lockQueue,    \* the callers chained on loadLock, the running one first
    unloading,    \* an unloadAll() of the idle timer is under way
    toUnload,     \* the keys it has not visited yet
    pc,           \* where each request stands
    want,         \* the key it asked for
    live          \* the model it was given has not been disposed

vars == <<engine, maxResident, cache, lockQueue, unloading, toUnload, pc, want,
          live>>

States == {"idle", "awaitEngine", "queued", "returning", "evicting",
           "loading", "using", "timedOut"}

TypeOK ==
    /\ engine \in {"starting", "ready", "failed"}
    /\ maxResident \in 1..3
    /\ cache \in [resident : SUBSET Keys,
                  lastUsed : [Keys -> Nat],       \* 0 when not resident
                  useCounter : Nat,
                  activeKey : Keys \cup {"none"},
                  idleTimer : BOOLEAN,            \* the timer is armed
                  loading : BOOLEAN]
    /\ lockQueue \in Seq(Callers)
    /\ unloading \in BOOLEAN
    /\ toUnload \subseteq Keys
    /\ pc \in [Callers -> States]
    /\ want \in [Callers -> Keys]
    /\ live \in [Callers -> BOOLEAN]

Init ==
    /\ engine = "starting"
    /\ maxResident = 1
    /\ cache = [resident |-> {}, lastUsed |-> [k \in Keys |-> 0],
                useCounter |-> 0, activeKey |-> "none",
                idleTimer |-> FALSE, loading |-> FALSE]
    /\ lockQueue = <<>>
    /\ unloading = FALSE
    /\ toUnload = {}
    /\ pc = [c \in Callers |-> "idle"]
    /\ want = [c \in Callers |-> "be"]
    /\ live = [c \in Callers |-> FALSE]

-----------------------------------------------------------------------------
(* The cache *)

(* Mutant: resetIdleTimer() only clears the timer.                         *)
UsedUnarmed(s, k) ==
    [s EXCEPT !.useCounter = @ + 1, !.lastUsed[k] = s.useCounter + 1,
              !.activeKey = k, !.idleTimer = FALSE]

(* takeResident() on a resident key, and what a finished load does too.    *)
Used(s, k) ==
    [s EXCEPT !.useCounter = @ + 1, !.lastUsed[k] = s.useCounter + 1,
              !.activeKey = k, !.idleTimer = TRUE]

Loaded(s, k) ==
    Used([s EXCEPT !.resident = @ \cup {k}, !.loading = FALSE], k)

(* Mutant: the disposed model remains the active one.                      *)
DisposedStillActive(s, k) ==
    [s EXCEPT !.resident = @ \ {k}, !.lastUsed[k] = 0]

(* disposeResident() on a resident key, up to the await of dispose().      *)
Disposed(s, k) ==
    [s EXCEPT !.resident = @ \ {k}, !.lastUsed[k] = 0,
              !.activeKey = IF @ = k THEN "none" ELSE @]

(* Mutant: the cache may hold one model more than the budget.              *)
RoomForOneMore(s) == Cardinality(s.resident) <= maxResident

HasRoom(s) == Cardinality(s.resident) < maxResident

LeastRecentlyUsed(s) ==
    CHOOSE k \in s.resident : \A j \in s.resident : s.lastUsed[k] <= s.lastUsed[j]

(* One turn of evictIfNeeded(), up to its await, and where it leads.       *)
MakeRoom(s) == IF HasRoom(s) THEN s ELSE Disposed(s, LeastRecentlyUsed(s))

Evicting(s) == IF HasRoom(s) THEN "loading" ELSE "evicting"

(* The load function for the key k up to its first await.                  *)
FirstSegment(s, k) ==
    IF k \in s.resident THEN Used(s, k)
    ELSE [MakeRoom(s) EXCEPT !.loading = TRUE]

FirstAwait(s, k) == IF k \in s.resident THEN "returning" ELSE Evicting(s)

(* The models of other callers that survive the step from s to t.          *)
StillLive(d, s, t) == live[d] /\ want[d] \notin s.resident \ t.resident

-----------------------------------------------------------------------------
(* Starting the engine *)

EngineReady ==
    /\ engine = "starting"
    /\ engine' = "ready"
    /\ \E gb \in VramSizes : maxResident' = BudgetForVram(gb)
    /\ UNCHANGED <<cache, lockQueue, unloading, toUnload, pc, want, live>>

EngineFails ==
    /\ engine = "starting"
    /\ engine' = "failed"
    /\ UNCHANGED <<maxResident, cache, lockQueue, unloading, toUnload, pc, want,
                   live>>

-----------------------------------------------------------------------------
(* acquire() *)

(* A caller between two microtasks: no event can run before it has.        *)
Returning == \E c \in Callers : pc[c] = "returning"

Call(c, intent) ==
    /\ ~Returning
    /\ pc[c] = "idle"
    /\ cache.useCounter < MaxUses
    /\ pc' = [pc EXCEPT ![c] = "awaitEngine"]
    /\ want' = [want EXCEPT ![c] = KeyOf(intent)]
    /\ UNCHANGED <<engine, maxResident, cache, lockQueue, unloading, toUnload,
                   live>>

RejectCall(c) ==
    /\ engine = "failed"
    /\ pc[c] = "awaitEngine"
    /\ pc' = [pc EXCEPT ![c] = "idle"]
    /\ UNCHANGED <<engine, maxResident, cache, lockQueue, unloading, toUnload,
                   want, live>>

TakeResident(c) ==
    /\ ~Returning
    /\ engine = "ready"
    /\ pc[c] = "awaitEngine"
    /\ want[c] \in cache.resident
    /\ cache' = Used(cache, want[c])
    /\ pc' = [pc EXCEPT ![c] = "using"]
    /\ live' = [live EXCEPT ![c] = TRUE]
    /\ UNCHANGED <<engine, maxResident, lockQueue, unloading, toUnload, want>>

EnterLock(c) ==
    /\ ~Returning
    /\ engine = "ready"
    /\ pc[c] = "awaitEngine"
    /\ want[c] \notin cache.resident
    /\ lockQueue' = Append(lockQueue, c)
    /\ IF lockQueue # <<>>
       THEN /\ pc' = [pc EXCEPT ![c] = "queued"]
            /\ UNCHANGED <<cache, live>>
       ELSE /\ pc' = [pc EXCEPT ![c] = FirstAwait(cache, want[c])]
            /\ cache' = FirstSegment(cache, want[c])
            /\ live' = [d \in Callers |-> StillLive(d, cache, cache')]
    /\ UNCHANGED <<engine, maxResident, unloading, toUnload, want>>

(* The evicted model is disposed and the driver has had its 500 ms.        *)
EvictionDone(c) ==
    /\ ~Returning
    /\ pc[c] = "evicting"
    /\ pc' = [pc EXCEPT ![c] = Evicting(cache)]
    /\ cache' = MakeRoom(cache)
    /\ live' = [d \in Callers |-> StillLive(d, cache, cache')]
    /\ UNCHANGED <<engine, maxResident, lockQueue, unloading, toUnload, want>>

(* The load function of c, at the head of the lock, settles with the cache *)
(* s.  The next waiter's function runs up to its first await before c gets *)
(* its model, as it was chained first.                                     *)
Settle(c, s, ok) ==
    LET rest == Tail(lockQueue)
        waiter == Head(rest)
        t == IF rest = <<>> THEN s ELSE FirstSegment(s, want[waiter])
    IN  /\ lockQueue' = rest
        /\ cache' = t
        /\ pc' = [d \in Callers |->
                    IF d = c THEN IF ok THEN "using" ELSE "idle"
                    ELSE IF rest # <<>> /\ d = waiter
                         THEN FirstAwait(s, want[d]) ELSE pc[d]]
        /\ live' = [d \in Callers |->
                       IF d = c THEN ok /\ want[c] \in t.resident
                                ELSE StillLive(d, s, t)]

LoadSucceeds(c) ==
    /\ ~Returning
    /\ pc[c] = "loading"
    /\ Settle(c, Loaded(cache, want[c]), TRUE)
    /\ UNCHANGED <<engine, maxResident, unloading, toUnload, want>>

(* No model file, or loadModel() rejects.                                  *)
LoadFails(c) ==
    /\ ~Returning
    /\ pc[c] = "loading"
    /\ Settle(c, [cache EXCEPT !.loading = FALSE], FALSE)
    /\ UNCHANGED <<engine, maxResident, unloading, toUnload, want>>

(* "The waiter ahead of us" had loaded exactly this model.                 *)
ReturnEarly(c) ==
    /\ pc[c] = "returning"
    /\ Settle(c, cache, TRUE)
    /\ UNCHANGED <<engine, maxResident, unloading, toUnload, want>>

-----------------------------------------------------------------------------
(* The requests *)

(* The request timeout: its timer is as long as the idle one, and was set  *)
(* before the request's acquire() set that.                                *)
RequestTimeout(c) ==
    /\ ~Returning
    /\ pc[c] = "using"
    /\ pc' = [pc EXCEPT ![c] = "timedOut"]
    /\ UNCHANGED <<engine, maxResident, cache, lockQueue, unloading, toUnload,
                   want, live>>

RequestEnds(c) ==
    /\ ~Returning
    /\ pc[c] \in {"using", "timedOut"}
    /\ pc' = [pc EXCEPT ![c] = "idle"]
    /\ live' = [live EXCEPT ![c] = FALSE]
    /\ UNCHANGED <<engine, maxResident, cache, lockQueue, unloading, toUnload,
                   want>>

-----------------------------------------------------------------------------
(* The idle timer *)

(* Mutant: the loop of unloadAll() ends with the first disposal.           *)
UnloadOne(s, keys) ==
    IF keys \cap s.resident = {}
    THEN /\ cache' = [s EXCEPT !.activeKey = "none"]
         /\ unloading' = FALSE
         /\ toUnload' = {}
    ELSE \E k \in keys \cap s.resident :
            /\ cache' = Disposed(s, k)
            /\ unloading' = TRUE
            /\ toUnload' = {}

(* The loop of unloadAll(), in the order of the map, from the keys still   *)
(* to be visited: a key that is not resident is passed over at once, one   *)
(* that is is disposed, even if it was loaded again since the timer fired. *)
(* At the end there is no active model, whatever was acquired meanwhile.   *)
Unload(s, keys) ==
    IF keys \cap s.resident = {}
    THEN /\ cache' = [s EXCEPT !.activeKey = "none"]
         /\ unloading' = FALSE
         /\ toUnload' = {}
    ELSE \E k \in keys \cap s.resident, passed \in SUBSET (keys \ s.resident) :
            /\ cache' = Disposed(s, k)
            /\ unloading' = TRUE
            /\ toUnload' = keys \ ({k} \cup passed)

(* Disposals take far less than the timer: the last unloadAll() is over.   *)
IdleFires ==
    /\ ~Returning
    /\ cache.idleTimer
    /\ ~unloading
    /\ \A c \in Callers : pc[c] # "using"
    /\ Unload([cache EXCEPT !.idleTimer = FALSE], cache.resident)
    /\ live' = [c \in Callers |-> StillLive(c, cache, cache')]
    /\ UNCHANGED <<engine, maxResident, lockQueue, pc, want>>

DisposalDone ==
    /\ ~Returning
    /\ unloading
    /\ Unload(cache, toUnload)
    /\ live' = [c \in Callers |-> StillLive(c, cache, cache')]
    /\ UNCHANGED <<engine, maxResident, lockQueue, pc, want>>

-----------------------------------------------------------------------------
EngineStep == EngineReady \/ EngineFails

AcquireStep(c) ==
    \/ RejectCall(c) \/ TakeResident(c) \/ EnterLock(c)
    \/ EvictionDone(c) \/ LoadSucceeds(c) \/ LoadFails(c) \/ ReturnEarly(c)

RequestStep(c) ==
    \/ \E intent \in Intents : Call(c, intent)
    \/ RequestTimeout(c)
    \/ RequestEnds(c)

TimerStep == IdleFires \/ DisposalDone

AllIdle == /\ \A c \in Callers : pc[c] = "idle"
           /\ UNCHANGED vars

Next ==
    \/ EngineStep
    \/ \E c \in Callers : AcquireStep(c) \/ RequestStep(c)
    \/ TimerStep
    \/ AllIdle

(* What is awaited settles, timers fire, and a generation ends, at the     *)
(* latest when its timeout has aborted it; nobody owes a call.             *)
Fairness ==
    /\ WF_vars(EngineStep)
    /\ WF_vars(TimerStep)
    /\ \A c \in Callers :
          /\ WF_vars(AcquireStep(c))
          /\ WF_vars(RequestTimeout(c))
          /\ WF_vars(pc[c] = "timedOut" /\ RequestEnds(c))

Spec == Init /\ [][Next]_vars /\ Fairness

-----------------------------------------------------------------------------
(* Properties *)

(* status.loaded (legacyModelManager.ts:319) never lies in the direction   *)
(* that matters to the 503 guard of the chat handler: the active model is  *)
(* resident, through evictions, failed loads and unloads in any order.     *)
ActiveModelIsResident ==
    cache.activeKey # "none" => cache.activeKey \in cache.resident

(* No model is left in VRAM with nothing to unload it: the timer is armed, *)
(* or the unloading under way has still to visit every resident key.  The  *)
(* timer is not armed again by unloadAll(), so a model loaded or taken     *)
(* during an unloading must arm it itself.                                 *)
NoModelIsForgotten ==
    cache.resident # {} =>
        cache.idleTimer \/ (unloading /\ cache.resident \subseteq toUnload)

(* The resident models and the one being loaded fit the budget, although   *)
(* models also leave behind the back of the load lock.                     *)
VramWithinBudget ==
    Cardinality(cache.resident)
      + Cardinality({c \in Callers : pc[c] \in {"evicting", "loading"}})
    <= maxResident

(* Once no request comes any more, the VRAM is given back ("Idle timeout.  *)
(* Unloading all models...", legacyModelManager.ts:185).                   *)
IdleModelsAreUnloaded ==
    <>[](\A c \in Callers : pc[c] = "idle") => <>[](cache.resident = {})

(* "A concurrent mm.acquire() can DISPOSE a model that another request is  *)
(* actively generating into [...].  The queue turns that race into a wait."*)
(* (requestMutex.ts:6): with one request at a time, the model it uses is   *)
(* not disposed.                                                           *)
ModelInUseStaysLoaded == \A c \in Callers : pc[c] = "using" => live[c]

=============================================================================
