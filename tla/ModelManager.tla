---------------------------- MODULE ModelManager ----------------------------
(***************************************************************************)
(* models/modelManager.ts and models/modelLease.ts: the job pipeline's     *)
(* cache of loaded models.  Loads are chained on a promise (loadLock); a   *)
(* model that does not fit makes the least recently used one leave.        *)
(*                                                                         *)
(* An action is what runs between two awaits.  The order of the microtasks *)
(* matters when a load function settles: the reaction that starts the next *)
(* waiter's function was registered before the one that resumes the caller *)
(* whose function settled, so the waiter runs up to its first await, the   *)
(* deletion of the model it evicts included, before that caller reads the  *)
(* map of resident models.                                                 *)
(***************************************************************************)
EXTENDS VramBudget, Sequences, FiniteSets

CONSTANTS
    Callers,    \* the concurrent users of acquire()
    Intents,    \* the intents they ask for
    VramSizes,  \* the VRAM totals, in GB, the machine may report; 0: unknown
    MaxUses     \* bound on useCounter, for model checking only

ASSUME ModelManagerAssumption ==
    /\ Intents \subseteq {"frontend", "backend", "general", "advisor"}
    /\ VramSizes \subseteq Nat
    /\ MaxUses \in Nat

VARIABLES
    engine,       \* what became of init(): "starting", "ready" or "failed"
    maxResident,
    resident,     \* the keys of the resident map
    lastUsed,     \* their lastUsed, 0 when not resident
    useCounter,
    loading,      \* status.loading
    lockQueue,    \* the callers chained on loadLock, the running one first
    pc,           \* where each call of acquire() stands
    want,         \* the key it asked for
    leaseLive,    \* the model of the caller's lease has not been disposed
    result        \* how the caller's last acquire() ended

vars == <<engine, maxResident, resident, lastUsed, useCounter, loading,
          lockQueue, pc, want, leaseLive, result>>

States == {"idle", "awaitEngine", "queued", "returning", "evicting",
           "loading", "holding"}
Results == {"none", "lease", "engineError", "loadError", "typeError"}

TypeOK ==
    /\ engine \in {"starting", "ready", "failed"}
    /\ maxResident \in 1..3
    /\ resident \subseteq Keys
    /\ lastUsed \in [Keys -> Nat]
    /\ useCounter \in Nat
    /\ loading \in BOOLEAN
    /\ lockQueue \in Seq(Callers)
    /\ pc \in [Callers -> States]
    /\ want \in [Callers -> Keys]
    /\ leaseLive \in [Callers -> BOOLEAN]
    /\ result \in [Callers -> Results]

Init ==
    /\ engine = "starting"
    /\ maxResident = 1
    /\ resident = {}
    /\ lastUsed = [k \in Keys |-> 0]
    /\ useCounter = 0
    /\ loading = FALSE
    /\ lockQueue = <<>>
    /\ pc = [c \in Callers |-> "idle"]
    /\ want = [c \in Callers |-> "be"]
    /\ leaseLive = [c \in Callers |-> FALSE]
    /\ result = [c \in Callers |-> "none"]

-----------------------------------------------------------------------------
(* Starting the engine *)

EngineReady ==
    /\ engine = "starting"
    /\ engine' = "ready"
    /\ \E gb \in VramSizes : maxResident' = BudgetForVram(gb)
    /\ UNCHANGED <<resident, lastUsed, useCounter, loading, lockQueue, pc,
                   want, leaseLive, result>>

EngineFails ==
    /\ engine = "starting"
    /\ engine' = "failed"
    /\ UNCHANGED <<maxResident, resident, lastUsed, useCounter, loading,
                   lockQueue, pc, want, leaseLive, result>>

-----------------------------------------------------------------------------
(* The load lock *)

(* A caller between two microtasks: no event can run before it has.        *)
Returning == \E c \in Callers : pc[c] = "returning"

(* Mutant: the most recently used model goes first.                        *)
MostRecentlyUsed(keys, used) ==
    CHOOSE k \in keys : \A j \in keys : used[k] >= used[j]

LeastRecentlyUsed(keys, used) ==
    CHOOSE k \in keys : \A j \in keys : used[k] <= used[j]

(* Mutant: one model more than the budget may be resident.                 *)
EvictedLate(keys, used) ==
    IF Cardinality(keys) > maxResident THEN {LeastRecentlyUsed(keys, used)}
                                       ELSE {}

(* Mutant: there must be room for one model more than the one to load.     *)
EvictedEarly(keys, used) ==
    IF Cardinality(keys) + 1 >= maxResident /\ keys # {}
    THEN {LeastRecentlyUsed(keys, used)} ELSE {}

(* What evictIfNeeded() deletes from the map at once, `keys` being         *)
(* resident and last used as `used` says.                                  *)
Evicted(keys, used) ==
    IF Cardinality(keys) >= maxResident THEN {LeastRecentlyUsed(keys, used)}
                                        ELSE {}

(* Mutant: a waiter loads its model without looking whether it is there.   *)
FirstAwaitUnchecked(c, keys, used) ==
    IF Evicted(keys, used) # {} THEN "evicting" ELSE "loading"

(* The load function of c up to its first await: where it gets, and the    *)
(* keys it leaves resident.                                                *)
FirstAwait(c, keys, used) ==
    IF want[c] \in keys THEN "returning"
    ELSE IF Evicted(keys, used) # {} THEN "evicting" ELSE "loading"

KeysAtFirstAwait(c, keys, used) ==
    IF want[c] \in keys THEN keys ELSE keys \ Evicted(keys, used)

(* disposeResident() on every key outside `keys`.                          *)
Forget(keys, used) == [k \in Keys |-> IF k \in keys THEN used[k] ELSE 0]

(* The load function of the caller c at the head of the lock settles: keys *)
(* are resident by then.  The next waiter runs first; then c reads the map,*)
(* unless its load failed, and finds its model there or not.               *)
Settle(c, keys, used, ok) ==
    LET rest == Tail(lockQueue)
        left == IF rest = <<>> THEN keys
                ELSE KeysAtFirstAwait(Head(rest), keys, used)
        end == IF ~ok THEN "loadError"
               ELSE IF want[c] \in left THEN "lease" ELSE "typeError"
        next == [d \in Callers |->
                    IF d = c THEN IF end = "lease" THEN "holding" ELSE "idle"
                    ELSE IF rest # <<>> /\ d = Head(rest)
                         THEN FirstAwait(d, keys, used) ELSE pc[d]]
    IN  /\ lockQueue' = rest
        /\ resident' = left
        /\ lastUsed' = Forget(left, used)
        /\ pc' = next
        /\ loading' = (rest # <<>> /\ next[Head(rest)] # "returning")
        /\ result' = [result EXCEPT ![c] = end]
        /\ leaseLive' = [d \in Callers |->
                            IF d = c THEN end = "lease"
                            ELSE leaseLive[d] /\ want[d] \notin keys \ left]

-----------------------------------------------------------------------------
(* acquire() *)

Call(c, intent) ==
    /\ ~Returning
    /\ pc[c] = "idle"
    /\ useCounter < MaxUses
    /\ pc' = [pc EXCEPT ![c] = "awaitEngine"]
    /\ want' = [want EXCEPT ![c] = KeyOf(intent)]
    /\ UNCHANGED <<engine, maxResident, resident, lastUsed, useCounter,
                   loading, lockQueue, leaseLive, result>>

(* init() was rejected, and so is everything that awaits it.               *)
RejectCall(c) ==
    /\ engine = "failed"
    /\ pc[c] = "awaitEngine"
    /\ pc' = [pc EXCEPT ![c] = "idle"]
    /\ result' = [result EXCEPT ![c] = "engineError"]
    /\ UNCHANGED <<engine, maxResident, resident, lastUsed, useCounter,
                   loading, lockQueue, want, leaseLive>>

(* The model is resident: it becomes the most recently used one.           *)
TakeResident(c) ==
    /\ ~Returning
    /\ engine = "ready"
    /\ pc[c] = "awaitEngine"
    /\ want[c] \in resident
    /\ useCounter' = useCounter + 1
    /\ lastUsed' = [lastUsed EXCEPT ![want[c]] = useCounter + 1]
    /\ pc' = [pc EXCEPT ![c] = "holding"]
    /\ leaseLive' = [leaseLive EXCEPT ![c] = TRUE]
    /\ result' = [result EXCEPT ![c] = "lease"]
    /\ UNCHANGED <<engine, maxResident, resident, loading, lockQueue, want>>

(* It is not: the caller queues on the load lock, or starts at once.       *)
EnterLock(c) ==
    /\ ~Returning
    /\ engine = "ready"
    /\ pc[c] = "awaitEngine"
    /\ want[c] \notin resident
    /\ lockQueue' = Append(lockQueue, c)
    /\ \/ /\ lockQueue # <<>>
          /\ pc' = [pc EXCEPT ![c] = "queued"]
          /\ UNCHANGED <<resident, lastUsed, loading, leaseLive>>
       \/ /\ lockQueue = <<>>
          /\ pc' = [pc EXCEPT ![c] = FirstAwait(c, resident, lastUsed)]
          /\ resident' = KeysAtFirstAwait(c, resident, lastUsed)
          /\ lastUsed' = Forget(resident', lastUsed)
          /\ loading' = TRUE
          /\ leaseLive' = [d \in Callers |->
                              leaseLive[d] /\ want[d] \notin resident \ resident']
    /\ UNCHANGED <<engine, maxResident, useCounter, want, result>>

(* The evicted model is disposed and the driver has had its 500 ms: evict  *)
(* again if there is still no room, load otherwise.                        *)
EvictionDone(c) ==
    /\ ~Returning
    /\ pc[c] = "evicting"
    /\ resident' = resident \ Evicted(resident, lastUsed)
    /\ pc' = [pc EXCEPT ![c] = FirstAwait(c, resident, lastUsed)]
    /\ lastUsed' = Forget(resident', lastUsed)
    /\ leaseLive' = [d \in Callers |->
                        leaseLive[d] /\ want[d] \notin Evicted(resident, lastUsed)]
    /\ UNCHANGED <<engine, maxResident, useCounter, loading, lockQueue, want,
                   result>>

LoadSucceeds(c) ==
    /\ ~Returning
    /\ pc[c] = "loading"
    /\ useCounter' = useCounter + 1
    /\ Settle(c, resident \cup {want[c]},
              [lastUsed EXCEPT ![want[c]] = useCounter + 1], TRUE)
    /\ UNCHANGED <<engine, maxResident, want>>

(* Mutant: a rejected load poisons the queue.                              *)
LoadFailsAndKeepsLock(c) ==
    /\ ~Returning
    /\ pc[c] = "loading"
    /\ pc' = [pc EXCEPT ![c] = "idle"]
    /\ loading' = FALSE
    /\ result' = [result EXCEPT ![c] = "loadError"]
    /\ UNCHANGED <<engine, maxResident, resident, lastUsed, useCounter,
                   lockQueue, want, leaseLive>>

(* No model file, or loadModel() rejects.                                  *)
LoadFails(c) ==
    /\ ~Returning
    /\ pc[c] = "loading"
    /\ Settle(c, resident, lastUsed, FALSE)
    /\ UNCHANGED <<engine, maxResident, useCounter, want>>

(* The waiter found its model resident and returns without loading it.     *)
ReturnEarly(c) ==
    /\ pc[c] = "returning"
    /\ Settle(c, resident, lastUsed, TRUE)
    /\ UNCHANGED <<engine, maxResident, useCounter, want>>

(* lease.release() only tells the event bus.                               *)
ReleaseLease(c) ==
    /\ ~Returning
    /\ pc[c] = "holding"
    /\ pc' = [pc EXCEPT ![c] = "idle"]
    /\ leaseLive' = [leaseLive EXCEPT ![c] = FALSE]
    /\ UNCHANGED <<engine, maxResident, resident, lastUsed, useCounter,
                   loading, lockQueue, want, result>>

-----------------------------------------------------------------------------
EngineStep == EngineReady \/ EngineFails

(* What the manager does for the call of c once it is made.                *)
AcquireStep(c) ==
    \/ RejectCall(c) \/ TakeResident(c) \/ EnterLock(c)
    \/ EvictionDone(c) \/ LoadSucceeds(c) \/ LoadFails(c) \/ ReturnEarly(c)

CallerStep(c) ==
    \/ \E intent \in Intents : Call(c, intent)
    \/ ReleaseLease(c)

(* No caller is left with anything to do: the bounded instance may stop.   *)
AllIdle == /\ \A c \in Callers : pc[c] = "idle"
           /\ UNCHANGED vars

Next ==
    \/ EngineStep
    \/ \E c \in Callers : AcquireStep(c) \/ CallerStep(c)
    \/ AllIdle

(* getLlama(), dispose(), the timer and loadModel() settle; nobody owes a  *)
(* call, and a lease may be kept for ever.                                 *)
Fairness == WF_vars(EngineStep) /\ \A c \in Callers : WF_vars(AcquireStep(c))

Spec == Init /\ [][Next]_vars /\ Fairness

-----------------------------------------------------------------------------
(* Properties *)

(* The caller that holds the load lock, and nobody else, evicts or loads;  *)
(* while anybody is in the queue its head is at work, so a load that fails *)
(* hands the lock over ("the next waiter still runs", withLoadLock); and   *)
(* status.loading says whether a load is under way.                        *)
AtWork(c) == pc[c] \in {"evicting", "loading", "returning"}

LockIsHandedOver ==
    /\ \A c \in Callers : AtWork(c) <=> lockQueue # <<>> /\ c = Head(lockQueue)
    /\ \A c \in Callers :
          pc[c] = "queued" <=> \E i \in 2..Len(lockQueue) : lockQueue[i] = c
    /\ \A i, j \in DOMAIN lockQueue : lockQueue[i] = lockQueue[j] => i = j
    /\ loading <=> \E c \in Callers : pc[c] \in {"evicting", "loading"}

(* The models that occupy VRAM - the resident ones, the one being loaded   *)
(* and the one whose memory the driver has not given back - never exceed   *)
(* the budget detected at init.                                            *)
VramWithinBudget ==
    Cardinality(resident)
      + Cardinality({c \in Callers : pc[c] \in {"evicting", "loading"}})
    <= maxResident

(* A model is never loaded over a resident one of the same key, whose      *)
(* memory nobody could free any more: a waiter looks again once it has the *)
(* lock ("the waiter ahead of us loaded it").                              *)
NeverLoadedTwice ==
    \A c \in Callers : pc[c] \in {"evicting", "loading"} => want[c] \notin resident

(* "The eviction is still LRU: whichever model was used least recently     *)
(* goes first": what a step evicts was last used before everything that is *)
(* resident after it, the model the step itself loads or leases included.  *)
EvictsLeastRecentlyUsed ==
    \A k \in resident \ resident', j \in resident' : lastUsed[k] < lastUsed'[j]

LeastRecentlyUsedGoesFirst == [][EvictsLeastRecentlyUsed]_vars

(* Every call of acquire() ends with a lease or an error, whichever loads  *)
(* fail and whichever callers are ahead.                                   *)
EveryAcquireSettles ==
    \A c \in Callers : pc[c] # "idle" ~> pc[c] \in {"idle", "holding"}

(* "The model cannot be unloaded while any lease exists" (modelLease.ts)   *)
(* and "Serialises loads so a concurrent acquire queues instead of         *)
(* throwing" (modelManager.ts) hold on a card that takes every model: there*)
(* no lease ever outlives its model, and no acquire whose load succeeded   *)
(* finds it evicted.  On a smaller card neither holds, as evictions ask    *)
(* nobody and the next waiter's comes before the lease is made.            *)
LeasesHoldWhereAllFit ==
    maxResident = 3 =>
        \A c \in Callers : /\ pc[c] = "holding" => leaseLive[c]
                           /\ result[c] # "typeError"

=============================================================================
