------------------------- MODULE ModelManagerProofs -------------------------
(***************************************************************************)
(* For every set of callers, of intents and of VRAM totals: the load lock  *)
(* is always handed over, the models in memory never exceed the budget, no *)
(* model is loaded over a resident one, and eviction is LRU.               *)
(***************************************************************************)
EXTENDS ModelManager, SequenceTheorems, FiniteSetTheorems, TLAPS

Busy(c) == pc[c] \in {"evicting", "loading"}

(* Whoever evicts or loads has room for its model, and needs it.           *)
BudgetInv ==
    /\ Cardinality(resident) <= maxResident
    /\ \A c \in Callers : Busy(c) => /\ Cardinality(resident) < maxResident
                                     /\ want[c] \notin resident

(* Until the engine is ready nothing is resident and nobody uses the lock. *)
StartInv ==
    engine # "ready" =>
        /\ resident = {}
        /\ lockQueue = <<>>
        /\ \A c \in Callers : pc[c] \in {"idle", "awaitEngine"}

(* The resident keys were used at different times, all of them past.       *)
UseInv ==
    /\ \A k \in resident : lastUsed[k] <= useCounter
    /\ \A j, k \in resident : lastUsed[j] = lastUsed[k] => j = k

IInv == TypeOK /\ LockIsHandedOver /\ BudgetInv /\ StartInv /\ UseInv

-----------------------------------------------------------------------------
(* What eviction removes *)

LEMMA KeysAreFinite ==
    ASSUME NEW keys \in SUBSET Keys
    PROVE  IsFiniteSet(keys) /\ Cardinality(keys) \in Nat
  <1>1. IsFiniteSet({}) /\ Keys = (({} \cup {"fe"}) \cup {"be"}) \cup {"advisor"}
    BY FS_EmptySet DEF Keys
  <1>2. IsFiniteSet({} \cup {"fe"})
    BY <1>1, FS_AddElement
  <1>3. IsFiniteSet(({} \cup {"fe"}) \cup {"be"})
    BY <1>2, FS_AddElement
  <1>4. IsFiniteSet(Keys)
    BY <1>1, <1>3, FS_AddElement
  <1> QED
    BY <1>4, FS_Subset, FS_CardinalityType

(* Among any resident keys one was used no later than the others.          *)
LEMMA LeastRecentlyUsedIsLeast ==
    ASSUME NEW keys \in SUBSET Keys, keys # {}, NEW used \in [Keys -> Nat]
    PROVE  /\ LeastRecentlyUsed(keys, used) \in keys
           /\ \A j \in keys : used[LeastRecentlyUsed(keys, used)] <= used[j]
  <1>1. used["fe"] \in Nat /\ used["be"] \in Nat /\ used["advisor"] \in Nat
    BY DEF Keys
  <1>2. \E k \in keys : \A j \in keys : used[k] <= used[j]
    <2>1. /\ \A k \in keys : k \in {"fe", "be", "advisor"}
          /\ "fe" \in keys \/ "be" \in keys \/ "advisor" \in keys
      BY DEF Keys
    <2> DEFINE f == used["fe"]
               b == used["be"]
               a == used["advisor"]
    <2>2. CASE "fe" \in keys /\ ("be" \in keys => f <= b)
                            /\ ("advisor" \in keys => f <= a)
      BY <1>1, <2>1, <2>2
    <2>3. CASE "be" \in keys /\ ("fe" \in keys => b <= f)
                            /\ ("advisor" \in keys => b <= a)
      BY <1>1, <2>1, <2>3
    <2>4. CASE "advisor" \in keys /\ ("fe" \in keys => a <= f)
                                 /\ ("be" \in keys => a <= b)
      BY <1>1, <2>1, <2>4
    <2>5. f \in Nat /\ b \in Nat /\ a \in Nat
      BY <1>1
    <2> HIDE DEF f, b, a
    <2> QED
      BY <2>1, <2>2, <2>3, <2>4, <2>5
  <1> QED
    BY <1>2, Zenon DEF LeastRecentlyUsed

(* One eviction is enough to make room, and takes the least recently used. *)
LEMMA EvictionMakesRoom ==
    ASSUME TypeOK, NEW keys \in SUBSET Keys, NEW used \in [Keys -> Nat],
           Cardinality(keys) <= maxResident
    PROVE  /\ Evicted(keys, used) \subseteq keys
           /\ Cardinality(keys \ Evicted(keys, used)) < maxResident
           /\ Cardinality(keys) < maxResident => Evicted(keys, used) = {}
           /\ \A k \in Evicted(keys, used) : \A j \in keys : used[k] <= used[j]
  <1>1. /\ IsFiniteSet(keys) /\ Cardinality(keys) \in Nat
        /\ maxResident \in 1..3
    BY KeysAreFinite DEF TypeOK
  <1>2. CASE Cardinality(keys) < maxResident
    <2>1. Evicted(keys, used) = {}
      BY <1>1, <1>2 DEF Evicted
    <2>2. keys \ Evicted(keys, used) = keys
      BY <2>1
    <2> QED
      BY <1>2, <2>1, <2>2
  <1>3. CASE Cardinality(keys) = maxResident
    <2> DEFINE k == LeastRecentlyUsed(keys, used)
    <2>1. keys # {}
      BY <1>1, <1>3, FS_EmptySet
    <2>2. Evicted(keys, used) = {k}
      BY <1>1, <1>3 DEF Evicted
    <2>3. k \in keys /\ \A j \in keys : used[k] <= used[j]
      BY <2>1, LeastRecentlyUsedIsLeast
    <2> HIDE DEF k
    <2>4. Cardinality(keys \ {k}) = Cardinality(keys) - 1
      BY <1>1, <2>3, FS_RemoveElement
    <2> QED
      BY <1>1, <1>3, <2>2, <2>3, <2>4
  <1> QED
    BY <1>1, <1>2, <1>3

(* A caller whose load function has run up to its first await returns, or  *)
(* has made room for a model that is not there.                            *)
LEMMA FirstAwaitHasRoom ==
    ASSUME TypeOK, NEW c \in Callers, NEW keys \in SUBSET Keys,
           NEW used \in [Keys -> Nat], Cardinality(keys) <= maxResident
    PROVE  LET left == KeysAtFirstAwait(c, keys, used)
               at == FirstAwait(c, keys, used) IN
           /\ left \subseteq keys
           /\ Cardinality(left) <= maxResident
           /\ at \in {"returning", "evicting", "loading"}
           /\ at = "returning" => left = keys
           /\ at # "returning" => /\ Cardinality(left) < maxResident
                                  /\ want[c] \notin left
           /\ \A k \in keys \ left : \A j \in left : used[k] <= used[j]
  <1>1. /\ Evicted(keys, used) \subseteq keys
        /\ Cardinality(keys \ Evicted(keys, used)) < maxResident
        /\ \A k \in Evicted(keys, used) : \A j \in keys : used[k] <= used[j]
    BY EvictionMakesRoom
  <1>2. CASE want[c] \in keys
    BY <1>2 DEF KeysAtFirstAwait, FirstAwait
  <1>3. CASE want[c] \notin keys
    <2>1. /\ KeysAtFirstAwait(c, keys, used) = keys \ Evicted(keys, used)
          /\ FirstAwait(c, keys, used) \in {"evicting", "loading"}
      BY <1>3 DEF KeysAtFirstAwait, FirstAwait
    <2>2. Cardinality(keys \ Evicted(keys, used)) \in Nat /\ maxResident \in Nat
      BY KeysAreFinite DEF TypeOK
    <2> QED
      BY <1>1, <1>3, <2>1, <2>2
  <1> QED
    BY <1>2, <1>3

-----------------------------------------------------------------------------
(* The lock *)

(* The shape of the queue behind the caller that holds the lock.           *)
LEMMA BehindTheHead ==
    ASSUME IInv, NEW c \in Callers, AtWork(c)
    PROVE  LET rest == Tail(lockQueue) IN
           /\ c = Head(lockQueue)
           /\ rest \in Seq(Callers)
           /\ DOMAIN rest = 1..Len(rest)
           /\ Len(rest) \in Nat
           /\ lockQueue # <<>>
           /\ DOMAIN lockQueue = 1..(Len(rest) + 1)
           /\ Len(lockQueue) = Len(rest) + 1
           /\ lockQueue[1] = c
           /\ \A i \in 1..Len(rest) : rest[i] = lockQueue[i + 1]
           /\ rest # <<>> => /\ Len(rest) > 0
                             /\ Head(rest) = rest[1]
                             /\ Head(rest) \in Callers
                             /\ Head(rest) # c
                             /\ pc[Head(rest)] = "queued"
           /\ rest = <<>> => Len(rest) = 0
  <1> DEFINE rest == Tail(lockQueue)
  <1>1. c = Head(lockQueue) /\ lockQueue # <<>> /\ lockQueue \in Seq(Callers)
    BY DEF IInv, LockIsHandedOver, TypeOK
  <1>2. /\ rest \in Seq(Callers)
        /\ Len(rest) = Len(lockQueue) - 1
        /\ \A i \in 1..Len(rest) : rest[i] = lockQueue[i + 1]
    BY <1>1, HeadTailProperties
  <1>3. /\ Len(lockQueue) \in Nat /\ Len(rest) \in Nat
        /\ DOMAIN lockQueue = 1..Len(lockQueue)
        /\ DOMAIN rest = 1..Len(rest)
    BY <1>1, <1>2, LenProperties
  <1>4. lockQueue[1] = c
    BY <1>1
  <1>5. rest = <<>> <=> Len(rest) = 0
    BY <1>2, EmptySeq
  <1>6. ASSUME rest # <<>>
        PROVE  /\ Len(rest) > 0
               /\ Head(rest) = rest[1]
               /\ Head(rest) \in Callers
               /\ Head(rest) # c
               /\ pc[Head(rest)] = "queued"
    <2>1. Len(rest) > 0
      BY <1>3, <1>5, <1>6
    <2>2. Head(rest) = rest[1] /\ Head(rest) \in Callers
      BY <1>2, <1>6, HeadTailProperties
    <2> HIDE DEF rest
    <2>3. Head(rest) = lockQueue[2] /\ 2 \in 2..Len(lockQueue)
      BY <1>2, <1>3, <2>1, <2>2
    <2>4. Head(rest) # c
      BY <1>3, <1>4, <2>3 DEF IInv, LockIsHandedOver
    <2>5. pc[Head(rest)] = "queued"
      BY <2>2, <2>3 DEF IInv, LockIsHandedOver
    <2> QED
      BY <2>1, <2>2, <2>4, <2>5
  <1> HIDE DEF rest
  <1>7. Len(lockQueue) = Len(rest) + 1
    BY <1>2, <1>3
  <1> QED
    BY <1>1, <1>2, <1>3, <1>4, <1>5, <1>6, <1>7 DEF rest

(* When the holder c gives up the lock and the next waiter, if there is    *)
(* one, starts at once, the lock is in good order again.                   *)
LEMMA HandOver ==
    ASSUME IInv, NEW c \in Callers, AtWork(c),
           lockQueue' = Tail(lockQueue),
           pc'[c] \in {"idle", "holding"},
           \A d \in Callers \ {c} :
              IF lockQueue' # <<>> /\ d = Head(lockQueue')
              THEN pc'[d] \in {"returning", "evicting", "loading"}
              ELSE pc'[d] = pc[d],
           loading' <=> /\ lockQueue' # <<>>
                        /\ pc'[Head(lockQueue')] # "returning"
    PROVE  LockIsHandedOver'
  <1> DEFINE rest == Tail(lockQueue)
  <1>1. /\ c = Head(lockQueue)
        /\ DOMAIN rest = 1..Len(rest)
        /\ Len(rest) \in Nat
        /\ DOMAIN lockQueue = 1..(Len(rest) + 1)
        /\ Len(lockQueue) = Len(rest) + 1
        /\ lockQueue[1] = c
        /\ \A i \in 1..Len(rest) : rest[i] = lockQueue[i + 1]
        /\ rest # <<>> => /\ Len(rest) > 0
                          /\ Head(rest) = rest[1]
                          /\ Head(rest) \in Callers
                          /\ Head(rest) # c
                          /\ pc[Head(rest)] = "queued"
        /\ rest = <<>> => Len(rest) = 0
    BY BehindTheHead
  <1>2. lockQueue' = rest
    OBVIOUS
  <1> HIDE DEF rest
  <1>3. \A i, j \in DOMAIN rest : rest[i] = rest[j] => i = j
    <2> TAKE i, j \in DOMAIN rest
    <2> HAVE rest[i] = rest[j]
    <2>1. i \in 1..Len(rest) /\ j \in 1..Len(rest)
      BY <1>1
    <2>2. lockQueue[i + 1] = lockQueue[j + 1]
      BY <1>1, <2>1
    <2>3. i + 1 \in DOMAIN lockQueue /\ j + 1 \in DOMAIN lockQueue
      BY <1>1, <2>1
    <2>4. i + 1 = j + 1
      BY <2>2, <2>3 DEF IInv, LockIsHandedOver
    <2> QED
      BY <2>1, <2>4
  <1>4. \A d \in Callers : AtWork(d)' <=> rest # <<>> /\ d = Head(rest)
    BY <1>1, <1>2 DEF AtWork, IInv, LockIsHandedOver
  <1>5. ASSUME NEW d \in Callers
        PROVE  pc'[d] = "queued" <=> \E i \in 2..Len(rest) : rest[i] = d
    <2>1. CASE d = c
      <3>1. \A i \in 1..Len(rest) : rest[i] # c
        BY <1>1 DEF IInv, LockIsHandedOver
      <3> QED
        BY <1>1, <2>1, <3>1
    <2>2. CASE rest # <<>> /\ d = Head(rest)
      <3>1. \A i \in 2..Len(rest) : rest[i] # d
        BY <1>1, <1>3, <2>2
      <3> QED
        BY <1>1, <1>2, <2>2, <3>1
    <2>3. CASE d # c /\ ~(rest # <<>> /\ d = Head(rest))
      <3>1. pc'[d] = pc[d]
        BY <1>2, <2>3
      <3>2. pc[d] = "queued" <=> \E i \in 2..(Len(rest) + 1) : lockQueue[i] = d
        BY <1>1 DEF IInv, LockIsHandedOver
      <3>3. ASSUME NEW i \in 2..(Len(rest) + 1), lockQueue[i] = d
            PROVE  \E j \in 2..Len(rest) : rest[j] = d
        <4>1. i - 1 \in 1..Len(rest) /\ (i - 1) + 1 = i
          BY <1>1, <3>3
        <4>2. rest[i - 1] = d
          BY <1>1, <3>3, <4>1
        <4>3. rest # <<>>
          BY <1>1, <4>1
        <4>4. i - 1 # 1
          BY <1>1, <2>3, <4>2, <4>3
        <4>5. i - 1 \in 2..Len(rest)
          BY <1>1, <4>1, <4>4
        <4> QED
          BY <4>2, <4>5
      <3>4. ASSUME NEW j \in 2..Len(rest), rest[j] = d
            PROVE  \E i \in 2..(Len(rest) + 1) : lockQueue[i] = d
        <4>1. j \in 1..Len(rest) /\ j + 1 \in 2..(Len(rest) + 1)
          BY <1>1, <3>4
        <4> QED
          BY <1>1, <3>4, <4>1
      <3> QED
        BY <3>1, <3>2, <3>3, <3>4
    <2> QED
      BY <2>1, <2>2, <2>3
  <1>6. loading' <=> \E d \in Callers : pc'[d] \in {"evicting", "loading"}
    BY <1>1, <1>2, <1>4 DEF AtWork
  <1>7. \A d \in Callers :
           AtWork(d)' <=> lockQueue' # <<>> /\ d = Head(lockQueue')
    BY <1>2, <1>4
  <1>8. \A d \in Callers :
           pc'[d] = "queued" <=> \E i \in 2..Len(lockQueue') : lockQueue'[i] = d
    BY <1>2, <1>5
  <1>9. \A i, j \in DOMAIN lockQueue' : lockQueue'[i] = lockQueue'[j] => i = j
    BY <1>2, <1>3
  <1> QED
    BY <1>6, <1>7, <1>8, <1>9, Zenon DEF LockIsHandedOver

(* A load function that settles keeps the invariant: what it leaves        *)
(* resident fits, whether or not the next waiter evicts some of it.        *)
LEMMA SettleKeepsIInv ==
    ASSUME IInv, NEW c \in Callers, pc[c] \in {"loading", "returning"},
           NEW keys \in SUBSET Keys, NEW used \in [Keys -> Nat],
           NEW ok \in BOOLEAN, Cardinality(keys) <= maxResident,
           useCounter' \in Nat,
           \A k \in keys : used[k] <= useCounter',
           \A j, k \in keys : used[j] = used[k] => j = k,
           Settle(c, keys, used, ok),
           UNCHANGED <<engine, maxResident, want>>
    PROVE  /\ IInv'
           /\ resident' \subseteq keys
           /\ \A k \in keys \ resident' : \A j \in resident' : used[k] <= used[j]
           /\ \A j \in resident' : lastUsed'[j] = used[j]
  <1> DEFINE rest == Tail(lockQueue)
             d == Head(rest)
             left == IF rest = <<>> THEN keys ELSE KeysAtFirstAwait(d, keys, used)
             end == IF ~ok THEN "loadError"
                    ELSE IF want[c] \in left THEN "lease" ELSE "typeError"
  <1>1. AtWork(c)
    BY DEF AtWork
  <1>2. /\ rest \in Seq(Callers)
        /\ lockQueue # <<>>
        /\ rest # <<>> => /\ d \in Callers /\ d # c
                          /\ pc[d] = "queued"
    BY <1>1, BehindTheHead
  <1>3. engine = "ready" /\ engine' = "ready"
    BY <1>2 DEF IInv, StartInv
  <1>4. rest # <<>> =>
           /\ KeysAtFirstAwait(d, keys, used) \subseteq keys
           /\ Cardinality(KeysAtFirstAwait(d, keys, used)) <= maxResident
           /\ FirstAwait(d, keys, used) \in {"returning", "evicting", "loading"}
           /\ FirstAwait(d, keys, used) # "returning" =>
                 /\ Cardinality(KeysAtFirstAwait(d, keys, used)) < maxResident
                 /\ want[d] \notin KeysAtFirstAwait(d, keys, used)
           /\ \A k \in keys \ KeysAtFirstAwait(d, keys, used) :
              \A j \in KeysAtFirstAwait(d, keys, used) : used[k] <= used[j]
    BY <1>2, FirstAwaitHasRoom DEF IInv
  <1>5. /\ left \subseteq keys /\ left \subseteq Keys
        /\ Cardinality(left) <= maxResident
        /\ \A k \in keys \ left : \A j \in left : used[k] <= used[j]
    BY <1>4
  <1>6. /\ lockQueue' = rest
        /\ resident' = left
        /\ lastUsed' = Forget(left, used)
        /\ result' = [result EXCEPT ![c] = end]
        /\ leaseLive' = [x \in Callers |->
                            IF x = c THEN end = "lease"
                            ELSE leaseLive[x] /\ want[x] \notin keys \ left]
    BY DEF Settle
  <1>7. pc' = [x \in Callers |->
                  IF x = c THEN IF end = "lease" THEN "holding" ELSE "idle"
                  ELSE IF rest # <<>> /\ x = d
                       THEN FirstAwait(x, keys, used) ELSE pc[x]]
    BY DEF Settle
  <1>8. loading' = (rest # <<>> /\ pc'[d] # "returning")
    <2>1. loading' = (rest # <<>> /\ [x \in Callers |->
                  IF x = c THEN IF end = "lease" THEN "holding" ELSE "idle"
                  ELSE IF rest # <<>> /\ x = d
                       THEN FirstAwait(x, keys, used) ELSE pc[x]][d] # "returning")
      BY DEF Settle
    <2> QED
      BY <1>7, <2>1, Zenon
  <1> HIDE DEF rest, d, left, end
  <1>9. /\ pc'[c] \in {"idle", "holding"}
        /\ rest # <<>> => pc'[d] = FirstAwait(d, keys, used)
        /\ \A x \in Callers \ {c} : ~(rest # <<>> /\ x = d) => pc'[x] = pc[x]
    BY <1>2, <1>7
  <1>10. LockIsHandedOver'
    <2>1. lockQueue' = Tail(lockQueue) /\ lockQueue' = rest /\ d = Head(lockQueue')
      BY <1>6 DEF rest, d
    <2>2. \A x \in Callers \ {c} :
              IF lockQueue' # <<>> /\ x = Head(lockQueue')
              THEN pc'[x] \in {"returning", "evicting", "loading"}
              ELSE pc'[x] = pc[x]
      BY <1>4, <1>9, <2>1
    <2>3. loading' <=> /\ lockQueue' # <<>>
                       /\ pc'[Head(lockQueue')] # "returning"
      BY <1>8, <2>1, Zenon
    <2> QED
      BY <1>1, <1>9, <2>1, <2>2, <2>3, HandOver
  <1>11. TypeOK'
    <2>1. pc' \in [Callers -> States]
      BY <1>4, <1>7 DEF IInv, TypeOK, States
    <2>2. lastUsed' \in [Keys -> Nat]
      BY <1>6 DEF Forget
    <2>3. leaseLive' \in [Callers -> BOOLEAN]
      BY <1>6 DEF IInv, TypeOK
    <2>4. result' \in [Callers -> Results]
      BY <1>6 DEF end, IInv, TypeOK, Results
    <2>5. loading' \in BOOLEAN
      BY <1>8, Zenon
    <2>6. resident' \subseteq Keys /\ lockQueue' \in Seq(Callers)
      BY <1>2, <1>5, <1>6
    <2> QED
      BY <2>1, <2>2, <2>3, <2>4, <2>5, <2>6 DEF IInv, TypeOK
  <1>12. \A j \in resident' : lastUsed'[j] = used[j]
    BY <1>5, <1>6 DEF Forget
  <1>13. BudgetInv'
    <2>1. Cardinality(resident') <= maxResident'
      BY <1>5, <1>6
    <2>2. ASSUME NEW x \in Callers, pc'[x] \in {"evicting", "loading"}
          PROVE  Cardinality(resident') < maxResident' /\ want'[x] \notin resident'
      <3>1. x # c
        BY <1>9, <2>2
      <3>2. pc[x] \notin {"evicting", "loading"}
        BY <1>1, <3>1 DEF IInv, LockIsHandedOver, AtWork
      <3>3. rest # <<>> /\ x = d
        BY <1>9, <2>2, <3>1, <3>2
      <3>4. left = KeysAtFirstAwait(d, keys, used)
        BY <3>3 DEF left
      <3> QED
        BY <1>4, <1>6, <1>9, <2>2, <3>3, <3>4
    <2> QED
      BY <2>1, <2>2 DEF BudgetInv, Busy
  <1>14. UseInv'
    BY <1>5, <1>6, <1>12 DEF UseInv
  <1>15. StartInv'
    BY <1>3 DEF StartInv
  <1> QED
    BY <1>5, <1>6, <1>10, <1>11, <1>12, <1>13, <1>14, <1>15 DEF IInv

-----------------------------------------------------------------------------
(* Every step keeps the invariant, and evicts only what was used least     *)
(* recently.                                                               *)

LEMMA LoadSucceedsKeepsIInv ==
    ASSUME IInv, NEW c \in Callers, LoadSucceeds(c)
    PROVE  IInv' /\ EvictsLeastRecentlyUsed
  <1> DEFINE keys == resident \cup {want[c]}
             used == [lastUsed EXCEPT ![want[c]] = useCounter + 1]
  <1>1. /\ resident \subseteq Keys /\ want[c] \in Keys
        /\ lastUsed \in [Keys -> Nat] /\ useCounter \in Nat
        /\ maxResident \in Nat
    BY DEF IInv, TypeOK
  <1>2. Cardinality(resident) < maxResident /\ want[c] \notin resident
    BY DEF LoadSucceeds, IInv, BudgetInv, Busy
  <1>3. Cardinality(keys) <= maxResident
    <2>1. IsFiniteSet(resident) /\ Cardinality(resident) \in Nat
      BY <1>1, KeysAreFinite
    <2>2. Cardinality(keys) = Cardinality(resident) + 1
      BY <1>2, <2>1, FS_AddElement
    <2> QED
      BY <1>1, <1>2, <2>1, <2>2
  <1>4. /\ keys \in SUBSET Keys /\ used \in [Keys -> Nat]
        /\ useCounter' \in Nat /\ useCounter' = useCounter + 1
        /\ UNCHANGED <<engine, maxResident, want>>
        /\ pc[c] \in {"loading", "returning"}
    BY <1>1 DEF LoadSucceeds
  <1>s. Settle(c, keys, used, TRUE)
    BY Zenon DEF LoadSucceeds
  <1>5. /\ used[want[c]] = useCounter + 1
        /\ \A k \in resident : used[k] = lastUsed[k] /\ used[k] <= useCounter
    BY <1>1, <1>2 DEF IInv, UseInv
  <1>6. /\ \A k \in keys : used[k] <= useCounter'
        /\ \A j, k \in keys : used[j] = used[k] => j = k
    <2>1. \A k \in resident : used[k] \in Nat
      BY <1>1, <1>5
    <2>2. \A k \in resident : used[k] # used[want[c]]
      BY <1>1, <1>5, <2>1
    <2>3. \A j, k \in resident : used[j] = used[k] => j = k
      BY <1>5 DEF IInv, UseInv
    <2>4. \A k \in keys : used[k] <= useCounter'
      BY <1>1, <1>4, <1>5, <2>1
    <2> QED
      BY <2>2, <2>3, <2>4
  <1> HIDE DEF keys, used
  <1>7. /\ IInv'
        /\ resident' \subseteq keys
        /\ \A k \in keys \ resident' : \A j \in resident' : used[k] <= used[j]
        /\ \A j \in resident' : lastUsed'[j] = used[j]
    BY <1>3, <1>4, <1>s, <1>6, SettleKeepsIInv
  <1>8. ASSUME NEW k \in resident \ resident', NEW j \in resident'
        PROVE  lastUsed[k] < lastUsed'[j]
    <2>1. k \in keys /\ j \in keys /\ k # j
      BY <1>7, <1>8 DEF keys
    <2>2. used[k] # used[j] /\ used[k] \in Nat /\ used[j] \in Nat
      BY <1>4, <1>6, <2>1
    <2>3. used[k] <= used[j]
      BY <1>7, <1>8, <2>1
    <2> QED
      BY <1>5, <1>7, <1>8, <2>2, <2>3
  <1> QED
    BY <1>7, <1>8 DEF EvictsLeastRecentlyUsed

(* Any eviction among the keys resident so far is of the least recently    *)
(* used one.                                                               *)
LEMMA EvictionIsLRU ==
    ASSUME IInv, resident' \subseteq resident,
           \A k \in resident \ resident' : \A j \in resident' :
              lastUsed[k] <= lastUsed[j],
           \A j \in resident' : lastUsed'[j] = lastUsed[j]
    PROVE  EvictsLeastRecentlyUsed
  <1> SUFFICES ASSUME NEW k \in resident \ resident', NEW j \in resident'
               PROVE  lastUsed[k] < lastUsed'[j]
    BY DEF EvictsLeastRecentlyUsed
  <1>1. k # j /\ lastUsed[k] # lastUsed[j]
    BY DEF IInv, UseInv
  <1>2. lastUsed[k] \in Nat /\ lastUsed[j] \in Nat
    BY DEF IInv, TypeOK
  <1> QED
    BY <1>1, <1>2

LEMMA SettleSameKeysKeepsIInv ==
    ASSUME IInv, NEW c \in Callers, LoadFails(c) \/ ReturnEarly(c)
    PROVE  IInv' /\ EvictsLeastRecentlyUsed
  <1>1. PICK ok \in BOOLEAN : /\ Settle(c, resident, lastUsed, ok)
                              /\ pc[c] \in {"loading", "returning"}
                              /\ UNCHANGED <<engine, maxResident, want>>
                              /\ useCounter' = useCounter
    BY DEF LoadFails, ReturnEarly
  <1>2. /\ resident \in SUBSET Keys
        /\ lastUsed \in [Keys -> Nat]
        /\ Cardinality(resident) <= maxResident
        /\ useCounter' \in Nat
        /\ \A k \in resident : lastUsed[k] <= useCounter'
        /\ \A j, k \in resident : lastUsed[j] = lastUsed[k] => j = k
    BY <1>1 DEF IInv, TypeOK, BudgetInv, UseInv
  <1>3. /\ IInv'
        /\ resident' \subseteq resident
        /\ \A k \in resident \ resident' : \A j \in resident' :
              lastUsed[k] <= lastUsed[j]
        /\ \A j \in resident' : lastUsed'[j] = lastUsed[j]
    BY <1>1, <1>2, SettleKeepsIInv
  <1> QED
    BY <1>3, EvictionIsLRU

(* The second and later turns of evictIfNeeded() find room: it loads.      *)
LEMMA EvictionDoneKeepsIInv ==
    ASSUME IInv, NEW c \in Callers, EvictionDone(c)
    PROVE  IInv' /\ EvictsLeastRecentlyUsed
  <1>1. /\ Cardinality(resident) < maxResident
        /\ want[c] \notin resident
        /\ resident \in SUBSET Keys
        /\ lastUsed \in [Keys -> Nat]
        /\ Cardinality(resident) <= maxResident
    BY DEF EvictionDone, IInv, TypeOK, BudgetInv, Busy
  <1>2. Evicted(resident, lastUsed) = {}
    BY <1>1, EvictionMakesRoom DEF IInv
  <1>3. /\ resident' = resident
        /\ pc' = [pc EXCEPT ![c] = "loading"]
        /\ pc[c] = "evicting"
        /\ lastUsed' = Forget(resident, lastUsed)
        /\ UNCHANGED <<engine, maxResident, useCounter, loading, lockQueue,
                       want, result>>
        /\ leaseLive' = [d \in Callers |-> leaseLive[d] /\ want[d] \notin {}]
    BY <1>1, <1>2 DEF EvictionDone, FirstAwait
  <1>4. /\ lastUsed' \in [Keys -> Nat]
        /\ \A j \in resident : lastUsed'[j] = lastUsed[j]
    BY <1>1, <1>3 DEF Forget
  <1>5. TypeOK'
    BY <1>1, <1>3, <1>4 DEF IInv, TypeOK, States
  <1>6. /\ pc'[c] = "loading"
        /\ \A d \in Callers \ {c} : pc'[d] = pc[d]
    BY <1>3 DEF IInv, TypeOK
  <1>7. LockIsHandedOver'
    <2>1. \A d \in Callers : AtWork(d)' <=> AtWork(d)
      BY <1>3, <1>6 DEF AtWork
    <2>2. \A d \in Callers : (pc'[d] = "queued") <=> (pc[d] = "queued")
      BY <1>3, <1>6
    <2>3. \A d \in Callers : (pc'[d] \in {"evicting", "loading"})
                               <=> (pc[d] \in {"evicting", "loading"})
      BY <1>3, <1>6
    <2> QED
      BY <1>3, <2>1, <2>2, <2>3 DEF IInv, LockIsHandedOver
  <1>8. BudgetInv'
    BY <1>1, <1>3, <1>6 DEF IInv, BudgetInv, Busy
  <1>9. UseInv'
    BY <1>3, <1>4 DEF IInv, UseInv
  <1>10. StartInv'
    BY <1>3 DEF IInv, StartInv
  <1>11. EvictsLeastRecentlyUsed
    BY <1>3 DEF EvictsLeastRecentlyUsed
  <1> QED
    BY <1>5, <1>7, <1>8, <1>9, <1>10, <1>11 DEF IInv

(* A caller that finds its model missing queues, or starts at once.        *)
LEMMA EnterLockKeepsIInv ==
    ASSUME IInv, NEW c \in Callers, EnterLock(c)
    PROVE  IInv' /\ EvictsLeastRecentlyUsed
  <1>1. /\ pc[c] = "awaitEngine" /\ engine = "ready"
        /\ want[c] \notin resident
        /\ lockQueue' = Append(lockQueue, c)
        /\ UNCHANGED <<engine, maxResident, useCounter, want, result>>
    BY DEF EnterLock
  <1>2. /\ resident \in SUBSET Keys
        /\ lastUsed \in [Keys -> Nat]
        /\ Cardinality(resident) <= maxResident
        /\ lockQueue \in Seq(Callers) /\ Len(lockQueue) \in Nat
        /\ DOMAIN lockQueue = 1..Len(lockQueue)
    BY LenProperties DEF IInv, TypeOK, BudgetInv
  <1>3. /\ lockQueue' \in Seq(Callers)
        /\ Len(lockQueue') = Len(lockQueue) + 1
        /\ \A i \in 1..Len(lockQueue) : lockQueue'[i] = lockQueue[i]
        /\ lockQueue'[Len(lockQueue) + 1] = c
    BY <1>1, <1>2, AppendProperties
  <1>4. /\ DOMAIN lockQueue' = 1..(Len(lockQueue) + 1)
        /\ lockQueue' # <<>>
    BY <1>2, <1>3, LenProperties, EmptySeq
  <1>5. StartInv'
    BY <1>1 DEF StartInv
  <1>6. CASE /\ lockQueue # <<>>
             /\ pc' = [pc EXCEPT ![c] = "queued"]
             /\ UNCHANGED <<resident, lastUsed, loading, leaseLive>>
    <2>1. /\ pc'[c] = "queued"
          /\ \A d \in Callers \ {c} : pc'[d] = pc[d]
          /\ pc' \in [Callers -> States]
      BY <1>6 DEF IInv, TypeOK, States
    <2>2. TypeOK'
      BY <1>1, <1>3, <1>6, <2>1 DEF IInv, TypeOK
    <2>3. BudgetInv'
      BY <1>1, <1>6, <2>1 DEF IInv, BudgetInv, Busy
    <2>4. UseInv'
      BY <1>1, <1>6 DEF IInv, UseInv
    <2>5. EvictsLeastRecentlyUsed
      BY <1>6 DEF EvictsLeastRecentlyUsed
    <2>6. Len(lockQueue) > 0 /\ lockQueue[1] = Head(lockQueue)
      BY <1>2, <1>6, EmptySeq
    <2>7. Head(lockQueue') = Head(lockQueue)
      BY <1>2, <1>3, <1>4, <2>6
    <2>8. \A i \in 1..Len(lockQueue) : lockQueue[i] # c
      <3> TAKE i \in 1..Len(lockQueue)
      <3>1. CASE i = 1
        BY <1>1, <1>6, <2>6, <3>1 DEF IInv, LockIsHandedOver, AtWork
      <3>2. CASE i # 1
        <4>1. i \in 2..Len(lockQueue)
          BY <1>2, <3>2
        <4> QED
          BY <1>1, <4>1 DEF IInv, LockIsHandedOver
      <3> QED
        BY <3>1, <3>2
    <2>9. LockIsHandedOver'
      <3>1. \A d \in Callers :
               AtWork(d)' <=> lockQueue' # <<>> /\ d = Head(lockQueue')
        BY <1>1, <1>4, <1>6, <2>1, <2>7 DEF AtWork, IInv, LockIsHandedOver
      <3>2. ASSUME NEW d \in Callers
            PROVE  pc'[d] = "queued" <=>
                      \E i \in 2..Len(lockQueue') : lockQueue'[i] = d
        <4>1. CASE d = c
          <5>1. Len(lockQueue) + 1 \in 2..Len(lockQueue')
            BY <1>2, <1>3, <2>6
          <5> QED
            BY <1>3, <2>1, <4>1, <5>1
        <4>2. CASE d # c
          <5>1. pc[d] = "queued" <=>
                   \E i \in 2..Len(lockQueue) : lockQueue[i] = d
            BY DEF IInv, LockIsHandedOver
          <5>2. (\E i \in 2..Len(lockQueue) : lockQueue[i] = d) <=>
                (\E i \in 2..Len(lockQueue') : lockQueue'[i] = d)
            BY <1>2, <1>3, <4>2
          <5> QED
            BY <2>1, <4>2, <5>1, <5>2
        <4> QED
          BY <4>1, <4>2
      <3>3. \A i, j \in DOMAIN lockQueue' :
               lockQueue'[i] = lockQueue'[j] => i = j
        BY <1>2, <1>3, <1>4, <2>8 DEF IInv, LockIsHandedOver
      <3>4. loading' <=> \E d \in Callers : pc'[d] \in {"evicting", "loading"}
        <4>1. \A d \in Callers : (pc'[d] \in {"evicting", "loading"})
                                  <=> (pc[d] \in {"evicting", "loading"})
          BY <1>1, <2>1
        <4>2. loading' = loading
          BY <1>6
        <4>3. loading <=> \E d \in Callers : pc[d] \in {"evicting", "loading"}
          BY DEF IInv, LockIsHandedOver
        <4> QED
          BY <4>1, <4>2, <4>3, Zenon
      <3> QED
        BY <3>1, <3>2, <3>3, <3>4, Zenon DEF LockIsHandedOver
    <2> QED
      BY <1>5, <2>2, <2>3, <2>4, <2>5, <2>9 DEF IInv
  <1>7. CASE /\ lockQueue = <<>>
             /\ pc' = [pc EXCEPT ![c] = FirstAwait(c, resident, lastUsed)]
             /\ resident' = KeysAtFirstAwait(c, resident, lastUsed)
             /\ lastUsed' = Forget(resident', lastUsed)
             /\ loading' = TRUE
             /\ leaseLive' = [d \in Callers |->
                                 leaseLive[d] /\ want[d] \notin resident \ resident']
    <2> DEFINE at == FirstAwait(c, resident, lastUsed)
    <2>1. /\ resident' \subseteq resident
          /\ Cardinality(resident') <= maxResident
          /\ Cardinality(resident') < maxResident
          /\ at \in {"evicting", "loading"}
          /\ want[c] \notin resident'
          /\ \A k \in resident \ resident' : \A j \in resident' :
                lastUsed[k] <= lastUsed[j]
      <3>1. at \in {"evicting", "loading"}
        BY <1>1 DEF FirstAwait
      <3> QED
        BY <1>2, <1>7, <3>1, FirstAwaitHasRoom DEF IInv
    <2> HIDE DEF at
    <2>2. /\ pc'[c] = at
          /\ \A d \in Callers \ {c} : pc'[d] = pc[d]
          /\ pc' \in [Callers -> States]
      BY <1>7, <2>1 DEF at, IInv, TypeOK, States
    <2>3. /\ lastUsed' \in [Keys -> Nat]
          /\ \A j \in resident' : lastUsed'[j] = lastUsed[j]
      BY <1>2, <1>7, <2>1 DEF Forget
    <2>4. TypeOK'
      <3>1. leaseLive' \in [Callers -> BOOLEAN]
        BY <1>7 DEF IInv, TypeOK
      <3>2. loading' \in BOOLEAN
        BY <1>7
      <3> QED
        BY <1>1, <1>2, <1>3, <2>1, <2>2, <2>3, <3>1, <3>2 DEF IInv, TypeOK
    <2>5. \A d \in Callers : ~AtWork(d) /\ pc[d] # "queued"
      <3>1. Len(lockQueue) = 0
        BY <1>7, EmptySeq
      <3> QED
        BY <1>7, <3>1 DEF IInv, LockIsHandedOver
    <2>6. BudgetInv'
      BY <1>1, <2>1, <2>2, <2>5 DEF BudgetInv, Busy, AtWork
    <2>7. UseInv'
      BY <1>1, <2>1, <2>3 DEF IInv, UseInv
    <2>8. EvictsLeastRecentlyUsed
      BY <2>1, <2>3, EvictionIsLRU
    <2>9. LockIsHandedOver'
      <3>1. Len(lockQueue) = 0
        BY <1>7, EmptySeq
      <3>2. Head(lockQueue') = c /\ lockQueue'[1] = c /\ Len(lockQueue') = 1
        BY <1>3, <1>4, <3>1
      <3>3. \A d \in Callers :
               AtWork(d)' <=> lockQueue' # <<>> /\ d = Head(lockQueue')
        BY <1>4, <2>1, <2>2, <2>5, <3>2 DEF AtWork
      <3>4. \A d \in Callers : pc'[d] = "queued" <=>
               \E i \in 2..Len(lockQueue') : lockQueue'[i] = d
        BY <2>1, <2>2, <2>5, <3>2
      <3>5. \A i, j \in DOMAIN lockQueue' :
               lockQueue'[i] = lockQueue'[j] => i = j
        BY <1>4, <3>1
      <3>6. loading' /\ \E d \in Callers : pc'[d] \in {"evicting", "loading"}
        BY <1>7, <2>1, <2>2
      <3> QED
        BY <3>3, <3>4, <3>5, <3>6, Zenon DEF LockIsHandedOver
    <2> QED
      BY <1>5, <2>4, <2>6, <2>7, <2>8, <2>9 DEF IInv
  <1> QED
    BY <1>6, <1>7 DEF EnterLock

(* A caller that moves among the states outside the lock disturbs neither  *)
(* the lock nor the budget.                                                *)
LEMMA OutsideTheLock ==
    ASSUME IInv, NEW c \in Callers,
           NEW s \in {"idle", "awaitEngine", "holding"},
           pc[c] \in {"idle", "awaitEngine", "holding"},
           pc' = [pc EXCEPT ![c] = s],
           \A d \in Callers \ {c} : want'[d] = want[d],
           UNCHANGED <<engine, maxResident, resident, loading, lockQueue>>
    PROVE  /\ pc' \in [Callers -> States]
           /\ LockIsHandedOver'
           /\ BudgetInv'
           /\ EvictsLeastRecentlyUsed
  <1>1. /\ pc'[c] = s
        /\ \A d \in Callers \ {c} : pc'[d] = pc[d]
        /\ pc' \in [Callers -> States]
    BY DEF IInv, TypeOK, States
  <1>2. /\ \A d \in Callers : AtWork(d)' <=> AtWork(d)
        /\ \A d \in Callers : (pc'[d] = "queued") <=> (pc[d] = "queued")
        /\ \A d \in Callers : (pc'[d] \in {"evicting", "loading"})
                              <=> (pc[d] \in {"evicting", "loading"})
    BY <1>1 DEF AtWork
  <1>3. LockIsHandedOver'
    BY <1>2 DEF IInv, LockIsHandedOver
  <1>4. BudgetInv'
    BY <1>1 DEF IInv, BudgetInv, Busy
  <1>5. EvictsLeastRecentlyUsed
    BY DEF EvictsLeastRecentlyUsed
  <1> QED
    BY <1>1, <1>3, <1>4, <1>5

LEMMA CallerStepKeepsIInv ==
    ASSUME IInv, NEW c \in Callers, CallerStep(c) \/ RejectCall(c)
    PROVE  IInv' /\ EvictsLeastRecentlyUsed
  <1>1. ASSUME NEW intent \in Intents, Call(c, intent)
        PROVE  IInv' /\ EvictsLeastRecentlyUsed
    <2>1. KeyOf(intent) \in Keys
      BY DEF KeyOf, Keys
    <2>2. want' \in [Callers -> Keys]
      BY <1>1, <2>1 DEF Call, IInv, TypeOK
    <2>3. /\ pc' \in [Callers -> States]
          /\ LockIsHandedOver' /\ BudgetInv' /\ EvictsLeastRecentlyUsed
      <3>1. \A d \in Callers \ {c} : want'[d] = want[d]
        BY <1>1 DEF Call, IInv, TypeOK
      <3> QED
        BY <1>1, <3>1, OutsideTheLock DEF Call
    <2>4. TypeOK'
      <3>1. UNCHANGED <<engine, maxResident, resident, lastUsed, useCounter,
                        loading, lockQueue, leaseLive, result>>
        BY <1>1 DEF Call
      <3> QED
        BY <2>2, <2>3, <3>1 DEF IInv, TypeOK
    <2>5. StartInv'
      BY <1>1 DEF Call, IInv, TypeOK, StartInv
    <2>6. UseInv'
      BY <1>1 DEF Call, IInv, UseInv
    <2> QED
      BY <2>3, <2>4, <2>5, <2>6 DEF IInv
  <1>2. CASE ReleaseLease(c)
    <2>1. /\ pc' \in [Callers -> States]
          /\ LockIsHandedOver' /\ BudgetInv' /\ EvictsLeastRecentlyUsed
      BY <1>2, OutsideTheLock DEF ReleaseLease
    <2>2. TypeOK'
      BY <1>2, <2>1 DEF ReleaseLease, IInv, TypeOK
    <2>3. StartInv'
      BY <1>2 DEF ReleaseLease, IInv, TypeOK, StartInv
    <2>4. UseInv'
      BY <1>2 DEF ReleaseLease, IInv, UseInv
    <2> QED
      BY <2>1, <2>2, <2>3, <2>4 DEF IInv
  <1>3. CASE RejectCall(c)
    <2>1. /\ pc' \in [Callers -> States]
          /\ LockIsHandedOver' /\ BudgetInv' /\ EvictsLeastRecentlyUsed
      BY <1>3, OutsideTheLock DEF RejectCall
    <2>2. TypeOK'
      BY <1>3, <2>1 DEF RejectCall, IInv, TypeOK, Results
    <2>3. StartInv'
      BY <1>3 DEF RejectCall, IInv, TypeOK, StartInv
    <2>4. UseInv'
      BY <1>3 DEF RejectCall, IInv, UseInv
    <2> QED
      BY <2>1, <2>2, <2>3, <2>4 DEF IInv
  <1> QED
    BY <1>1, <1>2, <1>3 DEF CallerStep

(* Taking a resident model makes its use the latest of all.                *)
LEMMA TakeResidentKeepsIInv ==
    ASSUME IInv, NEW c \in Callers, TakeResident(c)
    PROVE  IInv' /\ EvictsLeastRecentlyUsed
  <1>1. /\ pc' \in [Callers -> States]
        /\ LockIsHandedOver' /\ BudgetInv' /\ EvictsLeastRecentlyUsed
    BY OutsideTheLock DEF TakeResident
  <1>2. /\ resident \subseteq Keys /\ want[c] \in Keys
        /\ lastUsed \in [Keys -> Nat] /\ useCounter \in Nat
    BY DEF IInv, TypeOK
  <1>3. TypeOK'
    <2>1. lastUsed' \in [Keys -> Nat] /\ useCounter' \in Nat
      BY <1>2 DEF TakeResident
    <2> QED
      BY <1>1, <2>1 DEF TakeResident, IInv, TypeOK, Results
  <1>4. StartInv'
    BY DEF TakeResident, StartInv
  <1>5. UseInv'
    <2>1. /\ resident' = resident /\ useCounter' = useCounter + 1
          /\ lastUsed'[want[c]] = useCounter + 1
          /\ \A k \in Keys \ {want[c]} : lastUsed'[k] = lastUsed[k]
      BY <1>2 DEF TakeResident
    <2>2. /\ \A k \in resident : lastUsed[k] \in Nat /\ lastUsed[k] <= useCounter
          /\ \A j, k \in resident : lastUsed[j] = lastUsed[k] => j = k
      BY <1>2 DEF IInv, UseInv
    <2> QED
      BY <1>2, <2>1, <2>2 DEF UseInv
  <1> QED
    BY <1>1, <1>3, <1>4, <1>5 DEF IInv

(* While the engine starts nothing is resident, so any budget will do.     *)
LEMMA EngineStepKeepsIInv ==
    ASSUME IInv, EngineStep
    PROVE  IInv' /\ EvictsLeastRecentlyUsed
  <1>1. /\ UNCHANGED <<resident, lastUsed, useCounter, loading, lockQueue, pc,
                       want, leaseLive, result>>
        /\ engine' \in {"ready", "failed"} /\ engine # "ready"
        /\ maxResident' \in 1..3
    <2>1. \A gb \in VramSizes : BudgetForVram(gb) \in 1..3
      BY ModelManagerAssumption DEF BudgetForVram
    <2> QED
      BY <2>1 DEF EngineStep, EngineReady, EngineFails, IInv, TypeOK
  <1>2. /\ resident = {} /\ lockQueue = <<>>
        /\ \A c \in Callers : pc[c] \in {"idle", "awaitEngine"}
    BY <1>1 DEF IInv, StartInv
  <1>3. TypeOK'
    BY <1>1 DEF IInv, TypeOK
  <1>4. LockIsHandedOver'
    BY <1>1 DEF IInv, LockIsHandedOver, AtWork
  <1>5. BudgetInv'
    BY <1>1, <1>2, FS_EmptySet DEF BudgetInv, Busy
  <1>6. StartInv' /\ UseInv'
    BY <1>1, <1>2 DEF StartInv, UseInv
  <1>7. EvictsLeastRecentlyUsed
    BY <1>1 DEF EvictsLeastRecentlyUsed
  <1> QED
    BY <1>3, <1>4, <1>5, <1>6, <1>7 DEF IInv

-----------------------------------------------------------------------------
(* The theorems *)

LEMMA IInvInitially == Init => IInv
  <1> SUFFICES ASSUME Init
               PROVE  IInv
    OBVIOUS
  <1>1. TypeOK
    <2>1. /\ pc \in [Callers -> States] /\ want \in [Callers -> Keys]
          /\ result \in [Callers -> Results]
          /\ leaseLive \in [Callers -> BOOLEAN]
      BY DEF Init, States, Keys, Results
    <2>2. lastUsed \in [Keys -> Nat] /\ lockQueue \in Seq(Callers)
      BY DEF Init
    <2>3. /\ engine \in {"starting", "ready", "failed"} /\ maxResident \in 1..3
          /\ resident \subseteq Keys /\ useCounter \in Nat
      BY DEF Init
    <2>4. loading \in BOOLEAN
      BY Zenon DEF Init
    <2> QED
      BY <2>1, <2>2, <2>3, <2>4 DEF TypeOK
  <1>2. LockIsHandedOver
    <2>1. Len(lockQueue) = 0 /\ DOMAIN lockQueue = {}
      BY DEF Init
    <2>2. \A c \in Callers : pc[c] = "idle"
      BY DEF Init
    <2>3. ~loading /\ lockQueue = <<>>
      BY DEF Init
    <2> QED
      BY <2>1, <2>2, <2>3 DEF LockIsHandedOver, AtWork
  <1>3. BudgetInv
    BY FS_EmptySet DEF Init, BudgetInv, Busy
  <1>4. StartInv /\ UseInv
    BY DEF Init, StartInv, UseInv
  <1> QED
    BY <1>1, <1>2, <1>3, <1>4 DEF IInv

LEMMA IInvInductive ==
    IInv /\ [Next]_vars => IInv' /\ EvictsLeastRecentlyUsed
  <1> SUFFICES ASSUME IInv, [Next]_vars
               PROVE  IInv' /\ EvictsLeastRecentlyUsed
    OBVIOUS
  <1>1. CASE EngineStep
    BY <1>1, EngineStepKeepsIInv
  <1>2. ASSUME NEW c \in Callers, AcquireStep(c) \/ CallerStep(c)
        PROVE  IInv' /\ EvictsLeastRecentlyUsed
    <2>1. CASE CallerStep(c) \/ RejectCall(c)
      BY <2>1, CallerStepKeepsIInv
    <2>2. CASE TakeResident(c)
      BY <2>2, TakeResidentKeepsIInv
    <2>3. CASE EnterLock(c)
      BY <2>3, EnterLockKeepsIInv
    <2>4. CASE EvictionDone(c)
      BY <2>4, EvictionDoneKeepsIInv
    <2>5. CASE LoadSucceeds(c)
      BY <2>5, LoadSucceedsKeepsIInv
    <2>6. CASE LoadFails(c) \/ ReturnEarly(c)
      BY <2>6, SettleSameKeysKeepsIInv
    <2> QED
      BY <1>2, <2>1, <2>2, <2>3, <2>4, <2>5, <2>6 DEF AcquireStep
  <1>3. CASE UNCHANGED vars
    <2>1. /\ TypeOK' /\ LockIsHandedOver'
          /\ BudgetInv' /\ StartInv' /\ UseInv'
      BY <1>3 DEF vars, IInv, TypeOK, LockIsHandedOver, AtWork, BudgetInv,
                  Busy, StartInv, UseInv
    <2>2. EvictsLeastRecentlyUsed
      BY <1>3 DEF vars, EvictsLeastRecentlyUsed
    <2> QED
      BY <2>1, <2>2 DEF IInv
  <1> QED
    BY <1>1, <1>2, <1>3 DEF Next, AllIdle

(* The invariant holds in every state the manager can reach.               *)
LEMMA IInvAlways == Spec => []IInv
  BY IInvInitially, IInvInductive, PTL DEF Spec

(* Only the caller at the head of the lock loads or waits for VRAM, so the *)
(* models in memory are the resident ones and at most one more.            *)
LEMMA OneMoreAtMost == IInv => VramWithinBudget
  <1> SUFFICES ASSUME IInv
               PROVE  VramWithinBudget
    OBVIOUS
  <1> DEFINE busy == {c \in Callers : pc[c] \in {"evicting", "loading"}}
  <1>1. /\ Cardinality(resident) \in Nat /\ maxResident \in Nat
        /\ Cardinality(resident) <= maxResident
    BY KeysAreFinite DEF IInv, TypeOK, BudgetInv
  <1>2. CASE busy = {}
    BY <1>1, <1>2, FS_EmptySet DEF VramWithinBudget
  <1>3. CASE busy # {}
    <2>1. PICK c \in busy : TRUE
      BY <1>3
    <2>2. \A d \in busy : d = Head(lockQueue)
      BY DEF IInv, LockIsHandedOver, AtWork
    <2>3. busy = {c}
      BY <2>1, <2>2
    <2>4. Cardinality(busy) = 1
      BY <2>3, FS_Singleton
    <2>5. Cardinality(resident) < maxResident
      BY <2>1 DEF IInv, BudgetInv, Busy
    <2> HIDE DEF busy
    <2>6. Cardinality(resident) + Cardinality(busy) <= maxResident
      BY <1>1, <2>4, <2>5
    <2> QED
      BY <2>6 DEF VramWithinBudget, busy
  <1> QED
    BY <1>2, <1>3

(* The manager's state is always well typed.                               *)
THEOREM TypeCorrect == Spec => []TypeOK
  <1>1. IInv => TypeOK
    BY DEF IInv
  <1> QED
    BY <1>1, IInvAlways, PTL

(* withLoadLock(): while callers wait, the one at the head of the queue is *)
(* at work, whatever became of the loads before its own.                   *)
THEOREM LockIsHandedOverAlways == Spec => []LockIsHandedOver
  <1>1. IInv => LockIsHandedOver
    BY DEF IInv
  <1> QED
    BY <1>1, IInvAlways, PTL

(* evictIfNeeded(): whatever VRAM is detected and however many callers     *)
(* there are, the models in memory never exceed the budget.                *)
THEOREM VramWithinBudgetAlways == Spec => []VramWithinBudget
  BY OneMoreAtMost, IInvAlways, PTL

(* acquire(): the second look, under the lock, keeps a caller from loading *)
(* a model over a resident one of the same key.                            *)
THEOREM NeverLoadedTwiceAlways == Spec => []NeverLoadedTwice
  <1>1. IInv => NeverLoadedTwice
    BY DEF IInv, BudgetInv, Busy, NeverLoadedTwice
  <1> QED
    BY <1>1, IInvAlways, PTL

(* evictIfNeeded(): a step evicts only what was last used before whatever  *)
(* is resident after the step.                                             *)
THEOREM LeastRecentlyUsedGoesFirstAlways == Spec => LeastRecentlyUsedGoesFirst
  <1>1. IInv /\ [Next]_vars => [EvictsLeastRecentlyUsed]_vars
    BY IInvInductive
  <1> QED
    BY <1>1, IInvAlways, PTL DEF Spec, LeastRecentlyUsedGoesFirst

-----------------------------------------------------------------------------
(* A card that takes every model *)

(* No lease is dead and no acquire threw, before the engine is ready and   *)
(* with room for every key; whoever returns early finds its model there.   *)
LeaseInv ==
    engine # "ready" \/ maxResident = 3 =>
        /\ \A c \in Callers : /\ pc[c] = "holding" => leaseLive[c]
                             /\ result[c] # "typeError"
        /\ \A c \in Callers : pc[c] = "returning" => want[c] \in resident

(* With room for all three keys nothing is evicted for a missing one.      *)
LEMMA NothingEvicted ==
    ASSUME maxResident = 3, NEW keys \in SUBSET Keys, NEW k \in Keys \ keys,
           NEW used
    PROVE  Evicted(keys, used) = {}
  <1>1. IsFiniteSet(keys) /\ Cardinality(keys) \in Nat
    BY KeysAreFinite
  <1>2. IsFiniteSet(Keys) /\ Cardinality(Keys) = 3
    <2>1. /\ IsFiniteSet({"fe"}) /\ Cardinality({"fe"}) = 1
      BY FS_Singleton
    <2>2. /\ IsFiniteSet({"fe"} \cup {"be"}) /\ Cardinality({"fe"} \cup {"be"}) = 2
      BY <2>1, FS_AddElement
    <2>3. /\ IsFiniteSet(({"fe"} \cup {"be"}) \cup {"advisor"})
          /\ Cardinality(({"fe"} \cup {"be"}) \cup {"advisor"}) = 3
      <3>1. "advisor" \notin {"fe"} \cup {"be"}
        OBVIOUS
      <3>2. \A S, x : IsFiniteSet(S) /\ x \notin S =>
               IsFiniteSet(S \cup {x}) /\ Cardinality(S \cup {x}) = Cardinality(S) + 1
        BY FS_AddElement
      <3> QED
        BY <2>2, <3>1, <3>2
    <2>4. Keys = ({"fe"} \cup {"be"}) \cup {"advisor"}
      BY DEF Keys
    <2> QED
      BY <2>3, <2>4
  <1>3. keys \subseteq Keys /\ keys # Keys
    OBVIOUS
  <1>4. Cardinality(keys) < 3
    <2>1. /\ Cardinality(keys) <= Cardinality(Keys)
          /\ Cardinality(Keys) = Cardinality(keys) => Keys = keys
      BY <1>2, <1>3, FS_Subset
    <2> QED
      BY <1>1, <1>2, <1>3, <2>1
  <1> QED
    BY <1>1, <1>4 DEF Evicted

(* A load function that settles leaves every model where it is, the one of *)
(* its caller included.                                                    *)
LEMMA SettleKeepsLeaseInv ==
    ASSUME IInv, LeaseInv, NEW c \in Callers, pc[c] \in {"loading", "returning"},
           NEW keys \in SUBSET Keys, resident \subseteq keys, NEW used,
           NEW ok \in BOOLEAN, ok => want[c] \in keys,
           Settle(c, keys, used, ok), UNCHANGED <<engine, maxResident, want>>
    PROVE  LeaseInv'
  <1>1. /\ engine = "ready"
        /\ AtWork(c)
    BY DEF IInv, StartInv, AtWork
  <1> SUFFICES ASSUME maxResident = 3
               PROVE  LeaseInv'
    BY <1>1 DEF LeaseInv
  <1> DEFINE rest == Tail(lockQueue)
             d == Head(rest)
             left == IF rest = <<>> THEN keys ELSE KeysAtFirstAwait(d, keys, used)
             end == IF ~ok THEN "loadError"
                    ELSE IF want[c] \in left THEN "lease" ELSE "typeError"
  <1>2. rest # <<>> => d \in Callers /\ d # c
    BY <1>1, BehindTheHead
  <1>3. left = keys
    <2>1. CASE rest = <<>>
      BY <2>1
    <2>2. CASE rest # <<>>
      <3>1. want[d] \in Keys
        BY <1>2, <2>2 DEF IInv, TypeOK
      <3>2. want[d] \notin keys => Evicted(keys, used) = {}
        BY <3>1, NothingEvicted
      <3> QED
        BY <2>2, <3>2 DEF KeysAtFirstAwait
    <2> QED
      BY <2>1, <2>2
  <1>4. end # "typeError" /\ end \in {"loadError", "lease"}
    BY <1>3
  <1>5. /\ resident' = keys
        /\ result' = [result EXCEPT ![c] = end]
        /\ leaseLive' = [e \in Callers |->
                            IF e = c THEN end = "lease"
                            ELSE leaseLive[e] /\ want[e] \notin keys \ keys]
        /\ pc' = [e \in Callers |->
                     IF e = c THEN IF end = "lease" THEN "holding" ELSE "idle"
                     ELSE IF rest # <<>> /\ e = d
                          THEN FirstAwait(e, keys, used) ELSE pc[e]]
    BY <1>3 DEF Settle
  <1> HIDE DEF rest, d, left, end
  <1>6. ASSUME NEW e \in Callers
        PROVE  /\ pc'[e] = "holding" => leaseLive'[e]
               /\ result'[e] # "typeError"
               /\ pc'[e] = "returning" => want'[e] \in resident'
    <2>1. /\ pc[e] = "holding" => leaseLive[e]
          /\ result[e] # "typeError"
          /\ pc[e] = "returning" => want[e] \in resident
      BY DEF LeaseInv
    <2>2. CASE e = c
      <3>1. result'[e] = end
        BY <1>5, <2>2 DEF IInv, TypeOK
      <3>2. /\ pc'[e] = IF end = "lease" THEN "holding" ELSE "idle"
            /\ leaseLive'[e] <=> end = "lease"
        BY <1>5, <2>2
      <3> QED
        BY <1>4, <3>1, <3>2
    <2>3. CASE e # c
      <3>1. result'[e] = result[e]
        BY <1>5, <2>3 DEF IInv, TypeOK
      <3>2. leaseLive'[e] <=> leaseLive[e]
        BY <1>5, <2>3
      <3>3. pc'[e] = pc[e] \/ pc'[e] = FirstAwait(e, keys, used)
        BY <1>5, <2>3
      <3>4. FirstAwait(e, keys, used) # "holding"
        BY DEF FirstAwait
      <3>5. FirstAwait(e, keys, used) = "returning" => want[e] \in keys
        BY DEF FirstAwait
      <3> QED
        BY <1>5, <2>1, <3>1, <3>2, <3>3, <3>4, <3>5
    <2> QED
      BY <2>2, <2>3
  <1> QED
    BY <1>6 DEF LeaseInv

LEMMA LeaseInvInductive ==
    ASSUME IInv, LeaseInv, [Next]_vars
    PROVE  LeaseInv'
  <1>1. CASE EngineStep
    <2>1. engine # "ready"
      BY <1>1 DEF EngineStep, EngineReady, EngineFails
    <2> QED
      BY <1>1, <2>1 DEF EngineStep, EngineReady, EngineFails, LeaseInv
  <1>2. ASSUME NEW c \in Callers, CallerStep(c) \/ RejectCall(c) \/ TakeResident(c)
        PROVE  LeaseInv'
    BY <1>2 DEF CallerStep, Call, ReleaseLease, RejectCall, TakeResident,
                LeaseInv, IInv, TypeOK, Returning
  <1>3. ASSUME NEW c \in Callers, EnterLock(c)
        PROVE  LeaseInv'
    <2>1. engine = "ready" /\ want[c] \in Keys /\ want[c] \notin resident
      BY <1>3 DEF EnterLock, IInv, TypeOK
    <2>2. maxResident = 3 => Evicted(resident, lastUsed) = {}
      BY <2>1, NothingEvicted DEF IInv, TypeOK
    <2>3. maxResident = 3 =>
             /\ KeysAtFirstAwait(c, resident, lastUsed) = resident
             /\ FirstAwait(c, resident, lastUsed) = "loading"
      BY <2>1, <2>2 DEF KeysAtFirstAwait, FirstAwait
    <2> QED
      BY <1>3, <2>1, <2>3 DEF EnterLock, LeaseInv, IInv, TypeOK, Returning
  <1>4. ASSUME NEW c \in Callers, EvictionDone(c)
        PROVE  LeaseInv'
    <2>1. engine = "ready" /\ want[c] \in Keys /\ want[c] \notin resident
      BY <1>4 DEF EvictionDone, IInv, TypeOK, StartInv, BudgetInv, Busy
    <2>2. maxResident = 3 => Evicted(resident, lastUsed) = {}
      BY <2>1, NothingEvicted DEF IInv, TypeOK
    <2>3. maxResident = 3 => FirstAwait(c, resident, lastUsed) = "loading"
      BY <2>1, <2>2 DEF FirstAwait
    <2> QED
      BY <1>4, <2>1, <2>2, <2>3 DEF EvictionDone, LeaseInv, IInv, TypeOK, Returning
  <1>5. ASSUME NEW c \in Callers, LoadSucceeds(c)
        PROVE  LeaseInv'
    <2>1. /\ resident \cup {want[c]} \in SUBSET Keys
          /\ pc[c] = "loading"
          /\ UNCHANGED <<engine, maxResident, want>>
      BY <1>5 DEF LoadSucceeds, IInv, TypeOK
    <2> QED
      BY <1>5, <2>1, SettleKeepsLeaseInv DEF LoadSucceeds
  <1>6. ASSUME NEW c \in Callers, LoadFails(c)
        PROVE  LeaseInv'
    BY <1>6, SettleKeepsLeaseInv DEF LoadFails, IInv, TypeOK
  <1>7. ASSUME NEW c \in Callers, ReturnEarly(c)
        PROVE  LeaseInv'
    <2>1. engine = "ready"
      BY <1>7 DEF ReturnEarly, IInv, StartInv
    <2>2. CASE maxResident = 3
      <3>1. want[c] \in resident
        BY <1>7, <2>2 DEF ReturnEarly, LeaseInv
      <3> QED
        BY <1>7, <3>1, SettleKeepsLeaseInv DEF ReturnEarly, IInv, TypeOK
    <2>3. CASE maxResident # 3
      BY <1>7, <2>1, <2>3 DEF ReturnEarly, LeaseInv
    <2> QED
      BY <2>2, <2>3
  <1>8. CASE UNCHANGED vars
    BY <1>8 DEF vars, LeaseInv
  <1> QED
    BY <1>1, <1>2, <1>3, <1>4, <1>5, <1>6, <1>7, <1>8
       DEF Next, AllIdle, AcquireStep

(* ModelLease and acquire(): on a card that takes every model no lease     *)
(* outlives its model, and no successful load ends in an exception.        *)
THEOREM LeasesHoldWhereAllFitAlways == Spec => []LeasesHoldWhereAllFit
  <1>1. Init => LeaseInv
    BY DEF Init, LeaseInv
  <1>2. IInv /\ LeaseInv /\ [Next]_vars => LeaseInv'
    BY LeaseInvInductive
  <1>3. LeaseInv => LeasesHoldWhereAllFit
    BY DEF LeaseInv, LeasesHoldWhereAllFit
  <1> QED
    BY <1>1, <1>2, <1>3, IInvAlways, PTL DEF Spec

-----------------------------------------------------------------------------
(* How long a caller waits for the lock *)

(* The most steps that holders of the lock take before the one at place i  *)
(* of the queue holds it: two for each, once the first is done.            *)
StepsAhead(i, holder) == 2 * (i - 2) + IF holder = "evicting" THEN 2 ELSE 1

HolderMoves == lockQueue # <<>> /\ pc'[Head(lockQueue)] # pc[Head(lockQueue)]

HoldsTheLockNext(i) == i = 2 /\ lockQueue' = Tail(lockQueue)

WaitsLess(i) ==
    \E j \in 2..Len(lockQueue') :
        /\ lockQueue'[j] = lockQueue[i]
        /\ StepsAhead(j, pc'[Head(lockQueue')])
              < StepsAhead(i, pc[Head(lockQueue)])

WaitsAsBefore(i) ==
    /\ lockQueue'[i] = lockQueue[i]
    /\ pc'[Head(lockQueue')] = pc[Head(lockQueue)]
    /\ Head(lockQueue') = Head(lockQueue)

WaitersComeCloser ==
    \A i \in 2..Len(lockQueue) :
        IF HolderMoves THEN HoldsTheLockNext(i) \/ WaitsLess(i)
                       ELSE WaitsAsBefore(i)

(* Steps of callers outside the lock, and of new waiters.                  *)
LEMMA OthersDoNotDelay ==
    ASSUME IInv,
           \A i \in 1..Len(lockQueue) : lockQueue'[i] = lockQueue[i],
           lockQueue # <<>> => Head(lockQueue') = Head(lockQueue),
           lockQueue # <<>> => pc'[Head(lockQueue)] = pc[Head(lockQueue)]
    PROVE  WaitersComeCloser
  <1> SUFFICES ASSUME NEW i \in 2..Len(lockQueue)
               PROVE  ~HolderMoves /\ WaitsAsBefore(i)
    BY DEF WaitersComeCloser
  <1>1. lockQueue # <<>> /\ i \in 1..Len(lockQueue)
    BY EmptySeq, LenProperties DEF IInv, TypeOK
  <1> QED
    BY <1>1 DEF HolderMoves, WaitsAsBefore

(* The holder is done: everybody moves up, and the next one is at work.    *)
LEMMA SettleServesTheNext ==
    ASSUME IInv, NEW c \in Callers, pc[c] \in {"loading", "returning"},
           NEW keys, NEW used, NEW ok, Settle(c, keys, used, ok)
    PROVE  WaitersComeCloser
  <1> DEFINE rest == Tail(lockQueue)
  <1>1. /\ c = Head(lockQueue) /\ lockQueue # <<>>
        /\ Len(rest) \in Nat /\ Len(lockQueue) = Len(rest) + 1
        /\ \A i \in 1..Len(rest) : rest[i] = lockQueue[i + 1]
    BY BehindTheHead DEF AtWork
  <1>2. lockQueue' = rest /\ pc'[c] \in {"holding", "idle"}
    BY DEF Settle
  <1>3. HolderMoves
    BY <1>1, <1>2 DEF HolderMoves
  <1> HIDE DEF rest
  <1> SUFFICES ASSUME NEW i \in 2..Len(lockQueue)
               PROVE  HoldsTheLockNext(i) \/ WaitsLess(i)
    BY <1>3 DEF WaitersComeCloser
  <1>4. CASE i = 2
    BY <1>2, <1>4 DEF HoldsTheLockNext, rest
  <1>5. CASE i # 2
    <2>1. i - 1 \in 2..Len(rest) /\ i - 1 \in 1..Len(rest) /\ (i - 1) + 1 = i
      BY <1>1, <1>5
    <2>2. lockQueue'[i - 1] = lockQueue[i]
      BY <1>1, <1>2, <2>1
    <2>3. \A h, k : StepsAhead(i - 1, h) < StepsAhead(i, k)
      BY <1>1, <2>1 DEF StepsAhead
    <2> QED
      BY <1>2, <2>1, <2>2, <2>3 DEF WaitsLess
  <1> QED
    BY <1>4, <1>5

(* The holder evicts once at most before it loads.                         *)
LEMMA EvictionBringsTheLoad ==
    ASSUME IInv, NEW c \in Callers, EvictionDone(c)
    PROVE  WaitersComeCloser
  <1>1. /\ Cardinality(resident) < maxResident
        /\ want[c] \notin resident
        /\ resident \in SUBSET Keys
        /\ lastUsed \in [Keys -> Nat]
        /\ Cardinality(resident) <= maxResident
    BY DEF EvictionDone, IInv, TypeOK, BudgetInv, Busy
  <1>2. Evicted(resident, lastUsed) = {}
    BY <1>1, EvictionMakesRoom DEF IInv
  <1>3. /\ pc' = [pc EXCEPT ![c] = "loading"]
        /\ pc[c] = "evicting" /\ UNCHANGED lockQueue
    BY <1>1, <1>2 DEF EvictionDone, FirstAwait
  <1>4. c = Head(lockQueue) /\ lockQueue # <<>>
    BY <1>3 DEF IInv, LockIsHandedOver, AtWork
  <1>5. pc'[c] = "loading"
    BY <1>3 DEF IInv, TypeOK
  <1>6. \A i \in 2..Len(lockQueue) : StepsAhead(i, "loading") < StepsAhead(i, "evicting")
    <2>1. Len(lockQueue) \in Nat
      BY LenProperties DEF IInv, TypeOK
    <2> QED
      BY <2>1 DEF StepsAhead
  <1> QED
    BY <1>3, <1>4, <1>5, <1>6 DEF WaitersComeCloser, WaitsLess, HolderMoves

LEMMA StepBringsWaitersCloser ==
    ASSUME IInv, Next
    PROVE  WaitersComeCloser
  <1>1. /\ lockQueue \in Seq(Callers) /\ Len(lockQueue) \in Nat
        /\ DOMAIN lockQueue = 1..Len(lockQueue)
        /\ lockQueue # <<>> => /\ Head(lockQueue) \in Callers
                               /\ AtWork(Head(lockQueue))
                               /\ Len(lockQueue) > 0
    <2>1. lockQueue \in Seq(Callers)
      BY DEF IInv, TypeOK
    <2>2. lockQueue # <<>> => Head(lockQueue) \in Callers
      BY <2>1, HeadTailProperties
    <2>3. lockQueue # <<>> => Len(lockQueue) > 0
      BY <2>1, EmptySeq, LenProperties
    <2> QED
      BY <2>1, <2>2, <2>3, LenProperties DEF IInv, LockIsHandedOver
  <1>2. ASSUME NEW c \in Callers, UNCHANGED lockQueue, ~AtWork(c),
               \A d \in Callers \ {c} : pc'[d] = pc[d]
        PROVE  WaitersComeCloser
    BY <1>1, <1>2, OthersDoNotDelay
  <1>3. CASE EngineStep \/ AllIdle
    <2>1. UNCHANGED <<lockQueue, pc>>
      BY <1>3 DEF EngineStep, EngineReady, EngineFails, AllIdle, vars
    <2> QED
      BY <1>1, <2>1, OthersDoNotDelay
  <1>4. ASSUME NEW c \in Callers, CallerStep(c) \/ RejectCall(c) \/ TakeResident(c)
        PROVE  WaitersComeCloser
    <2>1. /\ UNCHANGED lockQueue /\ ~AtWork(c)
          /\ \A d \in Callers \ {c} : pc'[d] = pc[d]
      BY <1>4 DEF CallerStep, Call, ReleaseLease, RejectCall, TakeResident,
                  AtWork, IInv, TypeOK
    <2> QED
      BY <1>2, <2>1
  <1>5. ASSUME NEW c \in Callers, EnterLock(c)
        PROVE  WaitersComeCloser
    <2>1. lockQueue' = Append(lockQueue, c)
          /\ \A i \in 1..Len(lockQueue) : lockQueue'[i] = lockQueue[i]
      BY <1>1, <1>5, AppendProperties DEF EnterLock
    <2>2. lockQueue # <<>> =>
             /\ Head(lockQueue') = Head(lockQueue)
             /\ pc'[Head(lockQueue)] = pc[Head(lockQueue)]
      <3> SUFFICES ASSUME lockQueue # <<>>
                   PROVE  /\ Head(lockQueue') = Head(lockQueue)
                          /\ pc'[Head(lockQueue)] = pc[Head(lockQueue)]
        OBVIOUS
      <3>1. pc' = [pc EXCEPT ![c] = "queued"] /\ pc[c] = "awaitEngine"
        BY <1>5 DEF EnterLock
      <3>2. Head(lockQueue') = Head(lockQueue)
        BY <1>1, <2>1
      <3> QED
        BY <1>1, <3>1, <3>2 DEF AtWork, IInv, TypeOK
    <2> QED
      BY <1>1, <2>1, <2>2, OthersDoNotDelay
  <1>6. ASSUME NEW c \in Callers, LoadSucceeds(c) \/ LoadFails(c) \/ ReturnEarly(c)
        PROVE  WaitersComeCloser
    BY <1>6, SettleServesTheNext DEF LoadSucceeds, LoadFails, ReturnEarly
  <1> QED
    BY <1>3, <1>4, <1>5, <1>6, EvictionBringsTheLoad DEF Next, AcquireStep

(* Each step of the holder of the load lock - and it evicts once at most,  *)
(* loads, and is done, whether or not the load succeeds - brings every     *)
(* waiter nearer to the lock, in the order in which they came, and nobody  *)
(* else's step puts a waiter off: the measure by which acquire() settles   *)
(* (withLoadLock and evictIfNeeded, modelManager.ts).                      *)
THEOREM WaitersComeCloserAlways == Spec => [][WaitersComeCloser]_vars
  <1>1. IInv /\ [Next]_vars => [WaitersComeCloser]_vars
    BY StepBringsWaitersCloser
  <1> QED
    BY <1>1, IInvAlways, PTL DEF Spec
=============================================================================
