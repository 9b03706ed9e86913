---------------------- MODULE LegacyModelManagerProofs ----------------------
(***************************************************************************)
(* For every set of callers, of intents and of VRAM totals: the budget     *)
(* holds, the active model is resident and no model is left behind, with   *)
(* an idle timer that unloads behind the back of the load lock.            *)
(***************************************************************************)
EXTENDS LegacyModelManager, SequenceTheorems, FiniteSetTheorems, TLAPS

Caches == [resident : SUBSET Keys, lastUsed : [Keys -> Nat],
           useCounter : Nat, activeKey : Keys \cup {"none"},
           idleTimer : BOOLEAN, loading : BOOLEAN]

(* A cache that fits the card, names a resident model as the active one,   *)
(* and will be emptied by the timer or by the unloading under way.         *)
Sound(s) ==
    /\ s \in Caches
    /\ Cardinality(s.resident) <= maxResident
    /\ s.activeKey # "none" => s.activeKey \in s.resident
    /\ s.resident # {} => s.idleTimer \/ (unloading /\ s.resident \subseteq toUnload)

AtWork(c) == pc[c] \in {"evicting", "loading", "returning"}

(* The head of the queue is at work, and nobody else is; the others wait.  *)
LockInv ==
    /\ \A c \in Callers : AtWork(c) <=> lockQueue # <<>> /\ c = Head(lockQueue)
    /\ \A c \in Callers :
          pc[c] = "queued" <=> \E i \in 2..Len(lockQueue) : lockQueue[i] = c
    /\ \A i, j \in DOMAIN lockQueue : lockQueue[i] = lockQueue[j] => i = j

(* Whoever evicts or loads has room for its model, and needs it: what      *)
(* the timer does meanwhile only makes more room.                          *)
RoomInv ==
    \A c \in Callers : pc[c] \in {"evicting", "loading"} =>
        /\ Cardinality(cache.resident) < maxResident
        /\ want[c] \notin cache.resident

StartInv ==
    engine # "ready" =>
        /\ cache.resident = {}
        /\ lockQueue = <<>>
        /\ \A c \in Callers : pc[c] \in {"idle", "awaitEngine"}

IInv == TypeOK /\ Sound(cache) /\ LockInv /\ RoomInv /\ StartInv

-----------------------------------------------------------------------------
(* What the operators on the cache keep *)

LEMMA KeysAreFinite ==
    ASSUME NEW keys \in SUBSET Keys
    PROVE  IsFiniteSet(keys) /\ Cardinality(keys) \in Nat
  <1>1. IsFiniteSet({}) /\ Keys = (({} \cup {"fe"}) \cup {"be"}) \cup {"advisor"}
    BY FS_EmptySet DEF Keys
  <1>2. IsFiniteSet(({} \cup {"fe"}) \cup {"be"})
    BY <1>1, FS_AddElement
  <1>3. IsFiniteSet(Keys)
    BY <1>1, <1>2, FS_AddElement
  <1> QED
    BY <1>3, FS_Subset, FS_CardinalityType

(* Of the resident models one was used no later than the others.           *)
LEMMA OldestIsResident ==
    ASSUME NEW s \in Caches, s.resident # {}
    PROVE  LeastRecentlyUsed(s) \in s.resident
  <1> DEFINE f == s.lastUsed["fe"]
             b == s.lastUsed["be"]
             a == s.lastUsed["advisor"]
  <1>1. f \in Nat /\ b \in Nat /\ a \in Nat
    BY DEF Caches, Keys
  <1>2. /\ \A k \in s.resident : k \in {"fe", "be", "advisor"}
        /\ "fe" \in s.resident \/ "be" \in s.resident \/ "advisor" \in s.resident
    BY DEF Caches, Keys
  <1>3. \E k \in s.resident : \A j \in s.resident : s.lastUsed[k] <= s.lastUsed[j]
    <2>1. CASE "fe" \in s.resident /\ ("be" \in s.resident => f <= b)
                                  /\ ("advisor" \in s.resident => f <= a)
      BY <1>1, <1>2, <2>1
    <2>2. CASE "be" \in s.resident /\ ("fe" \in s.resident => b <= f)
                                  /\ ("advisor" \in s.resident => b <= a)
      BY <1>1, <1>2, <2>2
    <2>3. CASE "advisor" \in s.resident /\ ("fe" \in s.resident => a <= f)
                                       /\ ("be" \in s.resident => a <= b)
      BY <1>1, <1>2, <2>3
    <2> HIDE DEF f, b, a
    <2> QED
      BY <1>1, <1>2, <2>1, <2>2, <2>3
  <1> QED
    BY <1>3, Zenon DEF LeastRecentlyUsed

LEMMA UsedIsSound ==
    ASSUME NEW s \in Caches, NEW k \in s.resident,
           Cardinality(s.resident) <= maxResident
    PROVE  Sound(Used(s, k)) /\ Used(s, k).resident = s.resident
  <1> DEFINE n == s.useCounter + 1
             x == [s.lastUsed EXCEPT ![k] = n]
             t == [s EXCEPT !.useCounter = n, !.lastUsed = x,
                            !.activeKey = k, !.idleTimer = TRUE]
  <1>1. k \in Keys /\ n \in Nat
    BY DEF Caches
  <1>2. x \in [Keys -> Nat]
    BY <1>1 DEF Caches
  <1>3. Used(s, k) = t
    BY DEF Used, Caches
  <1> HIDE DEF x, n
  <1>4. /\ t \in Caches
        /\ t.resident = s.resident
        /\ t.activeKey = k
        /\ t.idleTimer
    BY <1>1, <1>2 DEF Caches
  <1> QED
    BY <1>3, <1>4 DEF Sound

LEMMA DisposedIsSound ==
    ASSUME maxResident \in Nat, NEW s, Sound(s), NEW k \in s.resident
    PROVE  /\ Sound(Disposed(s, k))
           /\ Disposed(s, k).resident = s.resident \ {k}
           /\ Cardinality(s.resident \ {k}) < maxResident
  <1>1. s \in Caches /\ k \in Keys
    BY DEF Sound, Caches
  <1> DEFINE x == [s.lastUsed EXCEPT ![k] = 0]
             a == IF s.activeKey = k THEN "none" ELSE s.activeKey
             t == [s EXCEPT !.resident = @ \ {k}, !.lastUsed = x, !.activeKey = a]
  <1>2. x \in [Keys -> Nat] /\ a \in Keys \cup {"none"}
    BY <1>1 DEF Caches
  <1>3. Disposed(s, k) = t
    BY <1>1 DEF Disposed, Caches
  <1> HIDE DEF x
  <1>4. /\ t \in Caches
        /\ t.resident = s.resident \ {k}
        /\ t.activeKey = a
        /\ t.idleTimer = s.idleTimer
    BY <1>1, <1>2 DEF Caches
  <1>5. /\ Cardinality(s.resident \ {k}) = Cardinality(s.resident) - 1
        /\ Cardinality(s.resident) \in Nat
    BY <1>1, KeysAreFinite, FS_RemoveElement DEF Caches
  <1> HIDE DEF t
  <1> QED
    BY <1>3, <1>4, <1>5 DEF Sound

(* One turn of evictIfNeeded() leaves room for a model.                    *)
LEMMA OneTurnMakesRoom ==
    ASSUME maxResident \in 1..3, NEW s, Sound(s)
    PROVE  /\ Sound(MakeRoom(s))
           /\ MakeRoom(s).resident \subseteq s.resident
           /\ Cardinality(MakeRoom(s).resident) < maxResident
           /\ HasRoom(s) => MakeRoom(s) = s
           /\ Evicting(s) \in {"evicting", "loading"}
  <1>1. s \in Caches /\ Cardinality(s.resident) \in Nat
    BY KeysAreFinite DEF Sound, Caches
  <1>2. CASE HasRoom(s)
    BY <1>2 DEF HasRoom, MakeRoom, Evicting
  <1>3. CASE ~HasRoom(s)
    <2>1. s.resident # {}
      BY <1>3, FS_EmptySet DEF HasRoom
    <2>2. LeastRecentlyUsed(s) \in s.resident
      BY <1>1, <2>1, OldestIsResident
    <2>3. MakeRoom(s) = Disposed(s, LeastRecentlyUsed(s))
      BY <1>3 DEF MakeRoom
    <2>4. maxResident \in Nat
      OBVIOUS
    <2>5. /\ Sound(MakeRoom(s))
          /\ MakeRoom(s).resident = s.resident \ {LeastRecentlyUsed(s)}
          /\ Cardinality(s.resident \ {LeastRecentlyUsed(s)}) < maxResident
      BY <2>2, <2>3, <2>4, DisposedIsSound
    <2> QED
      BY <1>3, <2>5 DEF Evicting
  <1> QED
    BY <1>2, <1>3

(* The load function up to its first await: the model is there, or room    *)
(* has been made for it.                                                   *)
LEMMA FirstSegmentIsSound ==
    ASSUME maxResident \in 1..3, NEW s, Sound(s), NEW k \in Keys
    PROVE  /\ Sound(FirstSegment(s, k))
           /\ FirstSegment(s, k).resident \subseteq s.resident
           /\ FirstAwait(s, k) \in {"returning", "evicting", "loading"}
           /\ FirstAwait(s, k) # "returning" =>
                 /\ Cardinality(FirstSegment(s, k).resident) < maxResident
                 /\ k \notin FirstSegment(s, k).resident
  <1>1. s \in Caches /\ Cardinality(s.resident) <= maxResident
    BY DEF Sound
  <1>2. CASE k \in s.resident
    BY <1>1, <1>2, UsedIsSound DEF FirstSegment, FirstAwait
  <1>3. CASE k \notin s.resident
    <2> DEFINE r == MakeRoom(s)
               t == [r EXCEPT !.loading = TRUE]
    <2>1. /\ Sound(r) /\ r.resident \subseteq s.resident
          /\ Cardinality(r.resident) < maxResident
          /\ Evicting(s) \in {"evicting", "loading"}
      BY OneTurnMakesRoom
    <2>2. FirstSegment(s, k) = t /\ FirstAwait(s, k) = Evicting(s)
      BY <1>3 DEF FirstSegment, FirstAwait
    <2> HIDE DEF r
    <2>3. /\ t \in Caches /\ t.resident = r.resident
          /\ t.activeKey = r.activeKey /\ t.idleTimer = r.idleTimer
      BY <2>1 DEF Sound, Caches
    <2>4. Sound(t)
      BY <2>1, <2>3 DEF Sound
    <2> QED
      BY <1>3, <2>1, <2>2, <2>3, <2>4
  <1> QED
    BY <1>2, <1>3

LEMMA LoadedIsSound ==
    ASSUME maxResident \in 1..3, NEW s, Sound(s), NEW k \in Keys,
           k \notin s.resident, Cardinality(s.resident) < maxResident
    PROVE  Sound(Loaded(s, k))
  <1> DEFINE t == [s EXCEPT !.resident = @ \cup {k}, !.loading = FALSE]
  <1>1. s \in Caches /\ s.resident \in SUBSET Keys
    BY DEF Sound, Caches
  <1>2. t \in Caches /\ t.resident = s.resident \cup {k}
    BY <1>1 DEF Caches
  <1>3. Cardinality(t.resident) <= maxResident
    <2>1. Cardinality(s.resident \cup {k}) = Cardinality(s.resident) + 1
      BY <1>1, KeysAreFinite, FS_AddElement
    <2>2. Cardinality(s.resident) \in Nat
      BY <1>1, KeysAreFinite
    <2> QED
      BY <1>2, <2>1, <2>2
  <1>4. Loaded(s, k) = Used(t, k)
    BY DEF Loaded
  <1> HIDE DEF t
  <1> QED
    BY <1>2, <1>3, <1>4, UsedIsSound
-----------------------------------------------------------------------------
(* The lock *)

(* The shape of the queue behind the caller that holds the lock.           *)
LEMMA BehindTheHead ==
    ASSUME IInv, NEW c \in Callers, AtWork(c)
    PROVE  LET rest == Tail(lockQueue) IN
           /\ c = Head(lockQueue)
           /\ rest \in Seq(Callers)
           /\ DOMAIN rest = 1..Len(rest)
           /\ Len(rest) \in Nat
           /\ lockQueue # <<>>
           /\ DOMAIN lockQueue = 1..(Len(rest) + 1)
           /\ Len(lockQueue) = Len(rest) + 1
           /\ lockQueue[1] = c
           /\ \A i \in 1..Len(rest) : rest[i] = lockQueue[i + 1]
           /\ rest # <<>> => /\ Len(rest) > 0
                             /\ Head(rest) = rest[1]
                             /\ Head(rest) \in Callers
                             /\ Head(rest) # c
                             /\ pc[Head(rest)] = "queued"
           /\ rest = <<>> => Len(rest) = 0
  <1> DEFINE rest == Tail(lockQueue)
  <1>1. c = Head(lockQueue) /\ lockQueue # <<>> /\ lockQueue \in Seq(Callers)
    BY DEF IInv, LockInv, TypeOK
  <1>2. /\ rest \in Seq(Callers)
        /\ Len(rest) = Len(lockQueue) - 1
        /\ \A i \in 1..Len(rest) : rest[i] = lockQueue[i + 1]
    BY <1>1, HeadTailProperties
  <1>3. /\ Len(lockQueue) \in Nat /\ Len(rest) \in Nat
        /\ DOMAIN lockQueue = 1..Len(lockQueue)
        /\ DOMAIN rest = 1..Len(rest)
    BY <1>1, <1>2, LenProperties
  <1>4. lockQueue[1] = c
    BY <1>1
  <1>5. rest = <<>> <=> Len(rest) = 0
    BY <1>2, EmptySeq
  <1>6. ASSUME rest # <<>>
        PROVE  /\ Len(rest) > 0
               /\ Head(rest) = rest[1]
               /\ Head(rest) \in Callers
               /\ Head(rest) # c
               /\ pc[Head(rest)] = "queued"
    <2>1. Len(rest) > 0
      BY <1>3, <1>5, <1>6
    <2>2. Head(rest) = rest[1] /\ Head(rest) \in Callers
      BY <1>2, <1>6, HeadTailProperties
    <2> HIDE DEF rest
    <2>3. Head(rest) = lockQueue[2] /\ 2 \in 2..Len(lockQueue)
      BY <1>2, <1>3, <2>1, <2>2
    <2>4. Head(rest) # c
      BY <1>3, <1>4, <2>3 DEF IInv, LockInv
    <2>5. pc[Head(rest)] = "queued"
      BY <2>2, <2>3 DEF IInv, LockInv
    <2> QED
      BY <2>1, <2>2, <2>4, <2>5
  <1> HIDE DEF rest
  <1>7. Len(lockQueue) = Len(rest) + 1
    BY <1>2, <1>3
  <1> QED
    BY <1>1, <1>2, <1>3, <1>4, <1>5, <1>6, <1>7 DEF rest

(* When the holder c gives up the lock and the next waiter, if there is    *)
(* one, starts at once, the lock is in good order again.                   *)
LEMMA HandOver ==
    ASSUME IInv, NEW c \in Callers, AtWork(c),
           lockQueue' = Tail(lockQueue),
           pc'[c] \in {"idle", "using"},
           \A d \in Callers \ {c} :
              IF lockQueue' # <<>> /\ d = Head(lockQueue')
              THEN pc'[d] \in {"returning", "evicting", "loading"}
              ELSE pc'[d] = pc[d]
    PROVE  LockInv'
  <1> DEFINE rest == Tail(lockQueue)
  <1>1. /\ c = Head(lockQueue)
        /\ DOMAIN rest = 1..Len(rest)
        /\ Len(rest) \in Nat
        /\ DOMAIN lockQueue = 1..(Len(rest) + 1)
        /\ Len(lockQueue) = Len(rest) + 1
        /\ lockQueue[1] = c
        /\ \A i \in 1..Len(rest) : rest[i] = lockQueue[i + 1]
        /\ rest # <<>> => /\ Len(rest) > 0
                          /\ Head(rest) = rest[1]
                          /\ Head(rest) \in Callers
                          /\ Head(rest) # c
                          /\ pc[Head(rest)] = "queued"
        /\ rest = <<>> => Len(rest) = 0
    BY BehindTheHead
  <1>2. lockQueue' = rest
    OBVIOUS
  <1> HIDE DEF rest
  <1>3. \A i, j \in DOMAIN rest : rest[i] = rest[j] => i = j
    <2> TAKE i, j \in DOMAIN rest
    <2> HAVE rest[i] = rest[j]
    <2>1. i \in 1..Len(rest) /\ j \in 1..Len(rest)
      BY <1>1
    <2>2. lockQueue[i + 1] = lockQueue[j + 1]
      BY <1>1, <2>1
    <2>3. i + 1 \in DOMAIN lockQueue /\ j + 1 \in DOMAIN lockQueue
      BY <1>1, <2>1
    <2>4. i + 1 = j + 1
      BY <2>2, <2>3 DEF IInv, LockInv
    <2> QED
      BY <2>1, <2>4
  <1>4. \A d \in Callers : AtWork(d)' <=> rest # <<>> /\ d = Head(rest)
    BY <1>1, <1>2 DEF AtWork, IInv, LockInv
  <1>5. ASSUME NEW d \in Callers
        PROVE  pc'[d] = "queued" <=> \E i \in 2..Len(rest) : rest[i] = d
    <2>1. CASE d = c
      <3>1. \A i \in 1..Len(rest) : rest[i] # c
        BY <1>1 DEF IInv, LockInv
      <3> QED
        BY <1>1, <2>1, <3>1
    <2>2. CASE rest # <<>> /\ d = Head(rest)
      <3>1. \A i \in 2..Len(rest) : rest[i] # d
        BY <1>1, <1>3, <2>2
      <3> QED
        BY <1>1, <1>2, <2>2, <3>1
    <2>3. CASE d # c /\ ~(rest # <<>> /\ d = Head(rest))
      <3>1. pc'[d] = pc[d]
        BY <1>2, <2>3
      <3>2. pc[d] = "queued" <=> \E i \in 2..(Len(rest) + 1) : lockQueue[i] = d
        BY <1>1 DEF IInv, LockInv
      <3>3. ASSUME NEW i \in 2..(Len(rest) + 1), lockQueue[i] = d
            PROVE  \E j \in 2..Len(rest) : rest[j] = d
        <4>1. i - 1 \in 1..Len(rest) /\ (i - 1) + 1 = i
          BY <1>1, <3>3
        <4>2. rest[i - 1] = d
          BY <1>1, <3>3, <4>1
        <4>3. rest # <<>>
          BY <1>1, <4>1
        <4>4. i - 1 # 1
          BY <1>1, <2>3, <4>2, <4>3
        <4>5. i - 1 \in 2..Len(rest)
          BY <1>1, <4>1, <4>4
        <4> QED
          BY <4>2, <4>5
      <3>4. ASSUME NEW j \in 2..Len(rest), rest[j] = d
            PROVE  \E i \in 2..(Len(rest) + 1) : lockQueue[i] = d
        <4>1. j \in 1..Len(rest) /\ j + 1 \in 2..(Len(rest) + 1)
          BY <1>1, <3>4
        <4> QED
          BY <1>1, <3>4, <4>1
      <3> QED
        BY <3>1, <3>2, <3>3, <3>4
    <2> QED
      BY <2>1, <2>2, <2>3
  <1>6. \A d \in Callers :
           AtWork(d)' <=> lockQueue' # <<>> /\ d = Head(lockQueue')
    BY <1>2, <1>4
  <1>7. \A d \in Callers :
           pc'[d] = "queued" <=> \E i \in 2..Len(lockQueue') : lockQueue'[i] = d
    BY <1>2, <1>5
  <1>8. \A i, j \in DOMAIN lockQueue' : lockQueue'[i] = lockQueue'[j] => i = j
    BY <1>2, <1>3
  <1> QED
    BY <1>6, <1>7, <1>8, Zenon DEF LockInv


(* A load function that settles, and the next waiter's that starts, keep   *)
(* the invariant.                                                          *)
LEMMA SettleKeepsIInv ==
    ASSUME IInv, NEW c \in Callers, pc[c] \in {"loading", "returning"},
           NEW s, Sound(s), NEW ok \in BOOLEAN, Settle(c, s, ok),
           UNCHANGED <<engine, maxResident, unloading, toUnload, want>>
    PROVE  IInv'
  <1> DEFINE rest == Tail(lockQueue)
             d == Head(rest)
             t == IF rest = <<>> THEN s ELSE FirstSegment(s, want[d])
  <1>1. AtWork(c) /\ maxResident \in 1..3
    BY DEF AtWork, IInv, TypeOK
  <1>2. /\ rest \in Seq(Callers)
        /\ lockQueue # <<>>
        /\ rest # <<>> => d \in Callers /\ d # c /\ want[d] \in Keys
    BY <1>1, BehindTheHead DEF IInv, TypeOK
  <1>3. engine' = "ready"
    BY <1>2 DEF IInv, StartInv
  <1>4. rest # <<>> =>
           /\ Sound(FirstSegment(s, want[d]))
           /\ FirstAwait(s, want[d]) \in {"returning", "evicting", "loading"}
           /\ FirstAwait(s, want[d]) # "returning" =>
                 /\ Cardinality(FirstSegment(s, want[d]).resident) < maxResident
                 /\ want[d] \notin FirstSegment(s, want[d]).resident
    BY <1>1, <1>2, FirstSegmentIsSound
  <1>5. Sound(t)
    BY <1>4
  <1>6. lockQueue' = rest /\ cache' = t
    BY DEF Settle
  <1>7. pc' = [x \in Callers |->
                  IF x = c THEN IF ok THEN "using" ELSE "idle"
                  ELSE IF rest # <<>> /\ x = d
                       THEN FirstAwait(s, want[x]) ELSE pc[x]]
    BY DEF Settle
  <1>8. live' \in [Callers -> BOOLEAN]
    <2>1. live' = [x \in Callers |-> IF x = c THEN ok /\ want[c] \in t.resident
                                            ELSE StillLive(x, s, t)]
      BY DEF Settle
    <2>2. \A x \in Callers :
             (IF x = c THEN ok /\ want[c] \in t.resident
                       ELSE StillLive(x, s, t)) \in BOOLEAN
      BY Zenon DEF StillLive
    <2> QED
      BY <2>1, <2>2
  <1> HIDE DEF rest, d
  <1>9. /\ pc'[c] \in {"idle", "using"}
        /\ rest # <<>> => pc'[d] = FirstAwait(s, want[d])
        /\ \A x \in Callers \ {c} : ~(rest # <<>> /\ x = d) => pc'[x] = pc[x]
    BY <1>2, <1>7
  <1>10. LockInv'
    <2>1. lockQueue' = Tail(lockQueue) /\ d = Head(lockQueue') /\ lockQueue' = rest
      BY <1>6 DEF rest, d
    <2>2. \A x \in Callers \ {c} :
              IF lockQueue' # <<>> /\ x = Head(lockQueue')
              THEN pc'[x] \in {"returning", "evicting", "loading"}
              ELSE pc'[x] = pc[x]
      BY <1>4, <1>9, <2>1
    <2> QED
      BY <1>1, <1>9, <2>1, <2>2, HandOver
  <1>11. Sound(cache)'
    BY <1>5, <1>6 DEF Sound
  <1>12. TypeOK'
    <2>1. pc' \in [Callers -> States]
      BY <1>4, <1>7 DEF IInv, TypeOK, States
    <2>2. cache' \in Caches /\ lockQueue' \in Seq(Callers)
      BY <1>2, <1>5, <1>6 DEF Sound
    <2> QED
      BY <1>8, <2>1, <2>2 DEF IInv, TypeOK, Caches
  <1>13. RoomInv'
    <2> SUFFICES ASSUME NEW x \in Callers, pc'[x] \in {"evicting", "loading"}
                 PROVE  /\ Cardinality(t.resident) < maxResident
                        /\ want[x] \notin t.resident
      BY <1>6 DEF RoomInv
    <2>1. x # c
      BY <1>9
    <2>2. pc[x] \notin {"evicting", "loading"}
      BY <1>1, <2>1 DEF IInv, LockInv, AtWork
    <2>3. rest # <<>> /\ x = d
      BY <1>9, <2>1, <2>2
    <2>4. t = FirstSegment(s, want[d])
      BY <2>3 DEF t, rest, d
    <2> QED
      BY <1>4, <1>9, <2>3, <2>4
  <1> QED
    BY <1>3, <1>10, <1>11, <1>12, <1>13 DEF IInv, StartInv

-----------------------------------------------------------------------------
(* Every step keeps the invariant *)

LEMMA LoadSettlesKeepsIInv ==
    ASSUME IInv, NEW c \in Callers,
           LoadSucceeds(c) \/ LoadFails(c) \/ ReturnEarly(c)
    PROVE  IInv'
  <1>1. /\ Sound(cache) /\ want[c] \in Keys /\ maxResident \in 1..3
        /\ UNCHANGED <<engine, maxResident, unloading, toUnload, want>>
        /\ pc[c] \in {"loading", "returning"}
    BY DEF IInv, TypeOK, LoadSucceeds, LoadFails, ReturnEarly
  <1>2. CASE LoadSucceeds(c)
    <2>1. /\ want[c] \notin cache.resident
          /\ Cardinality(cache.resident) < maxResident
      BY <1>2 DEF LoadSucceeds, IInv, RoomInv
    <2>2. Sound(Loaded(cache, want[c]))
      BY <1>1, <2>1, LoadedIsSound
    <2> QED
      BY <1>1, <1>2, <2>2, SettleKeepsIInv DEF LoadSucceeds
  <1>3. CASE LoadFails(c)
    <2> DEFINE s == [cache EXCEPT !.loading = FALSE]
    <2>1. /\ s \in Caches /\ s.resident = cache.resident
          /\ s.activeKey = cache.activeKey /\ s.idleTimer = cache.idleTimer
      BY <1>1 DEF Sound, Caches
    <2>2. Sound(s)
      BY <1>1, <2>1 DEF Sound
    <2>3. Settle(c, s, FALSE)
      BY <1>3 DEF LoadFails
    <2> HIDE DEF s
    <2> QED
      BY <1>1, <2>2, <2>3, SettleKeepsIInv
  <1>4. CASE ReturnEarly(c)
    BY <1>1, <1>4, SettleKeepsIInv DEF ReturnEarly
  <1> QED
    BY <1>2, <1>3, <1>4

(* The second turn of evictIfNeeded() finds room: it loads.                *)
LEMMA EvictionDoneKeepsIInv ==
    ASSUME IInv, NEW c \in Callers, EvictionDone(c)
    PROVE  IInv'
  <1>1. /\ Cardinality(cache.resident) < maxResident
        /\ want[c] \notin cache.resident
        /\ HasRoom(cache) /\ pc[c] = "evicting"
        /\ maxResident \in 1..3 /\ Sound(cache)
    BY DEF EvictionDone, IInv, TypeOK, RoomInv, HasRoom
  <1>2. /\ cache' = cache
        /\ pc' = [pc EXCEPT ![c] = "loading"]
        /\ UNCHANGED <<engine, maxResident, lockQueue, unloading, toUnload, want>>
    BY <1>1, OneTurnMakesRoom DEF EvictionDone, Evicting
  <1>3. live' \in [Callers -> BOOLEAN]
    <2>1. live' = [d \in Callers |-> StillLive(d, cache, cache')]
      BY DEF EvictionDone
    <2>2. \A d \in Callers : StillLive(d, cache, cache') \in BOOLEAN
      BY Zenon DEF StillLive
    <2> QED
      BY <2>1, <2>2
  <1>4. /\ pc'[c] = "loading"
        /\ \A d \in Callers \ {c} : pc'[d] = pc[d]
        /\ pc' \in [Callers -> States]
    BY <1>2 DEF IInv, TypeOK, States
  <1>5. TypeOK'
    BY <1>2, <1>3, <1>4 DEF IInv, TypeOK
  <1>6. LockInv'
    <2>1. \A d \in Callers : AtWork(d)' <=> AtWork(d)
      BY <1>1, <1>4 DEF AtWork
    <2>2. \A d \in Callers : (pc'[d] = "queued") <=> (pc[d] = "queued")
      BY <1>1, <1>4
    <2> QED
      BY <1>2, <2>1, <2>2 DEF IInv, LockInv
  <1>7. RoomInv'
    BY <1>1, <1>2, <1>4 DEF IInv, RoomInv
  <1> QED
    BY <1>2, <1>5, <1>6, <1>7, <1>1 DEF IInv, Sound, StartInv

(* What the timer or its loop takes away only makes room.                  *)
LEMMA UnloadKeepsIInv ==
    ASSUME IInv, NEW s \in Caches, NEW keys \in SUBSET Keys,
           s.resident = cache.resident, s.activeKey = cache.activeKey,
           s.idleTimer \/ s.resident \subseteq keys,
           Unload(s, keys), live' \in [Callers -> BOOLEAN],
           UNCHANGED <<engine, maxResident, lockQueue, pc, want>>
    PROVE  IInv'
  <1>1. /\ maxResident \in 1..3 /\ Sound(cache)
        /\ Cardinality(s.resident) \in Nat
        /\ Cardinality(s.resident) <= maxResident
    BY KeysAreFinite DEF IInv, TypeOK, Sound, Caches
  <1>2. /\ Sound(cache)'
        /\ cache'.resident \subseteq cache.resident
        /\ Cardinality(cache'.resident) <= Cardinality(cache.resident)
        /\ unloading' \in BOOLEAN /\ toUnload' \subseteq Keys
    <2>1. CASE keys \cap s.resident = {}
      <3>1. /\ cache' = [s EXCEPT !.activeKey = "none"]
            /\ unloading' = FALSE /\ toUnload' = {}
        BY <2>1 DEF Unload
      <3>2. /\ cache' \in Caches /\ cache'.resident = s.resident
            /\ cache'.activeKey = "none" /\ cache'.idleTimer = s.idleTimer
        BY <3>1 DEF Caches
      <3>3. cache'.resident # {} => cache'.idleTimer
        BY <2>1, <3>2
      <3>4. Sound(cache)'
        BY <1>1, <3>2, <3>3 DEF Sound
      <3>5. unloading' \in BOOLEAN
        BY <3>1, Zenon
      <3> QED
        BY <1>1, <3>1, <3>2, <3>4, <3>5
    <2>2. ASSUME NEW k \in keys \cap s.resident,
                 NEW passed \in SUBSET (keys \ s.resident),
                 cache' = Disposed(s, k), unloading' = TRUE,
                 toUnload' = keys \ ({k} \cup passed)
          PROVE  /\ Sound(cache)'
                 /\ cache'.resident \subseteq cache.resident
                 /\ Cardinality(cache'.resident) <= Cardinality(cache.resident)
                 /\ unloading' \in BOOLEAN /\ toUnload' \subseteq Keys
      <3> DEFINE x == [s.lastUsed EXCEPT ![k] = 0]
                 a == IF s.activeKey = k THEN "none" ELSE s.activeKey
                 t == [s EXCEPT !.resident = @ \ {k}, !.lastUsed = x, !.activeKey = a]
      <3>1. x \in [Keys -> Nat] /\ a \in Keys \cup {"none"}
        BY DEF Caches
      <3>2. cache' = t
        BY <2>2 DEF Disposed, Caches
      <3> HIDE DEF x
      <3>3. /\ cache' \in Caches /\ cache'.resident = s.resident \ {k}
            /\ cache'.activeKey = a /\ cache'.idleTimer = s.idleTimer
        BY <3>1, <3>2 DEF Caches
      <3>4. Cardinality(s.resident \ {k}) = Cardinality(s.resident) - 1
        BY KeysAreFinite, FS_RemoveElement DEF Caches
      <3>5. a # "none" => a \in s.resident \ {k}
        BY <1>1 DEF Sound
      <3>6. s.resident \ {k} # {} =>
               s.idleTimer \/ s.resident \ {k} \subseteq toUnload'
        BY <2>2
      <3> HIDE DEF a
      <3> QED
        BY <1>1, <2>2, <3>3, <3>4, <3>5, <3>6 DEF Sound
    <2>3. keys \cap s.resident # {} =>
             \E k \in keys \cap s.resident, passed \in SUBSET (keys \ s.resident) :
                /\ cache' = Disposed(s, k)
                /\ unloading' = TRUE
                /\ toUnload' = keys \ ({k} \cup passed)
      BY DEF Unload
    <2> QED
      BY <2>1, <2>2, <2>3
  <1>3. TypeOK'
    BY <1>2 DEF IInv, TypeOK, Sound, Caches
  <1>4. RoomInv'
    <2> SUFFICES ASSUME NEW c \in Callers, pc[c] \in {"evicting", "loading"}
                 PROVE  /\ Cardinality(cache'.resident) < maxResident
                        /\ want[c] \notin cache'.resident
      BY DEF RoomInv
    <2>1. /\ Cardinality(cache.resident) < maxResident
          /\ want[c] \notin cache.resident
      BY DEF IInv, RoomInv
    <2>2. Cardinality(cache'.resident) \in Nat
      BY <1>2, KeysAreFinite DEF Sound, Caches
    <2> QED
      BY <1>1, <1>2, <2>1, <2>2
  <1>5. LockInv'
    BY DEF IInv, LockInv, AtWork
  <1>6. StartInv'
    BY <1>2 DEF IInv, StartInv
  <1> QED
    BY <1>2, <1>3, <1>4, <1>5, <1>6 DEF IInv

LEMMA TimerKeepsIInv ==
    ASSUME IInv, TimerStep
    PROVE  IInv'
  <1>1. live' \in [Callers -> BOOLEAN]
    <2>1. live' = [c \in Callers |-> StillLive(c, cache, cache')]
      BY DEF TimerStep, IdleFires, DisposalDone
    <2>2. \A c \in Callers : StillLive(c, cache, cache') \in BOOLEAN
      BY Zenon DEF StillLive
    <2> QED
      BY <2>1, <2>2
  <1>2. Sound(cache) /\ cache \in Caches
    BY DEF IInv, Sound
  <1>3. CASE IdleFires
    <2> DEFINE s == [cache EXCEPT !.idleTimer = FALSE]
    <2>1. /\ s \in Caches /\ s.resident = cache.resident
          /\ s.activeKey = cache.activeKey
          /\ cache.resident \in SUBSET Keys
      BY <1>2 DEF Caches
    <2>2. /\ Unload(s, cache.resident)
          /\ UNCHANGED <<engine, maxResident, lockQueue, pc, want>>
      BY <1>3 DEF IdleFires
    <2> HIDE DEF s
    <2> QED
      BY <1>1, <2>1, <2>2, UnloadKeepsIInv
  <1>4. CASE DisposalDone
    <2>1. /\ Unload(cache, toUnload) /\ toUnload \in SUBSET Keys
          /\ UNCHANGED <<engine, maxResident, lockQueue, pc, want>>
          /\ cache.idleTimer \/ cache.resident \subseteq toUnload
      BY <1>2, <1>4 DEF DisposalDone, IInv, TypeOK, Sound
    <2> QED
      BY <1>1, <1>2, <2>1, UnloadKeepsIInv
  <1> QED
    BY <1>3, <1>4 DEF TimerStep

(* A caller that moves among the states outside the lock.                  *)
LEMMA OutsideTheLock ==
    ASSUME IInv, NEW c \in Callers,
           NEW s \in {"idle", "awaitEngine", "using", "timedOut"},
           pc[c] \in {"idle", "awaitEngine", "using", "timedOut"},
           pc' = [pc EXCEPT ![c] = s],
           engine # "ready" => s \in {"idle", "awaitEngine"},
           \A d \in Callers \ {c} : want'[d] = want[d],
           want' \in [Callers -> Keys], live' \in [Callers -> BOOLEAN],
           Sound(cache'), cache'.resident = cache.resident,
           UNCHANGED <<engine, maxResident, lockQueue, unloading, toUnload>>
    PROVE  IInv'
  <1>1. /\ pc'[c] = s
        /\ \A d \in Callers \ {c} : pc'[d] = pc[d]
        /\ pc' \in [Callers -> States]
    BY DEF IInv, TypeOK, States
  <1>2. /\ \A d \in Callers : AtWork(d)' <=> AtWork(d)
        /\ \A d \in Callers : (pc'[d] = "queued") <=> (pc[d] = "queued")
    BY <1>1 DEF AtWork
  <1>3. LockInv'
    BY <1>2 DEF IInv, LockInv
  <1>4. RoomInv'
    BY <1>1 DEF IInv, RoomInv
  <1>5. TypeOK'
    BY <1>1 DEF IInv, TypeOK, Sound, Caches
  <1>6. Sound(cache)'
    BY DEF Sound
  <1>7. StartInv'
    BY <1>1 DEF IInv, StartInv
  <1> QED
    BY <1>3, <1>4, <1>5, <1>6, <1>7 DEF IInv

LEMMA OutsideStepKeepsIInv ==
    ASSUME IInv, NEW c \in Callers,
           RequestStep(c) \/ RejectCall(c) \/ TakeResident(c)
    PROVE  IInv'
  <1>1. /\ Sound(cache) /\ cache \in Caches
        /\ Cardinality(cache.resident) <= maxResident
    BY DEF IInv, Sound
  <1>2. ASSUME NEW intent \in Intents, Call(c, intent)
        PROVE  IInv'
    <2>1. KeyOf(intent) \in Keys
      BY DEF KeyOf, Keys
    <2>2. /\ want' \in [Callers -> Keys]
          /\ \A d \in Callers \ {c} : want'[d] = want[d]
      BY <1>2, <2>1 DEF Call, IInv, TypeOK
    <2> QED
      BY <1>1, <1>2, <2>2, OutsideTheLock DEF Call, IInv, TypeOK
  <1>3. CASE RequestTimeout(c)
    BY <1>1, <1>3, OutsideTheLock DEF RequestTimeout, IInv, TypeOK, StartInv
  <1>4. CASE RequestEnds(c)
    BY <1>1, <1>4, OutsideTheLock DEF RequestEnds, IInv, TypeOK
  <1>5. CASE RejectCall(c)
    BY <1>1, <1>5, OutsideTheLock DEF RejectCall, IInv, TypeOK
  <1>6. CASE TakeResident(c)
    <2>1. /\ Sound(Used(cache, want[c]))
          /\ Used(cache, want[c]).resident = cache.resident
      BY <1>1, <1>6, UsedIsSound DEF TakeResident
    <2>2. live' \in [Callers -> BOOLEAN]
      BY <1>6 DEF TakeResident, IInv, TypeOK
    <2> QED
      BY <1>6, <2>1, <2>2, OutsideTheLock DEF TakeResident, IInv, TypeOK
  <1> QED
    BY <1>2, <1>3, <1>4, <1>5, <1>6 DEF RequestStep

(* A caller that finds its model missing queues, or starts at once.        *)
LEMMA EnterLockKeepsIInv ==
    ASSUME IInv, NEW c \in Callers, EnterLock(c)
    PROVE  IInv'
  <1>1. /\ pc[c] = "awaitEngine" /\ engine = "ready"
        /\ want[c] \notin cache.resident
        /\ lockQueue' = Append(lockQueue, c)
        /\ UNCHANGED <<engine, maxResident, unloading, toUnload, want>>
        /\ Sound(cache) /\ maxResident \in 1..3 /\ want[c] \in Keys
    BY DEF EnterLock, IInv, TypeOK
  <1>2. /\ lockQueue \in Seq(Callers) /\ Len(lockQueue) \in Nat
        /\ DOMAIN lockQueue = 1..Len(lockQueue)
    BY LenProperties DEF IInv, TypeOK
  <1>3. /\ lockQueue' \in Seq(Callers)
        /\ Len(lockQueue') = Len(lockQueue) + 1
        /\ \A i \in 1..Len(lockQueue) : lockQueue'[i] = lockQueue[i]
        /\ lockQueue'[Len(lockQueue) + 1] = c
    BY <1>1, <1>2, AppendProperties
  <1>4. /\ DOMAIN lockQueue' = 1..(Len(lockQueue) + 1)
        /\ lockQueue' # <<>>
    BY <1>2, <1>3, LenProperties, EmptySeq
  <1>5. CASE /\ lockQueue # <<>>
             /\ pc' = [pc EXCEPT ![c] = "queued"]
             /\ UNCHANGED <<cache, live>>
    <2>1. /\ pc'[c] = "queued"
          /\ \A d \in Callers \ {c} : pc'[d] = pc[d]
          /\ pc' \in [Callers -> States]
      BY <1>5 DEF IInv, TypeOK, States
    <2>2. TypeOK'
      BY <1>1, <1>3, <1>5, <2>1 DEF IInv, TypeOK
    <2>3. RoomInv'
      BY <1>1, <1>5, <2>1 DEF IInv, RoomInv
    <2>4. Len(lockQueue) > 0 /\ lockQueue[1] = Head(lockQueue)
      BY <1>2, <1>5, EmptySeq
    <2>5. Head(lockQueue') = Head(lockQueue)
      BY <1>2, <1>3, <1>4, <2>4
    <2>6. \A i \in 1..Len(lockQueue) : lockQueue[i] # c
      <3> TAKE i \in 1..Len(lockQueue)
      <3>1. CASE i = 1
        BY <1>1, <1>5, <2>4, <3>1 DEF IInv, LockInv, AtWork
      <3>2. CASE i # 1
        <4>1. i \in 2..Len(lockQueue)
          BY <1>2, <3>2
        <4> QED
          BY <1>1, <4>1 DEF IInv, LockInv
      <3> QED
        BY <3>1, <3>2
    <2>7. LockInv'
      <3>1. \A d \in Callers :
               AtWork(d)' <=> lockQueue' # <<>> /\ d = Head(lockQueue')
        BY <1>1, <1>4, <1>5, <2>1, <2>5 DEF AtWork, IInv, LockInv
      <3>2. ASSUME NEW d \in Callers
            PROVE  pc'[d] = "queued" <=>
                      \E i \in 2..Len(lockQueue') : lockQueue'[i] = d
        <4>1. CASE d = c
          <5>1. Len(lockQueue) + 1 \in 2..Len(lockQueue')
            BY <1>2, <1>3, <2>4
          <5> QED
            BY <1>3, <2>1, <4>1, <5>1
        <4>2. CASE d # c
          <5>1. pc[d] = "queued" <=>
                   \E i \in 2..Len(lockQueue) : lockQueue[i] = d
            BY DEF IInv, LockInv
          <5>2. (\E i \in 2..Len(lockQueue) : lockQueue[i] = d) <=>
                (\E i \in 2..Len(lockQueue') : lockQueue'[i] = d)
            BY <1>2, <1>3, <4>2
          <5> QED
            BY <2>1, <4>2, <5>1, <5>2
        <4> QED
          BY <4>1, <4>2
      <3>3. \A i, j \in DOMAIN lockQueue' :
               lockQueue'[i] = lockQueue'[j] => i = j
        BY <1>2, <1>3, <1>4, <2>6 DEF IInv, LockInv
      <3> QED
        BY <3>1, <3>2, <3>3, Zenon DEF LockInv
    <2> QED
      BY <1>1, <1>5, <2>2, <2>3, <2>7 DEF IInv, Sound, StartInv
  <1>6. CASE /\ lockQueue = <<>>
             /\ pc' = [pc EXCEPT ![c] = FirstAwait(cache, want[c])]
             /\ cache' = FirstSegment(cache, want[c])
             /\ live' = [d \in Callers |-> StillLive(d, cache, cache')]
    <2> DEFINE at == FirstAwait(cache, want[c])
    <2>1. /\ Sound(cache') /\ at \in {"evicting", "loading"}
          /\ Cardinality(cache'.resident) < maxResident
          /\ want[c] \notin cache'.resident
      <3>1. at # "returning"
        BY <1>1 DEF FirstAwait, Evicting
      <3> QED
        BY <1>1, <1>6, <3>1, FirstSegmentIsSound
    <2> HIDE DEF at
    <2>2. /\ pc'[c] = at
          /\ \A d \in Callers \ {c} : pc'[d] = pc[d]
          /\ pc' \in [Callers -> States]
      BY <1>6, <2>1 DEF at, IInv, TypeOK, States
    <2>3. live' \in [Callers -> BOOLEAN]
      <3>1. \A d \in Callers : StillLive(d, cache, cache') \in BOOLEAN
        BY Zenon DEF StillLive
      <3> QED
        BY <1>6, <3>1
    <2>4. TypeOK'
      BY <1>1, <1>3, <2>1, <2>2, <2>3 DEF IInv, TypeOK, Sound, Caches
    <2>5. \A d \in Callers : ~AtWork(d) /\ pc[d] # "queued"
      <3>1. Len(lockQueue) = 0
        BY <1>6, EmptySeq
      <3> QED
        BY <1>6, <3>1 DEF IInv, LockInv
    <2>6. RoomInv'
      BY <1>1, <2>1, <2>2, <2>5 DEF RoomInv, AtWork
    <2>7. LockInv'
      <3>1. Len(lockQueue) = 0
        BY <1>6, EmptySeq
      <3>2. Head(lockQueue') = c /\ lockQueue'[1] = c /\ Len(lockQueue') = 1
        BY <1>3, <1>4, <3>1
      <3>3. \A d \in Callers :
               AtWork(d)' <=> lockQueue' # <<>> /\ d = Head(lockQueue')
        BY <1>4, <2>1, <2>2, <2>5, <3>2 DEF AtWork
      <3>4. \A d \in Callers : pc'[d] = "queued" <=>
               \E i \in 2..Len(lockQueue') : lockQueue'[i] = d
        BY <2>1, <2>2, <2>5, <3>2
      <3>5. \A i, j \in DOMAIN lockQueue' :
               lockQueue'[i] = lockQueue'[j] => i = j
        BY <1>4, <3>1
      <3> QED
        BY <3>3, <3>4, <3>5, Zenon DEF LockInv
    <2>8. Sound(cache)'
      BY <1>1, <2>1 DEF Sound
    <2> QED
      BY <1>1, <2>4, <2>6, <2>7, <2>8 DEF IInv, StartInv
  <1> QED
    BY <1>5, <1>6 DEF EnterLock

(* While the engine starts nothing is resident, so any budget will do.     *)
LEMMA EngineStepKeepsIInv ==
    ASSUME IInv, EngineStep
    PROVE  IInv'
  <1>1. /\ UNCHANGED <<cache, lockQueue, unloading, toUnload, pc, want, live>>
        /\ engine' \in {"ready", "failed"} /\ engine # "ready"
        /\ maxResident' \in 1..3
    <2>1. \A gb \in VramSizes : BudgetForVram(gb) \in 1..3
      BY LegacyModelManagerAssumption DEF BudgetForVram
    <2> QED
      BY <2>1 DEF EngineStep, EngineReady, EngineFails, IInv, TypeOK
  <1>2. /\ cache.resident = {} /\ lockQueue = <<>>
        /\ \A c \in Callers : pc[c] \in {"idle", "awaitEngine"}
    BY <1>1 DEF IInv, StartInv
  <1>3. TypeOK'
    BY <1>1 DEF IInv, TypeOK
  <1>4. LockInv'
    BY <1>1 DEF IInv, LockInv, AtWork
  <1>5. RoomInv' /\ StartInv'
    BY <1>1, <1>2 DEF RoomInv, StartInv
  <1>6. Sound(cache)'
    BY <1>1, <1>2, FS_EmptySet DEF IInv, Sound
  <1> QED
    BY <1>3, <1>4, <1>5, <1>6 DEF IInv

LEMMA IInvInitially == Init => IInv
  <1> SUFFICES ASSUME Init
               PROVE  IInv
    OBVIOUS
  <1>1. /\ cache.resident = {} /\ cache.activeKey = "none"
        /\ lockQueue = <<>> /\ \A c \in Callers : pc[c] = "idle"
        /\ maxResident = 1
    BY DEF Init
  <1>2. [k \in Keys |-> 0] \in [Keys -> Nat]
    OBVIOUS
  <1>3. cache \in Caches
    BY <1>2 DEF Init, Caches
  <1>4. TypeOK
    <2>1. /\ pc \in [Callers -> States] /\ want \in [Callers -> Keys]
          /\ live \in [Callers -> BOOLEAN]
      BY DEF Init, States, Keys
    <2>2. lockQueue \in Seq(Callers) /\ toUnload \subseteq Keys
      BY DEF Init
    <2>3. engine \in {"starting", "ready", "failed"} /\ maxResident \in 1..3
      BY DEF Init
    <2>4. unloading \in BOOLEAN
      BY Zenon DEF Init
    <2> QED
      BY <1>3, <2>1, <2>2, <2>3, <2>4 DEF TypeOK, Caches
  <1>5. Sound(cache)
    BY <1>1, <1>3, FS_EmptySet DEF Sound
  <1>6. LockInv
    <2>1. Len(lockQueue) = 0 /\ DOMAIN lockQueue = {}
      BY DEF Init
    <2> QED
      BY <1>1, <2>1 DEF LockInv, AtWork
  <1> QED
    BY <1>1, <1>4, <1>5, <1>6 DEF IInv, RoomInv, StartInv

LEMMA IInvInductive == IInv /\ [Next]_vars => IInv'
  <1> SUFFICES ASSUME IInv, [Next]_vars
               PROVE  IInv'
    OBVIOUS
  <1>1. CASE EngineStep
    BY <1>1, EngineStepKeepsIInv
  <1>2. ASSUME NEW c \in Callers, AcquireStep(c) \/ RequestStep(c)
        PROVE  IInv'
    BY <1>2, OutsideStepKeepsIInv, EnterLockKeepsIInv, EvictionDoneKeepsIInv,
       LoadSettlesKeepsIInv DEF AcquireStep
  <1>3. CASE TimerStep
    BY <1>3, TimerKeepsIInv
  <1>4. CASE UNCHANGED vars
    <2>1. TypeOK' /\ Sound(cache)'
      BY <1>4 DEF vars, IInv, TypeOK, Sound
    <2>2. LockInv' /\ RoomInv' /\ StartInv'
      BY <1>4 DEF vars, IInv, LockInv, AtWork, RoomInv, StartInv
    <2> QED
      BY <2>1, <2>2 DEF IInv
  <1> QED
    BY <1>1, <1>2, <1>3, <1>4 DEF Next, AllIdle

LEMMA IInvAlways == Spec => []IInv
  BY IInvInitially, IInvInductive, PTL DEF Spec

-----------------------------------------------------------------------------
(* The theorems *)

(* The manager's state is always well typed.                               *)
THEOREM TypeCorrect == Spec => []TypeOK
  <1>1. IInv => TypeOK
    BY DEF IInv
  <1> QED
    BY <1>1, IInvAlways, PTL

(* status.loaded (legacyModelManager.ts:319) names a resident model, or    *)
(* none, through evictions, failed loads and unloads in any order.         *)
THEOREM ActiveModelIsResidentAlways == Spec => []ActiveModelIsResident
  <1>1. IInv => ActiveModelIsResident
    BY DEF IInv, Sound, ActiveModelIsResident
  <1> QED
    BY <1>1, IInvAlways, PTL

(* resetIdleTimer() and unloadAll(): whatever is resident, the timer is    *)
(* armed or the unloading under way has still to visit it all.             *)
THEOREM NoModelIsForgottenAlways == Spec => []NoModelIsForgotten
  <1>1. IInv => NoModelIsForgotten
    BY DEF IInv, Sound, NoModelIsForgotten
  <1> QED
    BY <1>1, IInvAlways, PTL

(* evictIfNeeded(): the resident models and the one being loaded fit the   *)
(* budget, although the idle timer unloads without the lock.               *)
THEOREM VramWithinBudgetAlways == Spec => []VramWithinBudget
  <1>1. IInv => VramWithinBudget
    <2> SUFFICES ASSUME IInv
                 PROVE  VramWithinBudget
      OBVIOUS
    <2> DEFINE busy == {c \in Callers : pc[c] \in {"evicting", "loading"}}
    <2>1. /\ Cardinality(cache.resident) \in Nat /\ maxResident \in Nat
          /\ Cardinality(cache.resident) <= maxResident
      BY KeysAreFinite DEF IInv, TypeOK, Sound, Caches
    <2>2. CASE busy = {}
      BY <2>1, <2>2, FS_EmptySet DEF VramWithinBudget
    <2>3. ASSUME NEW c \in busy
          PROVE  VramWithinBudget
      <3>1. \A d \in busy : d = Head(lockQueue)
        BY DEF IInv, LockInv, AtWork
      <3>2. busy = {c}
        BY <2>3, <3>1
      <3>3. Cardinality(busy) = 1
        BY <3>2, FS_Singleton
      <3>4. Cardinality(cache.resident) < maxResident
        BY <2>3 DEF IInv, RoomInv
      <3> HIDE DEF busy
      <3>5. Cardinality(cache.resident) + Cardinality(busy) <= maxResident
        BY <2>1, <3>3, <3>4
      <3> QED
        BY <3>5 DEF VramWithinBudget, busy
    <2> QED
      BY <2>2, <2>3
  <1> QED
    BY <1>1, IInvAlways, PTL

-----------------------------------------------------------------------------
(* How long a caller waits for the lock *)

(* The most steps that holders of the lock take before the one at place i  *)
(* of the queue holds it: two for each, once the first is done.            *)
StepsAhead(i, holder) == 2 * (i - 2) + IF holder = "evicting" THEN 2 ELSE 1

HolderMoves == lockQueue # <<>> /\ pc'[Head(lockQueue)] # pc[Head(lockQueue)]

HoldsTheLockNext(i) == i = 2 /\ lockQueue' = Tail(lockQueue)

WaitsLess(i) ==
    \E j \in 2..Len(lockQueue') :
        /\ lockQueue'[j] = lockQueue[i]
        /\ StepsAhead(j, pc'[Head(lockQueue')])
              < StepsAhead(i, pc[Head(lockQueue)])

WaitsAsBefore(i) ==
    /\ lockQueue'[i] = lockQueue[i]
    /\ pc'[Head(lockQueue')] = pc[Head(lockQueue)]
    /\ Head(lockQueue') = Head(lockQueue)

WaitersComeCloser ==
    \A i \in 2..Len(lockQueue) :
        IF HolderMoves THEN HoldsTheLockNext(i) \/ WaitsLess(i)
                       ELSE WaitsAsBefore(i)

(* Steps of callers outside the lock, and of new waiters.                  *)
LEMMA OthersDoNotDelay ==
    ASSUME IInv,
           \A i \in 1..Len(lockQueue) : lockQueue'[i] = lockQueue[i],
           lockQueue # <<>> => Head(lockQueue') = Head(lockQueue),
           lockQueue # <<>> => pc'[Head(lockQueue)] = pc[Head(lockQueue)]
    PROVE  WaitersComeCloser
  <1> SUFFICES ASSUME NEW i \in 2..Len(lockQueue)
               PROVE  ~HolderMoves /\ WaitsAsBefore(i)
    BY DEF WaitersComeCloser
  <1>1. lockQueue # <<>> /\ i \in 1..Len(lockQueue)
    BY EmptySeq, LenProperties DEF IInv, TypeOK
  <1> QED
    BY <1>1 DEF HolderMoves, WaitsAsBefore

(* The holder is done: everybody moves up, and the next one is at work.    *)
LEMMA SettleServesTheNext ==
    ASSUME IInv, NEW c \in Callers, pc[c] \in {"loading", "returning"},
           NEW s, NEW ok, Settle(c, s, ok)
    PROVE  WaitersComeCloser
  <1> DEFINE rest == Tail(lockQueue)
  <1>1. /\ c = Head(lockQueue) /\ lockQueue # <<>>
        /\ Len(rest) \in Nat /\ Len(lockQueue) = Len(rest) + 1
        /\ \A i \in 1..Len(rest) : rest[i] = lockQueue[i + 1]
    BY BehindTheHead DEF AtWork
  <1>2. lockQueue' = rest /\ pc'[c] \in {"using", "idle"}
    BY DEF Settle
  <1>3. HolderMoves
    BY <1>1, <1>2 DEF HolderMoves
  <1> HIDE DEF rest
  <1> SUFFICES ASSUME NEW i \in 2..Len(lockQueue)
               PROVE  HoldsTheLockNext(i) \/ WaitsLess(i)
    BY <1>3 DEF WaitersComeCloser
  <1>4. CASE i = 2
    BY <1>2, <1>4 DEF HoldsTheLockNext, rest
  <1>5. CASE i # 2
    <2>1. i - 1 \in 2..Len(rest) /\ i - 1 \in 1..Len(rest) /\ (i - 1) + 1 = i
      BY <1>1, <1>5
    <2>2. lockQueue'[i - 1] = lockQueue[i]
      BY <1>1, <1>2, <2>1
    <2>3. \A h, k : StepsAhead(i - 1, h) < StepsAhead(i, k)
      BY <1>1, <2>1 DEF StepsAhead
    <2> QED
      BY <1>2, <2>1, <2>2, <2>3 DEF WaitsLess
  <1> QED
    BY <1>4, <1>5

(* The holder evicts once at most before it loads: what the idle timer     *)
(* unloads meanwhile only makes more room.                                 *)
LEMMA EvictionBringsTheLoad ==
    ASSUME IInv, NEW c \in Callers, EvictionDone(c)
    PROVE  WaitersComeCloser
  <1>1. pc[c] = "evicting" /\ UNCHANGED lockQueue /\ HasRoom(cache)
    BY DEF EvictionDone, IInv, RoomInv, HasRoom
  <1>2. pc' = [pc EXCEPT ![c] = "loading"]
    BY <1>1 DEF EvictionDone, Evicting
  <1>3. c = Head(lockQueue) /\ lockQueue # <<>>
    BY <1>1 DEF IInv, LockInv, AtWork
  <1>4. pc'[c] = "loading"
    BY <1>2 DEF IInv, TypeOK
  <1>5. \A i \in 2..Len(lockQueue) : StepsAhead(i, "loading") < StepsAhead(i, "evicting")
    <2>1. Len(lockQueue) \in Nat
      BY LenProperties DEF IInv, TypeOK
    <2> QED
      BY <2>1 DEF StepsAhead
  <1> QED
    BY <1>1, <1>3, <1>4, <1>5 DEF WaitersComeCloser, WaitsLess, HolderMoves

LEMMA StepBringsWaitersCloser ==
    ASSUME IInv, Next
    PROVE  WaitersComeCloser
  <1>1. /\ lockQueue \in Seq(Callers) /\ Len(lockQueue) \in Nat
        /\ DOMAIN lockQueue = 1..Len(lockQueue)
        /\ lockQueue # <<>> => /\ Head(lockQueue) \in Callers
                               /\ AtWork(Head(lockQueue))
                               /\ Len(lockQueue) > 0
    <2>1. lockQueue \in Seq(Callers)
      BY DEF IInv, TypeOK
    <2>2. lockQueue # <<>> => Head(lockQueue) \in Callers
      BY <2>1, HeadTailProperties
    <2>3. lockQueue # <<>> => Len(lockQueue) > 0
      BY <2>1, EmptySeq, LenProperties
    <2> QED
      BY <2>1, <2>2, <2>3, LenProperties DEF IInv, LockInv
  <1>2. ASSUME NEW c \in Callers, UNCHANGED lockQueue, ~AtWork(c),
               \A d \in Callers \ {c} : pc'[d] = pc[d]
        PROVE  WaitersComeCloser
    BY <1>1, <1>2, OthersDoNotDelay
  <1>3. CASE EngineStep \/ TimerStep \/ AllIdle
    <2>1. UNCHANGED <<lockQueue, pc>>
      BY <1>3 DEF EngineStep, EngineReady, EngineFails, TimerStep, IdleFires,
                     DisposalDone, AllIdle, vars
    <2> QED
      BY <1>1, <2>1, OthersDoNotDelay
  <1>4. ASSUME NEW c \in Callers, RequestStep(c) \/ RejectCall(c) \/ TakeResident(c)
        PROVE  WaitersComeCloser
    <2>1. /\ UNCHANGED lockQueue /\ ~AtWork(c)
          /\ \A d \in Callers \ {c} : pc'[d] = pc[d]
      BY <1>4 DEF RequestStep, Call, RequestTimeout, RequestEnds, RejectCall, TakeResident,
                  AtWork, IInv, TypeOK
    <2> QED
      BY <1>2, <2>1
  <1>5. ASSUME NEW c \in Callers, EnterLock(c)
        PROVE  WaitersComeCloser
    <2>1. lockQueue' = Append(lockQueue, c)
          /\ \A i \in 1..Len(lockQueue) : lockQueue'[i] = lockQueue[i]
      BY <1>1, <1>5, AppendProperties DEF EnterLock
    <2>2. lockQueue # <<>> =>
             /\ Head(lockQueue') = Head(lockQueue)
             /\ pc'[Head(lockQueue)] = pc[Head(lockQueue)]
      <3> SUFFICES ASSUME lockQueue # <<>>
                   PROVE  /\ Head(lockQueue') = Head(lockQueue)
                          /\ pc'[Head(lockQueue)] = pc[Head(lockQueue)]
        OBVIOUS
      <3>1. pc' = [pc EXCEPT ![c] = "queued"] /\ pc[c] = "awaitEngine"
        BY <1>5 DEF EnterLock
      <3>2. Head(lockQueue') = Head(lockQueue)
        BY <1>1, <2>1
      <3> QED
        BY <1>1, <3>1, <3>2 DEF AtWork, IInv, TypeOK
    <2> QED
      BY <1>1, <2>1, <2>2, OthersDoNotDelay
  <1>6. ASSUME NEW c \in Callers, LoadSucceeds(c) \/ LoadFails(c) \/ ReturnEarly(c)
        PROVE  WaitersComeCloser
    BY <1>6, SettleServesTheNext DEF LoadSucceeds, LoadFails, ReturnEarly
  <1> QED
    BY <1>3, <1>4, <1>5, <1>6, EvictionBringsTheLoad DEF Next, AcquireStep

(* As in ModelManager, and with a timer that unloads without the lock:     *)
(* each step of the holder of the load lock brings every waiter nearer to  *)
(* it, in the order in which they came, and neither the timer nor another  *)
(* request puts a waiter off (withLoadLock and evictIfNeeded of            *)
(* legacyModelManager.ts).                                                 *)
THEOREM WaitersComeCloserAlways == Spec => [][WaitersComeCloser]_vars
  <1>1. IInv /\ [Next]_vars => [WaitersComeCloser]_vars
    BY StepBringsWaitersCloser
  <1> QED
    BY <1>1, IInvAlways, PTL DEF Spec
=============================================================================
