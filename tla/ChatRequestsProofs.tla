------------------------- MODULE ChatRequestsProofs -------------------------
(***************************************************************************)
(* For every set of requests, on the live route alone and on the live and  *)
(* the shadow route together: the slot never leaks, the handlers exclude   *)
(* each other until one of them takes the exit that releases twice,        *)
(* nobody overtakes, and /v1/chat/abort reaches the handler that runs.     *)
(* The lemmas on the slot ask nothing of a handler but SharedInv, so both  *)
(* specifications rest on them.                                            *)
(***************************************************************************)
EXTENDS ShadowRoute, SequenceTheorems, TLAPS

(* What each phase of a live handler says of the resources it has.         *)
Resources(r) ==
    /\ context[r] => phase[r] \in {"incremental", "catching", "cleaning"}
    /\ phase[r] \in {"preparing", "incremental", "catching", "new",
                     "queued"} => phaseContexts[r] = 0
    /\ phase[r] = "acquiring" => phaseContexts[r] \in 0..1

(* The timer runs only while the handler holds the slot.                   *)
TimerInv == \A r \in Requests : timer[r] => Holding(r)

(* The queue holds requests that wait, each once.                          *)
QueueInv ==
    /\ \A i \in 1..Len(requestQueue) : phase[requestQueue[i]] = "queued"
    /\ \A i, j \in 1..Len(requestQueue) :
          requestQueue[i] = requestQueue[j] => i = j

(* How the flag, the queue, the controller and the handlers fit together.  *)
(* The last conjunct is what one release per handler buys.                 *)
SlotInv ==
    /\ requestQueue # <<>> => requestInFlight
    /\ requestInFlight => \E r \in Requests : Holding(r)
    /\ activeController # NoRequest => Holding(activeController)
    /\ NobodyAbandoned =>
          \A r \in Requests : Holding(r) => requestInFlight /\ activeController = r

(* What the handlers of both routes have in common.                        *)
SharedInv == TypeOK /\ TimerInv /\ QueueInv /\ SlotInv

IInv == SharedInv /\ \A r \in Requests : Resources(r)

-----------------------------------------------------------------------------
(* What is left in the queue once n releases have started its first        *)
(* waiters.                                                                *)
LEMMA QueueAfterRelease ==
    ASSUME TypeOK, NEW n \in 1..2
    PROVE  LET rest == SubSeq(requestQueue, n + 1, Len(requestQueue)) IN
           /\ rest \in Seq(Requests)
           /\ rest # <<>> => n < Len(requestQueue)
           /\ \A i \in 1..Len(rest) : /\ n + i \in 1..Len(requestQueue)
                                      /\ rest[i] = requestQueue[n + i]
  <1> DEFINE rest == SubSeq(requestQueue, n + 1, Len(requestQueue))
  <1>1. requestQueue \in Seq(Requests) /\ Len(requestQueue) \in Nat
    BY LenProperties DEF TypeOK
  <1>2. \A i \in (n + 1)..Len(requestQueue) : requestQueue[i] \in Requests
    BY <1>1, ElementOfSeq
  <1>3. /\ rest \in Seq(Requests)
        /\ Len(rest) = IF n + 1 <= Len(requestQueue)
                       THEN Len(requestQueue) - (n + 1) + 1 ELSE 0
        /\ \A i \in 1..(Len(requestQueue) - (n + 1) + 1) :
              rest[i] = requestQueue[n + 1 + i - 1]
    <2> HIDE DEF rest
    <2>1. n + 1 \in Int /\ Len(requestQueue) \in Int
      BY <1>1
    <2> QED
      BY <1>2, <2>1, SubSeqProperties DEF rest
  <1>4. Len(rest) > 0 => n < Len(requestQueue)
    BY <1>1, <1>3
  <1>5. \A i \in 1..Len(rest) : n + i \in 1..Len(requestQueue)
                                /\ rest[i] = requestQueue[n + i]
    BY <1>1, <1>3
  <1>6. rest # <<>> => Len(rest) > 0
    BY <1>3, EmptySeq
  <1> QED
    BY <1>3, <1>4, <1>5, <1>6

(* The waiters started by n releases were all queued, and there is one as  *)
(* soon as the queue is not empty.                                         *)
LEMMA GrantedWereQueued ==
    ASSUME TypeOK, QueueInv, NEW n \in 1..2
    PROVE  /\ Granted(n) \subseteq {s \in Requests : phase[s] = "queued"}
           /\ requestQueue # <<>> => requestQueue[1] \in Granted(n)
           /\ requestQueue = <<>> => Granted(n) = {}
           /\ Len(requestQueue) \in Nat
           /\ requestQueue # <<>> => Len(requestQueue) > 0
           /\ DOMAIN requestQueue = 1..Len(requestQueue)
  <1>1. /\ Len(requestQueue) \in Nat
        /\ DOMAIN requestQueue = 1..Len(requestQueue)
        /\ \A i \in 1..Len(requestQueue) : requestQueue[i] \in Requests
    BY LenProperties, ElementOfSeq DEF TypeOK
  <1>2. requestQueue # <<>> => Len(requestQueue) > 0
    BY <1>1, EmptySeq DEF TypeOK
  <1>3. requestQueue = <<>> => Len(requestQueue) = 0
    BY EmptySeq
  <1> QED
    BY <1>1, <1>2, <1>3 DEF Granted, QueueInv

-----------------------------------------------------------------------------
(* Giving up the slot, whether once or twice, keeps what the queue and the *)
(* slot promise.  Two releases are allowed to an exit that says so.        *)
LEMMA ReleaseKeepsInv ==
    ASSUME SharedInv, NEW r \in Requests, NEW n \in 1..2,
           NEW exit \in {"finished", "abandoned"},
           n = 2 => exit = "abandoned",
           Holding(r), Release(r, n, exit)
    PROVE  /\ requestQueue' \in Seq(Requests)
           /\ requestInFlight' \in BOOLEAN
           /\ activeController' \in Requests \cup {NoRequest}
           /\ phase' \in [Requests -> Phases]
           /\ timer' \in [Requests -> BOOLEAN]
           /\ QueueInv'
           /\ SlotInv'
           /\ \A s \in Requests : timer'[s] => Holding(s)'
           /\ phase'[r] = exit
           /\ \A s \in Requests \ {r} :
                 \/ phase'[s] = phase[s]
                 \/ /\ phase[s] = "queued"
                    /\ phase'[s] = "preparing"
  <1> USE DEF SharedInv
  <1>g. /\ Granted(n) \subseteq {s \in Requests : phase[s] = "queued"}
        /\ requestQueue # <<>> => requestQueue[1] \in Granted(n)
        /\ requestQueue = <<>> => Granted(n) = {}
        /\ Len(requestQueue) \in Nat
        /\ requestQueue # <<>> => Len(requestQueue) > 0
        /\ DOMAIN requestQueue = 1..Len(requestQueue)
    BY GrantedWereQueued
  <1>q. /\ requestQueue' \in Seq(Requests)
        /\ requestQueue' # <<>> => n < Len(requestQueue)
        /\ \A i \in 1..Len(requestQueue') :
              /\ n + i \in 1..Len(requestQueue)
              /\ requestQueue'[i] = requestQueue[n + i]
    BY QueueAfterRelease DEF Release
  <1>p. /\ phase' \in [Requests -> Phases]
        /\ phase'[r] = exit
        /\ \A s \in Requests \ {r} :
              phase'[s] = IF s \in Granted(n) THEN "preparing" ELSE phase[s]
    BY DEF Release, TypeOK, Phases, HoldingPhases, TerminalPhases
  <1>h. \A s \in Requests : Holding(s)' <=>
            s \in Granted(n) \/ (s # r /\ Holding(s))
    BY <1>p, <1>g DEF Holding, HoldingPhases
  <1>1. requestInFlight' \in BOOLEAN /\ (requestInFlight' <=> n <= Len(requestQueue))
    <2>1. CASE n <= Len(requestQueue)
      <3>1. requestInFlight' = TRUE
        BY <2>1 DEF Release
      <3> QED
        BY <2>1, <3>1
    <2>2. CASE ~(n <= Len(requestQueue))
      <3>1. requestInFlight' = (n <= Len(requestQueue))
        BY DEF Release
      <3>2. (n <= Len(requestQueue)) = FALSE
        BY <2>2, <1>g
      <3> QED
        BY <2>2, <3>1, <3>2, Zenon
    <2> QED
      BY <2>1, <2>2
  <1>2. /\ activeController' \in Requests \cup {NoRequest}
        /\ requestQueue # <<>> => activeController' \in Granted(n)
        /\ requestQueue = <<>> =>
              activeController' = IF activeController = r THEN NoRequest
                                                          ELSE activeController
    <2>1. CASE requestQueue = <<>>
      BY <2>1 DEF Release, ControllerAfter, TypeOK
    <2>2. CASE requestQueue # <<>>
      <3> DEFINE last == IF n <= Len(requestQueue) THEN n ELSE Len(requestQueue)
      <3>1. last \in DOMAIN requestQueue \cap (1..n)
        BY <2>2, <1>g
      <3>2. activeController' = requestQueue[last]
        BY <2>2 DEF Release, ControllerAfter
      <3> HIDE DEF last
      <3> QED
        BY <2>2, <3>1, <3>2, <1>g DEF Granted
    <2> QED
      BY <2>1, <2>2
  <1>3. /\ timer' \in [Requests -> BOOLEAN]
        /\ \A s \in Requests : timer'[s] => Holding(s)'
    BY <1>h, <1>g DEF Release, TypeOK, TimerInv, Holding
  <1>4. QueueInv'
    <2>1. \A i \in 1..Len(requestQueue') : requestQueue'[i] \notin Granted(n)
      BY <1>q, <1>g DEF Granted, QueueInv
    <2>2. \A i \in 1..Len(requestQueue') : phase'[requestQueue'[i]] = "queued"
      <3> TAKE i \in 1..Len(requestQueue')
      <3>1. /\ requestQueue'[i] \in Requests
            /\ phase[requestQueue'[i]] = "queued"
        BY <1>q, <1>g, ElementOfSeq DEF QueueInv
      <3> QED
        BY <3>1, <2>1, <1>p DEF Holding, HoldingPhases
    <2>3. \A i, j \in 1..Len(requestQueue') :
             requestQueue'[i] = requestQueue'[j] => i = j
      <3> TAKE i, j \in 1..Len(requestQueue')
      <3> HAVE requestQueue'[i] = requestQueue'[j]
      <3>1. /\ n + i \in 1..Len(requestQueue)
            /\ n + j \in 1..Len(requestQueue)
            /\ requestQueue[n + i] = requestQueue[n + j]
        BY <1>q
      <3>2. n + i = n + j
        BY <3>1 DEF QueueInv
      <3>3. i \in Int /\ j \in Int /\ n \in Int
        OBVIOUS
      <3> QED
        BY <3>2, <3>3
    <2> QED
      BY <2>2, <2>3 DEF QueueInv
  <1>5. SlotInv'
    <2>1. requestQueue' # <<>> => requestInFlight'
      BY <1>q, <1>1, <1>g
    <2>2. requestInFlight' => \E s \in Requests : Holding(s)'
      <3>1. requestInFlight' => requestQueue # <<>>
        BY <1>1, <1>g, EmptySeq
      <3> QED
        BY <3>1, <1>g, <1>h
    <2>3. activeController' # NoRequest => Holding(activeController)'
      BY <1>2, <1>h, <1>g DEF SlotInv, TypeOK, Holding
    <2>4. ASSUME NobodyAbandoned', NEW s \in Requests, Holding(s)'
          PROVE  requestInFlight' /\ activeController' = s
      <3>1. n = 1 /\ NobodyAbandoned
        BY <2>4, <1>p, <1>g DEF NobodyAbandoned, Holding, HoldingPhases
      <3>2. s \in Granted(1)
        BY <3>1, <2>4, <1>h DEF SlotInv
      <3>3. requestQueue # <<>>
        BY <3>1, <3>2, <1>g
      <3>4. Granted(1) = {requestQueue[1]}
        BY <3>3, <1>g DEF Granted
      <3> QED
        BY <3>1, <3>2, <3>3, <3>4, <1>1, <1>2, <1>g
    <2> QED
      BY <2>1, <2>2, <2>3, <2>4 DEF SlotInv
  <1> QED
    BY <1>g, <1>q, <1>p, <1>1, <1>2, <1>3, <1>4, <1>5

(* What a handler's step may do to the slot: leave it, or move on holding. *)
LeavesSlot(r) == Release(r, 1, "finished") \/ Release(r, 2, "abandoned")

KeepsSlot(r) ==
    /\ \E p \in HoldingPhases : phase' = [phase EXCEPT ![r] = p]
    /\ UNCHANGED <<requestInFlight, requestQueue, activeController>>
    /\ timer' \in [Requests -> BOOLEAN]
    /\ \A q \in Requests : timer'[q] => timer[q]

(* The contexts of a request change only in a step of its own handler.     *)
OwnContexts(r) ==
    /\ UNCHANGED <<connected, aborted>>
    /\ context' \in [Requests -> BOOLEAN]
    /\ phaseContexts' \in [Requests -> 0..2]
    /\ \A q \in Requests \ {r} : /\ context'[q] = context[q]
                                 /\ phaseContexts'[q] = phaseContexts[q]

(* The other requests stay where they are, or are started by a release.    *)
OthersWait(r) ==
    \A q \in Requests \ {r} :
        \/ phase'[q] = phase[q]
        \/ phase[q] = "queued" /\ phase'[q] = "preparing"

(* A handler that moves on while it holds the slot leaves the slot alone.  *)
LEMMA MoveKeepsSlot ==
    ASSUME SharedInv, NEW r \in Requests, NEW p \in HoldingPhases, Holding(r),
           phase' = [phase EXCEPT ![r] = p],
           UNCHANGED <<requestInFlight, requestQueue, activeController>>
    PROVE  /\ phase' \in [Requests -> Phases]
           /\ \A s \in Requests : Holding(s)' <=> Holding(s)
           /\ QueueInv' /\ SlotInv'
  <1> USE DEF SharedInv, TypeOK
  <1>1. /\ phase' \in [Requests -> Phases]
        /\ phase'[r] = p
        /\ \A s \in Requests \ {r} : phase'[s] = phase[s]
    BY DEF Phases
  <1>2. \A s \in Requests : Holding(s)' <=> Holding(s)
    BY <1>1 DEF Holding
  <1>3. QueueInv'
    <2>1. \A i \in 1..Len(requestQueue) : requestQueue[i] \in Requests \ {r}
      BY ElementOfSeq DEF QueueInv, Holding, HoldingPhases
    <2> QED
      BY <2>1, <1>1 DEF QueueInv
  <1>4. NobodyAbandoned' <=> NobodyAbandoned
    BY <1>1 DEF NobodyAbandoned, Holding, HoldingPhases
  <1>5. SlotInv'
    BY <1>2, <1>4 DEF SlotInv, Holding
  <1> QED
    BY <1>1, <1>2, <1>3, <1>5

(* Whatever a handler of either route does with the slot it holds keeps    *)
(* what both routes have in common.                                        *)
LEMMA HandlerKeepsShared ==
    ASSUME SharedInv, NEW r \in Requests, Holding(r), OwnContexts(r),
           LeavesSlot(r) \/ KeepsSlot(r)
    PROVE  /\ SharedInv'
           /\ OthersWait(r)
           /\ LeavesSlot(r) => phase'[r] \in {"finished", "abandoned"}
  <1>1. ASSUME NEW n \in 1..2, NEW exit \in {"finished", "abandoned"},
               n = 2 => exit = "abandoned", Release(r, n, exit)
        PROVE  SharedInv' /\ OthersWait(r) /\ phase'[r] = exit
    <2>1. /\ requestQueue' \in Seq(Requests)
          /\ requestInFlight' \in BOOLEAN
          /\ activeController' \in Requests \cup {NoRequest}
          /\ phase' \in [Requests -> Phases]
          /\ timer' \in [Requests -> BOOLEAN]
          /\ QueueInv' /\ SlotInv'
          /\ \A s \in Requests : timer'[s] => Holding(s)'
          /\ phase'[r] = exit
          /\ \A s \in Requests \ {r} :
                \/ phase'[s] = phase[s]
                \/ /\ phase[s] = "queued"
                   /\ phase'[s] = "preparing"
      BY <1>1, ReleaseKeepsInv
    <2>2. TypeOK'
      BY <2>1 DEF OwnContexts, SharedInv, TypeOK
    <2> QED
      BY <2>1, <2>2 DEF SharedInv, TimerInv, OthersWait
  <1>2. CASE KeepsSlot(r)
    <2>1. PICK p \in HoldingPhases : phase' = [phase EXCEPT ![r] = p]
      BY <1>2 DEF KeepsSlot
    <2>2. /\ phase' \in [Requests -> Phases]
          /\ \A s \in Requests : Holding(s)' <=> Holding(s)
          /\ QueueInv' /\ SlotInv'
      BY <1>2, <2>1, MoveKeepsSlot DEF KeepsSlot
    <2>3. TypeOK'
      BY <1>2, <2>2 DEF KeepsSlot, OwnContexts, SharedInv, TypeOK
    <2>4. TimerInv'
      BY <1>2, <2>2 DEF KeepsSlot, SharedInv, TimerInv
    <2>5. OthersWait(r) /\ phase'[r] = p
      <3>1. phase \in [Requests -> Phases]
        BY DEF SharedInv, TypeOK
      <3> QED
        BY <2>1, <3>1 DEF OthersWait
    <2>6. LeavesSlot(r) => phase'[r] \in {"finished", "abandoned"}
      BY <1>1 DEF LeavesSlot
    <2> QED
      BY <2>2, <2>3, <2>4, <2>5, <2>6 DEF SharedInv
  <1>3. CASE LeavesSlot(r)
    BY <1>1, <1>3 DEF LeavesSlot
  <1> QED
    BY <1>2, <1>3

(* A step that touches neither the phases nor the slot keeps it as well.   *)
LEMMA EventKeepsShared ==
    ASSUME SharedInv,
           UNCHANGED <<requestInFlight, requestQueue, activeController, phase,
                       context, phaseContexts>>,
           connected' \in [Requests -> BOOLEAN],
           aborted' \in [Requests -> BOOLEAN],
           timer' \in [Requests -> BOOLEAN],
           \A s \in Requests : timer'[s] => timer[s]
    PROVE  SharedInv'
  BY DEF SharedInv, TypeOK, TimerInv, QueueInv, SlotInv, NobodyAbandoned,
         Holding

(* The phases a request comes from and goes to in a step of its client.    *)
ClientMoves ==
    /\ UNCHANGED <<context, phaseContexts>>
    /\ \A q \in Requests :
          \/ phase'[q] = phase[q]
          \/ /\ phase[q] = "new"
             /\ phase'[q] \in {"rejected", "preparing", "queued"}

(* Clients, timers and the abort route keep what both routes share.        *)
LEMMA ClientKeepsShared ==
    ASSUME SharedInv, AbortRoute \/ \E r \in Requests : ClientStep(r)
    PROVE  SharedInv' /\ ClientMoves
  <1>r. ASSUME NEW r \in Requests, RejectDuringSwap(r)
        PROVE  SharedInv' /\ ClientMoves
    <2>1. \A i \in 1..Len(requestQueue) : requestQueue[i] \in Requests \ {r}
      BY <1>r, ElementOfSeq DEF SharedInv, TypeOK, QueueInv, RejectDuringSwap
    <2>2. /\ phase' \in [Requests -> Phases]
          /\ phase'[r] = "rejected"
          /\ phase[r] = "new"
          /\ \A s \in Requests \ {r} : phase'[s] = phase[s]
      BY <1>r DEF RejectDuringSwap, SharedInv, TypeOK, Phases, TerminalPhases
    <2>3. \A s \in Requests : Holding(s)' <=> Holding(s)
      BY <2>2 DEF Holding, HoldingPhases
    <2>4. UNCHANGED <<requestInFlight, requestQueue, activeController,
                      connected, aborted, timer, context, phaseContexts>>
      BY <1>r DEF RejectDuringSwap
    <2>5. TypeOK'
      BY <2>2, <2>4 DEF SharedInv, TypeOK
    <2>6. TimerInv'
      BY <2>2, <2>3, <2>4 DEF SharedInv, TimerInv
    <2>7. QueueInv'
      BY <2>1, <2>2, <2>4 DEF SharedInv, QueueInv
    <2>8. NobodyAbandoned' => NobodyAbandoned
      BY <2>2 DEF NobodyAbandoned
    <2>9. SlotInv'
      BY <2>3, <2>4, <2>8 DEF SharedInv, SlotInv, TypeOK, Holding
    <2> QED
      BY <2>2, <2>4, <2>5, <2>6, <2>7, <2>9 DEF SharedInv, ClientMoves
  <1>t. ASSUME NEW r \in Requests, TakeFreeSlot(r)
        PROVE  SharedInv' /\ ClientMoves
    <2>1. requestQueue = <<>> /\ Len(requestQueue) = 0
      BY <1>t, EmptySeq DEF SharedInv, SlotInv, TakeFreeSlot
    <2>2. /\ phase' \in [Requests -> Phases]
          /\ phase'[r] = "preparing"
          /\ phase[r] = "new"
          /\ \A s \in Requests \ {r} : phase'[s] = phase[s]
      BY <1>t DEF TakeFreeSlot, SharedInv, TypeOK, Phases, HoldingPhases
    <2>3. \A s \in Requests : Holding(s)' <=> s = r \/ Holding(s)
      BY <2>2 DEF Holding, HoldingPhases
    <2>4. /\ UNCHANGED <<requestQueue, connected, aborted, context,
                         phaseContexts>>
          /\ ~requestInFlight /\ requestInFlight'
          /\ requestInFlight' = TRUE
          /\ activeController' = r
          /\ timer' = [timer EXCEPT ![r] = TRUE]
      BY <1>t DEF TakeFreeSlot
    <2>5. TypeOK'
      BY <2>2, <2>4 DEF SharedInv, TypeOK
    <2>6. TimerInv'
      BY <2>2, <2>3, <2>4 DEF SharedInv, TimerInv, TypeOK
    <2>7. QueueInv'
      BY <2>1, <2>4 DEF QueueInv
    <2>8. NobodyAbandoned' => NobodyAbandoned
      BY <2>2 DEF NobodyAbandoned
    <2>9. NobodyAbandoned => \A s \in Requests : ~Holding(s)
      BY <2>4 DEF SharedInv, SlotInv
    <2>10. SlotInv'
      BY <2>1, <2>3, <2>4, <2>8, <2>9 DEF SlotInv, Holding
    <2> QED
      BY <2>2, <2>4, <2>5, <2>6, <2>7, <2>10 DEF SharedInv, ClientMoves
  <1>j. ASSUME NEW r \in Requests, JoinQueue(r)
        PROVE  SharedInv' /\ ClientMoves
    <2>1. /\ phase' \in [Requests -> Phases]
          /\ phase'[r] = "queued"
          /\ phase[r] = "new"
          /\ \A s \in Requests \ {r} : phase'[s] = phase[s]
      BY <1>j DEF JoinQueue, SharedInv, TypeOK, Phases
    <2>2. \A s \in Requests : Holding(s)' <=> Holding(s)
      BY <2>1 DEF Holding, HoldingPhases
    <2>3. /\ UNCHANGED <<requestInFlight, activeController, connected,
                         aborted, timer, context, phaseContexts>>
          /\ requestInFlight
          /\ requestQueue' = Append(requestQueue, r)
          /\ requestQueue \in Seq(Requests)
          /\ Len(requestQueue) \in Nat
      BY <1>j, LenProperties DEF JoinQueue, SharedInv, TypeOK
    <2>4. /\ requestQueue' \in Seq(Requests)
          /\ Len(requestQueue') = Len(requestQueue) + 1
          /\ \A i \in 1..Len(requestQueue) : requestQueue'[i] = requestQueue[i]
          /\ requestQueue'[Len(requestQueue) + 1] = r
      BY <2>3, AppendProperties
    <2>5. \A i \in 1..Len(requestQueue) : /\ requestQueue[i] \in Requests \ {r}
                                         /\ phase[requestQueue[i]] = "queued"
      BY <2>1, <2>3, ElementOfSeq DEF SharedInv, QueueInv
    <2>6. QueueInv'
      <3>1. \A i \in 1..Len(requestQueue') : phase'[requestQueue'[i]] = "queued"
        BY <2>1, <2>3, <2>4, <2>5
      <3>2. \A i, j \in 1..Len(requestQueue') :
               requestQueue'[i] = requestQueue'[j] => i = j
        BY <2>3, <2>4, <2>5 DEF SharedInv, QueueInv
      <3> QED
        BY <3>1, <3>2 DEF QueueInv
    <2>7. TypeOK'
      BY <2>1, <2>3, <2>4 DEF SharedInv, TypeOK
    <2>8. TimerInv'
      BY <2>1, <2>2, <2>3 DEF SharedInv, TimerInv
    <2>9. NobodyAbandoned' => NobodyAbandoned
      BY <2>1 DEF NobodyAbandoned
    <2>10. SlotInv'
      BY <2>2, <2>3, <2>9 DEF SharedInv, SlotInv, TypeOK, Holding
    <2> QED
      BY <2>1, <2>3, <2>6, <2>7, <2>8, <2>10 DEF SharedInv, ClientMoves
  <1>a. ASSUME \/ \E r \in Requests : Disconnect(r) \/ Timeout(r)
               \/ AbortRoute
        PROVE  SharedInv' /\ ClientMoves
    <2>1. /\ UNCHANGED <<requestInFlight, requestQueue, activeController,
                         phase, context, phaseContexts>>
          /\ connected' \in [Requests -> BOOLEAN]
          /\ aborted' \in [Requests -> BOOLEAN]
          /\ timer' \in [Requests -> BOOLEAN]
          /\ \A s \in Requests : timer'[s] => timer[s]
      BY <1>a DEF Disconnect, Timeout, AbortRoute, SharedInv, TypeOK
    <2> QED
      BY <2>1, EventKeepsShared DEF ClientMoves
  <1> QED
    BY <1>r, <1>t, <1>j, <1>a DEF ClientStep

-----------------------------------------------------------------------------
(* Every step of a live handler is of one of the two kinds and keeps what  *)
(* its phase says of its contexts.                                         *)
LEMMA HandlerStepKinds ==
    ASSUME SharedInv, NEW r \in Requests, HandlerStep(r)
    PROVE  /\ Holding(r)
           /\ LeavesSlot(r) \/ KeepsSlot(r)
           /\ Resources(r) => OwnContexts(r) /\ Resources(r)'
  <1> DEFINE Goal == /\ Holding(r)
                     /\ LeavesSlot(r) \/ KeepsSlot(r)
                     /\ Resources(r) => OwnContexts(r) /\ Resources(r)'
  <1>t. /\ phase \in [Requests -> Phases]
        /\ timer \in [Requests -> BOOLEAN]
        /\ context \in [Requests -> BOOLEAN]
        /\ phaseContexts \in [Requests -> 0..2]
    BY DEF SharedInv, TypeOK
  <1>1. ASSUME NEW p \in HoldingPhases, phase' = [phase EXCEPT ![r] = p],
               UNCHANGED <<requestInFlight, requestQueue, activeController>>,
               timer' \in {timer, [timer EXCEPT ![r] = FALSE]}
        PROVE  KeepsSlot(r) /\ phase'[r] = p
    BY <1>t, <1>1 DEF KeepsSlot
  <1>2. ASSUME LeavesSlot(r)
        PROVE  phase'[r] \in {"finished", "abandoned"}
    BY <1>2 DEF LeavesSlot, Release
  <1>3. ASSUME ExitWithCleanup(r), Holding(r),
               UNCHANGED <<connected, aborted, context, phaseContexts>>
        PROVE  Goal
    <2>1. OwnContexts(r)
      BY <1>t, <1>3 DEF OwnContexts
    <2>2. CASE ~context[r] /\ Release(r, 1, "finished")
      <3>1. LeavesSlot(r) /\ ~context'[r]
        BY <1>3, <2>2 DEF LeavesSlot
      <3> QED
        BY <1>2, <1>3, <2>1, <3>1 DEF Resources
    <2>3. CASE /\ phase' = [phase EXCEPT ![r] = "cleaning"]
               /\ timer' = [timer EXCEPT ![r] = FALSE]
               /\ UNCHANGED <<requestInFlight, requestQueue, activeController>>
      <3>1. KeepsSlot(r) /\ phase'[r] = "cleaning"
        BY <1>1, <2>3 DEF HoldingPhases
      <3> QED
        BY <1>3, <2>1, <3>1 DEF Resources
    <2> QED
      BY <1>3, <2>2, <2>3 DEF ExitWithCleanup
  <1>4. ASSUME FallBackOrAbandon(r), phase[r] \in {"incremental", "catching"},
               context' \in [Requests -> BOOLEAN], ~context'[r],
               \A q \in Requests \ {r} : context'[q] = context[q],
               UNCHANGED <<connected, aborted, phaseContexts>>
        PROVE  Goal
    <2>1. OwnContexts(r) /\ Holding(r)
      BY <1>t, <1>4 DEF OwnContexts, Holding, HoldingPhases
    <2>2. CASE Release(r, 2, "abandoned")
      <3>1. LeavesSlot(r)
        BY <2>2 DEF LeavesSlot
      <3> QED
        BY <1>2, <1>4, <2>1, <3>1 DEF Resources
    <2>3. CASE /\ phase' = [phase EXCEPT ![r] = "acquiring"]
               /\ UNCHANGED <<requestInFlight, requestQueue, activeController,
                              timer>>
      <3>1. KeepsSlot(r) /\ phase'[r] = "acquiring"
        BY <1>1, <2>3 DEF HoldingPhases
      <3> QED
        BY <1>4, <2>1, <3>1 DEF Resources
    <2> QED
      BY <1>4, <2>2, <2>3 DEF FallBackOrAbandon
  <1>5. CASE \/ PrepareEnds(r) \/ IncrementalReturns(r)
             \/ AcquireThrows(r) \/ GenerationEnds(r)
    BY <1>3, <1>5 DEF PrepareEnds, IncrementalReturns, AcquireThrows,
                      GenerationEnds, Holding, HoldingPhases
  <1>6. CASE PrepareContinues(r) \/ SecondaryPhase(r)
    <2>1. PICK p \in {"acquiring", "incremental"} :
             /\ phase' = [phase EXCEPT ![r] = p]
             /\ p = "incremental" => phase[r] = "preparing"
      BY <1>6 DEF PrepareContinues, SecondaryPhase
    <2>2. /\ UNCHANGED <<requestInFlight, requestQueue, activeController,
                         connected, aborted, timer, context, phaseContexts>>
          /\ \/ phase[r] = "preparing"
             \/ phase[r] = "generating" /\ phaseContexts[r] = 1
      <3>1. CASE PrepareContinues(r)
        BY <3>1 DEF PrepareContinues
      <3>2. CASE SecondaryPhase(r)
        BY <3>2 DEF SecondaryPhase
      <3> QED
        BY <1>6, <3>1, <3>2
    <2>3. KeepsSlot(r) /\ phase'[r] = p
      BY <1>1, <2>1, <2>2 DEF HoldingPhases
    <2>4. Holding(r) /\ OwnContexts(r)
      BY <1>t, <2>2 DEF Holding, HoldingPhases, OwnContexts
    <2> QED
      BY <2>1, <2>2, <2>3, <2>4 DEF Resources
  <1>7. CASE IncrementalOpensContext(r)
    <2>1. /\ phase = [phase EXCEPT ![r] = "incremental"]
          /\ phase[r] = "incremental" /\ phase' = phase
          /\ context' = [context EXCEPT ![r] = TRUE]
          /\ UNCHANGED <<requestInFlight, requestQueue, activeController,
                         connected, aborted, timer, phaseContexts>>
      BY <1>t, <1>7 DEF IncrementalOpensContext
    <2>2. KeepsSlot(r) /\ phase'[r] = "incremental"
      BY <1>1, <2>1 DEF HoldingPhases
    <2>3. Holding(r) /\ OwnContexts(r)
      BY <1>t, <2>1 DEF Holding, HoldingPhases, OwnContexts
    <2> QED
      BY <2>1, <2>2, <2>3 DEF Resources
  <1>8. CASE OpenPhaseContext(r)
    <2>1. /\ phase' = [phase EXCEPT ![r] = "generating"]
          /\ phase[r] = "acquiring"
          /\ phaseContexts' = [phaseContexts EXCEPT ![r] = phaseContexts[r] + 1]
          /\ UNCHANGED <<requestInFlight, requestQueue, activeController,
                         connected, aborted, timer, context>>
      BY <1>8 DEF OpenPhaseContext
    <2>2. KeepsSlot(r) /\ phase'[r] = "generating" /\ Holding(r)
      BY <1>1, <2>1 DEF Holding, HoldingPhases
    <2>3. ASSUME Resources(r)
          PROVE  OwnContexts(r) /\ Resources(r)'
      <3>1. phaseContexts[r] + 1 \in 0..2 /\ ~context[r]
        BY <2>1, <2>3 DEF Resources
      <3> QED
        BY <1>t, <2>1, <2>2, <3>1 DEF OwnContexts, Resources
    <2> QED
      BY <2>2, <2>3
  <1>9. CASE IncrementalThrows(r)
    <2>1. /\ phase[r] = "incremental"
          /\ UNCHANGED <<connected, aborted, context, phaseContexts>>
      BY <1>9 DEF IncrementalThrows
    <2>2. CASE /\ phase' = [phase EXCEPT ![r] = "catching"]
               /\ UNCHANGED <<requestInFlight, requestQueue, activeController,
                              timer>>
      <3>1. KeepsSlot(r) /\ phase'[r] = "catching"
        BY <1>1, <2>2 DEF HoldingPhases
      <3>2. Holding(r) /\ OwnContexts(r)
        BY <1>t, <2>1 DEF Holding, HoldingPhases, OwnContexts
      <3> QED
        BY <2>1, <3>1, <3>2 DEF Resources
    <2>3. CASE ~context[r] /\ FallBackOrAbandon(r)
      BY <1>t, <1>4, <2>1, <2>3
    <2> QED
      BY <1>9, <2>2, <2>3 DEF IncrementalThrows
  <1>10. CASE CatchDisposes(r)
    <2>1. /\ phase[r] = "catching" /\ Holding(r)
          /\ UNCHANGED <<connected, aborted, phaseContexts>>
      BY <1>10 DEF CatchDisposes, Holding, HoldingPhases
    <2>2. CASE context' = [context EXCEPT ![r] = FALSE] /\ FallBackOrAbandon(r)
      <3>1. /\ context' \in [Requests -> BOOLEAN] /\ ~context'[r]
            /\ \A q \in Requests \ {r} : context'[q] = context[q]
        BY <1>t, <2>2
      <3> QED
        BY <1>4, <2>1, <2>2, <3>1
    <2>3. CASE ExitWithCleanup(r) /\ UNCHANGED context
      BY <1>3, <2>1, <2>3
    <2> QED
      BY <1>10, <2>2, <2>3 DEF CatchDisposes
  <1>11. CASE CleanupDisposes(r)
    <2>1. /\ Release(r, 1, "finished") /\ Holding(r)
          /\ context' = [context EXCEPT ![r] = FALSE]
          /\ UNCHANGED <<connected, aborted, phaseContexts>>
      BY <1>11 DEF CleanupDisposes, Holding, HoldingPhases
    <2>2. LeavesSlot(r) /\ OwnContexts(r) /\ ~context'[r]
      BY <1>t, <2>1 DEF LeavesSlot, OwnContexts
    <2> QED
      BY <1>2, <2>1, <2>2 DEF Resources
  <1> QED
    BY <1>5, <1>6, <1>7, <1>8, <1>9, <1>10, <1>11 DEF HandlerStep

(* A request whose handler did nothing keeps what its phase promises.      *)
LEMMA ResourcesOfOthers ==
    ASSUME NEW q \in Requests, Resources(q),
           context'[q] = context[q], phaseContexts'[q] = phaseContexts[q],
           \/ phase'[q] = phase[q]
           \/ /\ phase[q] \in {"new", "queued"}
              /\ phase'[q] \in {"rejected", "preparing", "queued"}
    PROVE  Resources(q)'
  BY DEF Resources

(* Every step of every actor keeps the invariant.                          *)
LEMMA IInvInductive == IInv /\ [Next]_vars => IInv'
  <1> SUFFICES ASSUME IInv, [Next]_vars
               PROVE  IInv'
    OBVIOUS
  <1>1. ASSUME NEW r \in Requests, HandlerStep(r)
        PROVE  IInv'
    <2>1. /\ Holding(r) /\ OwnContexts(r) /\ Resources(r)'
          /\ LeavesSlot(r) \/ KeepsSlot(r)
      BY <1>1, HandlerStepKinds DEF IInv
    <2>2. SharedInv' /\ OthersWait(r)
      BY <2>1, HandlerKeepsShared DEF IInv
    <2>3. \A q \in Requests \ {r} : Resources(q)'
      BY <2>1, <2>2, ResourcesOfOthers DEF IInv, OwnContexts, OthersWait
    <2> QED
      BY <2>1, <2>2, <2>3 DEF IInv
  <1>2. ASSUME AbortRoute \/ \E r \in Requests : ClientStep(r)
        PROVE  IInv'
    <2>1. SharedInv' /\ ClientMoves
      BY <1>2, ClientKeepsShared DEF IInv
    <2>2. \A q \in Requests : Resources(q)'
      BY <2>1, ResourcesOfOthers DEF IInv, ClientMoves
    <2> QED
      BY <2>1, <2>2 DEF IInv
  <1>3. CASE UNCHANGED vars
    BY <1>3 DEF vars, IInv, SharedInv, TypeOK, TimerInv, Resources, QueueInv,
                SlotInv, NobodyAbandoned, Holding
  <1> QED
    BY <1>1, <1>2, <1>3 DEF Next, AllOver

LEMMA IInvInit == Init => IInv
  <1> SUFFICES ASSUME Init
               PROVE  IInv
    OBVIOUS
  <1>1. Len(requestQueue) = 0 /\ requestQueue \in Seq(Requests)
    BY EmptySeq DEF Init
  <1>2. TypeOK
    <2>1. phase \in [Requests -> Phases]
      BY DEF Init, Phases
    <2>2. /\ connected \in [Requests -> BOOLEAN]
          /\ aborted \in [Requests -> BOOLEAN]
          /\ timer \in [Requests -> BOOLEAN]
          /\ context \in [Requests -> BOOLEAN]
          /\ phaseContexts \in [Requests -> 0..2]
      BY DEF Init
    <2>3. requestInFlight \in BOOLEAN /\ activeController \in {NoRequest}
      BY DEF Init
    <2> QED
      BY <1>1, <2>1, <2>2, <2>3 DEF TypeOK
  <1>3. TimerInv /\ QueueInv /\ \A r \in Requests : Resources(r)
    BY <1>1 DEF Init, TimerInv, Resources, QueueInv
  <1>4. SlotInv
    BY DEF Init, SlotInv, Holding, HoldingPhases
  <1> QED
    BY <1>2, <1>3, <1>4 DEF IInv, SharedInv

(* The invariant holds in every reachable state, for any set of requests   *)
(* and any subset of them that takes the incremental branch.               *)
THEOREM InductiveInvariant == Spec => []IInv
  <1> QED
    BY IInvInit, IInvInductive, PTL DEF Spec

(* Type correctness, the bound of two phase contexts per request included. *)
THEOREM TypeCorrect == Spec => []TypeOK
  <1>1. IInv => TypeOK
    BY DEF IInv, SharedInv
  <1> QED
    BY <1>1, InductiveInvariant, PTL

(* The slot never leaks, the exit that releases it twice included: nobody  *)
(* waits for a slot that no handler will ever pass on.                     *)
THEOREM SlotNeverLeaksAlways == Spec => []SlotNeverLeaks
  <1>1. IInv => SlotNeverLeaks
    BY DEF IInv, SharedInv, SlotInv, SlotNeverLeaks
  <1> QED
    BY <1>1, InductiveInvariant, PTL

(* Mutual exclusion of the chat handlers, up to the first abandoned        *)
(* incremental request.                                                    *)
THEOREM MutualExclusion == Spec => []OneAtATimeUnlessAbandoned
  <1>1. IInv => OneAtATimeUnlessAbandoned
    BY DEF IInv, SharedInv, SlotInv, OneAtATimeUnlessAbandoned, OneAtATime
  <1> QED
    BY <1>1, InductiveInvariant, PTL

(* Only a request that creates is in the incremental branch, or has left   *)
(* through its catch block.                                                *)
FromCreates(r) ==
    phase[r] \in {"incremental", "catching", "abandoned"} => r \in Creates

BranchInv == \A r \in Requests : FromCreates(r)

LEMMA HandlerKeepsBranch ==
    ASSUME SharedInv, NEW r \in Requests, FromCreates(r), HandlerStep(r)
    PROVE  FromCreates(r)'
  <1>1. phase \in [Requests -> Phases]
    BY DEF SharedInv, TypeOK
  <1>2. \/ ExitWithCleanup(r) \/ Release(r, 1, "finished")
        \/ FallBackOrAbandon(r) /\ r \in Creates
        \/ UNCHANGED phase
        \/ \E p \in HoldingPhases :
              /\ phase' = [phase EXCEPT ![r] = p]
              /\ p \in {"incremental", "catching"} => r \in Creates
    BY DEF HandlerStep, PrepareEnds, PrepareContinues,
           IncrementalOpensContext, IncrementalReturns, IncrementalThrows,
           CatchDisposes, OpenPhaseContext, AcquireThrows, SecondaryPhase,
           GenerationEnds, CleanupDisposes, HoldingPhases, FromCreates
  <1>3. CASE ExitWithCleanup(r) \/ Release(r, 1, "finished")
    BY <1>1, <1>3 DEF ExitWithCleanup, Release, FromCreates
  <1>4. CASE r \in Creates \/ UNCHANGED phase
    BY <1>4 DEF FromCreates
  <1>5. ASSUME NEW p \in HoldingPhases, phase' = [phase EXCEPT ![r] = p],
               p \in {"incremental", "catching"} => r \in Creates
        PROVE  FromCreates(r)'
    BY <1>1, <1>5 DEF FromCreates, HoldingPhases
  <1> QED
    BY <1>2, <1>3, <1>4, <1>5

LEMMA BranchInvInductive ==
    ASSUME IInv, BranchInv, [Next]_vars
    PROVE  BranchInv'
  <1>1. ASSUME NEW r \in Requests, HandlerStep(r)
        PROVE  BranchInv'
    <2>1. OthersWait(r)
      BY <1>1, HandlerStepKinds, HandlerKeepsShared DEF IInv
    <2>2. FromCreates(r)'
      BY <1>1, HandlerKeepsBranch DEF IInv, BranchInv
    <2> QED
      BY <2>1, <2>2 DEF OthersWait, BranchInv, FromCreates
  <1>2. ASSUME AbortRoute \/ \E r \in Requests : ClientStep(r)
        PROVE  BranchInv'
    BY <1>2, ClientKeepsShared DEF IInv, ClientMoves, BranchInv, FromCreates
  <1>3. CASE UNCHANGED vars
    BY <1>3 DEF vars, BranchInv, FromCreates
  <1> QED
    BY <1>1, <1>2, <1>3 DEF Next, AllOver

(* If no request can enter the incremental branch, the exclusion is        *)
(* unconditional: that branch's catch block is the only culprit.           *)
THEOREM MutualExclusionWithoutCreates ==
    Creates = {} => (Spec => []OneAtATime)
  <1> SUFFICES ASSUME Creates = {}
               PROVE  Spec => []OneAtATime
    OBVIOUS
  <1>1. Init => BranchInv
    BY DEF Init, BranchInv, FromCreates
  <1>2. IInv /\ BranchInv /\ [Next]_vars => BranchInv'
    BY BranchInvInductive
  <1>3. IInv /\ BranchInv => OneAtATime
    BY DEF IInv, SharedInv, SlotInv, OneAtATime, NobodyAbandoned, BranchInv,
           FromCreates
  <1> QED
    BY <1>1, <1>2, <1>3, InductiveInvariant, PTL DEF Spec

(* /v1/chat/abort reaches the handler that runs.                           *)
THEOREM RunnerIsAbortableAlways == Spec => []RunnerIsAbortable
  <1>1. IInv => RunnerIsAbortable
    BY DEF IInv, SharedInv, SlotInv, RunnerIsAbortable
  <1> QED
    BY <1>1, InductiveInvariant, PTL

(* The registered controller is never one of a handler that has ended.     *)
THEOREM RegisteredControllerIsLiveAlways == Spec => []RegisteredControllerIsLive
  <1>1. IInv => RegisteredControllerIsLive
    BY DEF IInv, SharedInv, SlotInv, RegisteredControllerIsLive
  <1> QED
    BY <1>1, InductiveInvariant, PTL

(* Whatever way a request ends, its timer is cleared, its own context is   *)
(* disposed and it waits in no queue.                                      *)
THEOREM ExitsAreCleanAlways == Spec => []ExitsAreClean
  <1>1. IInv => ExitsAreClean
    <2> SUFFICES ASSUME IInv, NEW r \in Requests, phase[r] \in TerminalPhases
                 PROVE  /\ ~timer[r] /\ ~context[r]
                        /\ \A i \in DOMAIN requestQueue : requestQueue[i] # r
      BY DEF ExitsAreClean
    <2>1. ~timer[r] /\ ~context[r]
      BY DEF IInv, SharedInv, TimerInv, Resources, Holding, HoldingPhases,
             TerminalPhases
    <2>2. DOMAIN requestQueue = 1..Len(requestQueue)
      BY LenProperties DEF IInv, SharedInv, TypeOK
    <2> QED
      BY <2>1, <2>2 DEF IInv, SharedInv, QueueInv, TerminalPhases
  <1> QED
    BY <1>1, InductiveInvariant, PTL

-----------------------------------------------------------------------------
(* The slot, its queue and who holds it are left alone.                    *)
SlotUntouched ==
    /\ UNCHANGED <<requestInFlight, requestQueue, activeController>>
    /\ \A s \in Requests : Holding(s)' <=> Holding(s)
    /\ \A s \in Requests : /\ (phase'[s] = "new") <=> (phase[s] = "new")
                           /\ (phase'[s] = "abandoned") <=> (phase[s] = "abandoned")

(* Of all the steps of both routes only four kinds touch the slot.         *)
SlotKinds ==
    \/ \E r \in Requests :
          \/ RejectDuringSwap(r) \/ TakeFreeSlot(r) \/ JoinQueue(r)
          \/ Holding(r) /\ LeavesSlot(r)
    \/ SlotUntouched

LEMMA MovesTouchNothing ==
    ASSUME SharedInv, NEW r \in Requests, Holding(r), KeepsSlot(r)
    PROVE  SlotUntouched
  <1>1. PICK p \in HoldingPhases : phase' = [phase EXCEPT ![r] = p]
    BY DEF KeepsSlot
  <1>2. \A s \in Requests : Holding(s)' <=> Holding(s)
    BY <1>1, MoveKeepsSlot DEF KeepsSlot
  <1>3. \A s \in Requests : (phase'[s] = "new") <=> (phase[s] = "new")
    BY <1>1 DEF SharedInv, TypeOK, Holding, HoldingPhases
  <1>4. \A s \in Requests : (phase'[s] = "abandoned") <=> (phase[s] = "abandoned")
    BY <1>1 DEF SharedInv, TypeOK, Holding, HoldingPhases
  <1> QED
    BY <1>2, <1>3, <1>4 DEF SlotUntouched, KeepsSlot

LEMMA ClientStepKinds ==
    ASSUME AbortRoute \/ \E r \in Requests : ClientStep(r)
    PROVE  SlotKinds
  BY DEF AbortRoute, ClientStep, Disconnect, Timeout, SlotKinds,
         SlotUntouched, Holding

LEMMA StepKinds ==
    ASSUME SharedInv, [Next]_vars
    PROVE  SlotKinds
  <1>1. ASSUME NEW r \in Requests, HandlerStep(r)
        PROVE  SlotKinds
    BY <1>1, HandlerStepKinds, MovesTouchNothing DEF SlotKinds
  <1>2. CASE UNCHANGED vars
    BY <1>2 DEF vars, SlotKinds, SlotUntouched, Holding
  <1> QED
    BY <1>1, <1>2, ClientStepKinds DEF Next, AllOver

(* How long the queue is once n releases have started its first waiters.   *)
LEMMA QueueShrinks ==
    ASSUME TypeOK, NEW n \in 1..2
    PROVE  Len(SubSeq(requestQueue, n + 1, Len(requestQueue)))
              <= Len(requestQueue)
  <1>1. requestQueue \in Seq(Requests) /\ Len(requestQueue) \in Nat
    BY LenProperties DEF TypeOK
  <1>2. \A i \in (n + 1)..Len(requestQueue) : requestQueue[i] \in Requests
    BY <1>1, ElementOfSeq
  <1>3. n + 1 \in Int /\ Len(requestQueue) \in Int
    BY <1>1
  <1>4. Len(SubSeq(requestQueue, n + 1, Len(requestQueue)))
           = IF n + 1 <= Len(requestQueue)
             THEN Len(requestQueue) - (n + 1) + 1 ELSE 0
    BY <1>2, <1>3, SubSeqProperties
  <1> QED
    BY <1>1, <1>4

(* A waiter started by a release was ahead of every one that goes on       *)
(* waiting.                                                                *)
LEMMA ReleaseIsFirstComeFirstServed ==
    ASSUME SharedInv, NEW r \in Requests, NEW n \in 1..2,
           NEW exit \in {"finished", "abandoned"},
           n = 2 => exit = "abandoned",
           Holding(r), Release(r, n, exit),
           NEW s \in Requests, Holding(s)', ~Holding(s),
           NEW i \in DOMAIN requestQueue', NEW j \in DOMAIN requestQueue,
           requestQueue[j] = requestQueue'[i]
    PROVE  \E k \in 1..(j - 1) : requestQueue[k] = s
  <1>1. /\ DOMAIN requestQueue = 1..Len(requestQueue)
        /\ Len(requestQueue) \in Nat
    BY GrantedWereQueued DEF SharedInv
  <1>2. /\ requestQueue' \in Seq(Requests)
        /\ \A m \in 1..Len(requestQueue') :
              /\ n + m \in 1..Len(requestQueue)
              /\ requestQueue'[m] = requestQueue[n + m]
    BY QueueAfterRelease DEF SharedInv, Release
  <1>3. i \in 1..Len(requestQueue') /\ Len(requestQueue') \in Nat
    BY <1>2, LenProperties
  <1>4. j = n + i
    BY <1>1, <1>2, <1>3 DEF SharedInv, QueueInv
  <1>5. s \in Granted(n)
    BY DEF Release, Holding, HoldingPhases, SharedInv, TypeOK
  <1>6. PICK k \in DOMAIN requestQueue \cap (1..n) : requestQueue[k] = s
    BY <1>5 DEF Granted
  <1>7. k \in 1..(j - 1)
    BY <1>1, <1>3, <1>4, <1>6
  <1> QED
    BY <1>6, <1>7

(* Nobody overtakes in any of these kinds of steps.                        *)
LEMMA KindsAreFirstComeFirstServed ==
    ASSUME SharedInv, SlotKinds
    PROVE  NobodyOvertakes /\ QueueGrowsAtItsEnd
  <1>0. Len(requestQueue) \in Nat
    BY LenProperties DEF SharedInv, TypeOK
  <1>1. ASSUME NEW r \in Requests, NEW n \in 1..2,
               NEW exit \in {"finished", "abandoned"},
               n = 2 => exit = "abandoned",
               Holding(r), Release(r, n, exit)
        PROVE  NobodyOvertakes /\ QueueGrowsAtItsEnd
    <2>1. NobodyOvertakes
      BY <1>1, ReleaseIsFirstComeFirstServed DEF NobodyOvertakes
    <2>2. Len(requestQueue') <= Len(requestQueue)
      BY <1>1, QueueShrinks DEF SharedInv, Release
    <2>3. Len(requestQueue') \in Nat
      BY <1>1, QueueAfterRelease, LenProperties DEF SharedInv, Release
    <2> QED
      BY <1>0, <2>1, <2>2, <2>3 DEF QueueGrowsAtItsEnd
  <1>2. ASSUME NEW r \in Requests, TakeFreeSlot(r)
        PROVE  NobodyOvertakes /\ QueueGrowsAtItsEnd
    <2>1. requestQueue = <<>> /\ requestQueue' = requestQueue
      BY <1>2 DEF TakeFreeSlot, SharedInv, SlotInv
    <2>2. DOMAIN requestQueue = {}
      BY <2>1
    <2> QED
      BY <1>0, <2>1, <2>2 DEF NobodyOvertakes, QueueGrowsAtItsEnd
  <1>3. ASSUME NEW r \in Requests, JoinQueue(r)
        PROVE  NobodyOvertakes /\ QueueGrowsAtItsEnd
    <2>1. \A s \in Requests : Holding(s)' => Holding(s)
      BY <1>3 DEF JoinQueue, Holding, HoldingPhases, SharedInv, TypeOK
    <2>2. SubSeq(requestQueue', 1, Len(requestQueue)) = requestQueue
      BY <1>3 DEF JoinQueue, SharedInv, TypeOK
    <2> QED
      BY <2>1, <2>2 DEF NobodyOvertakes, QueueGrowsAtItsEnd
  <1>4. ASSUME NEW r \in Requests, RejectDuringSwap(r)
        PROVE  NobodyOvertakes /\ QueueGrowsAtItsEnd
    <2>1. \A s \in Requests : Holding(s)' => Holding(s)
      BY <1>4 DEF RejectDuringSwap, Holding, HoldingPhases, SharedInv, TypeOK
    <2>2. requestQueue' = requestQueue
      BY <1>4 DEF RejectDuringSwap
    <2> QED
      BY <1>0, <2>1, <2>2 DEF NobodyOvertakes, QueueGrowsAtItsEnd
  <1>5. CASE SlotUntouched
    BY <1>0, <1>5 DEF SlotUntouched, NobodyOvertakes, QueueGrowsAtItsEnd
  <1> QED
    BY <1>1, <1>2, <1>3, <1>4, <1>5 DEF SlotKinds, LeavesSlot

(* The waiters are started in the order in which they asked for the slot,  *)
(* and nobody overtakes them, even where two are started at once.          *)
THEOREM FirstComeFirstServedAlways == Spec => FirstComeFirstServed
  <1>1. IInv /\ [Next]_vars => [NobodyOvertakes /\ QueueGrowsAtItsEnd]_vars
    BY StepKinds, KindsAreFirstComeFirstServed DEF IInv
  <1> QED
    BY <1>1, InductiveInvariant, PTL DEF Spec, FirstComeFirstServed

-----------------------------------------------------------------------------
(* While nobody was abandoned the registered controller is the flag.       *)
LEMMA ControllerIsFlag ==
    ASSUME SharedInv, NobodyAbandoned
    PROVE  /\ requestInFlight <=> activeController # NoRequest
           /\ \A r \in Requests : Holding(r) => activeController = r
  <1>1. \A r \in Requests : Holding(r) => requestInFlight /\ activeController = r
    BY DEF SharedInv, SlotInv
  <1>2. requestInFlight => \E r \in Requests : Holding(r)
    BY DEF SharedInv, SlotInv
  <1>3. activeController # NoRequest => Holding(activeController)
    BY DEF SharedInv, SlotInv
  <1>4. activeController \in Requests \cup {NoRequest}
    BY DEF SharedInv, TypeOK
  <1> QED
    BY <1>1, <1>2, <1>3, <1>4, RequestsAssumption

(* Who has left through the catch block of the incremental branch stays    *)
(* so, and only its double release brings anybody there.                   *)
LEMMA AbandonedIsFinal ==
    ASSUME SharedInv, SlotKinds
    PROVE  /\ ~NobodyAbandoned => ~NobodyAbandoned'
           /\ NobodyAbandoned /\ ~NobodyAbandoned' =>
                 \E r \in Requests : Holding(r) /\ Release(r, 2, "abandoned")
  <1>1. ASSUME NEW r \in Requests, NEW n \in 1..2,
               NEW exit \in {"finished", "abandoned"},
               Holding(r), Release(r, n, exit)
        PROVE  /\ ~NobodyAbandoned => ~NobodyAbandoned'
               /\ exit = "finished" /\ NobodyAbandoned => NobodyAbandoned'
    <2>1. Granted(n) \subseteq {s \in Requests : phase[s] = "queued"}
      BY GrantedWereQueued DEF SharedInv
    <2>2. \A s \in Requests : s # r =>
             ((phase'[s] = "abandoned") <=> (phase[s] = "abandoned"))
      BY <1>1, <2>1 DEF Release
    <2>3. phase[r] # "abandoned" /\ phase'[r] = exit
      BY <1>1 DEF Release, Holding, HoldingPhases
    <2> QED
      BY <2>2, <2>3 DEF NobodyAbandoned
  <1>2. ASSUME NEW r \in Requests,
               RejectDuringSwap(r) \/ TakeFreeSlot(r) \/ JoinQueue(r)
        PROVE  NobodyAbandoned' <=> NobodyAbandoned
    BY <1>2 DEF RejectDuringSwap, TakeFreeSlot, JoinQueue, NobodyAbandoned,
                SharedInv, TypeOK
  <1>3. CASE SlotUntouched
    BY <1>3 DEF SlotUntouched, NobodyAbandoned
  <1> QED
    BY <1>1, <1>2, <1>3 DEF SlotKinds, LeavesSlot

(* What the slot's variables stand for, before anybody was abandoned and   *)
(* after.                                                                  *)
Asked == {r \in Requests : NobodyAbandoned /\ phase[r] # "new"}
Holder == IF NobodyAbandoned THEN activeController ELSE NoRequest
Waiting == IF NobodyAbandoned THEN requestQueue ELSE <<>>
Broken == ~NobodyAbandoned

(* Asking, or being turned away, adds a request to those that have asked.  *)
LEMMA AskedGrows ==
    ASSUME SharedInv, NobodyAbandoned, NobodyAbandoned', NEW r \in Requests,
           phase[r] = "new", NEW p \in {"rejected", "preparing", "queued"},
           phase' = [phase EXCEPT ![r] = p]
    PROVE  r \notin Asked /\ Asked' = Asked \cup {r}
  BY DEF SharedInv, TypeOK, Asked

(* A single release is what the slot calls leaving.                        *)
LEMMA ReleaseIsLeave ==
    ASSUME SharedInv, NobodyAbandoned, NobodyAbandoned', NEW r \in Requests,
           Holding(r), Release(r, 1, "finished")
    PROVE  Slot!Leave
  <1>1. activeController = r /\ r # NoRequest
    BY ControllerIsFlag, RequestsAssumption
  <1>2. /\ requestQueue \in Seq(Requests)
        /\ Len(requestQueue) \in Nat
        /\ requestQueue # <<>> => Len(requestQueue) > 0
    BY GrantedWereQueued DEF SharedInv, TypeOK
  <1>3. requestQueue' = SubSeq(requestQueue, 2, Len(requestQueue))
    BY DEF Release
  <1>4. Asked' = Asked
    <2>1. Granted(1) \subseteq {s \in Requests : phase[s] = "queued"}
      BY GrantedWereQueued DEF SharedInv
    <2>2. \A s \in Requests : (phase'[s] = "new") <=> (phase[s] = "new")
      BY <2>1 DEF Release, Holding, HoldingPhases
    <2> QED
      BY <2>2 DEF Asked
  <1>5. /\ Holder = activeController /\ Holder' = activeController'
        /\ Waiting = requestQueue /\ Waiting' = requestQueue'
        /\ Broken' = Broken
    BY DEF Holder, Waiting, Broken
  <1>6. CASE requestQueue = <<>>
    <2>1. activeController' = NoRequest
      BY <1>1, <1>6 DEF Release, ControllerAfter
    <2>2. Len(requestQueue) = 0
      BY <1>6, EmptySeq
    <2>3. requestQueue' = <<>>
      BY <1>3, <1>6, <2>2
    <2>4. Holder # NoRequest /\ Waiting = <<>> /\ Holder' = NoRequest
          /\ Waiting' = Waiting
      BY <1>1, <1>5, <1>6, <2>1, <2>3
    <2> QED
      BY <1>4, <1>5, <2>4 DEF Slot!Leave, Asked, Holder, Waiting, Broken
  <1>7. CASE requestQueue # <<>>
    <2>1. activeController' = requestQueue[1]
      BY <1>2, <1>7 DEF Release, ControllerAfter
    <2>2. activeController' = Head(requestQueue)
      BY <1>2, <1>7, <2>1
    <2>3. requestQueue' = Tail(requestQueue)
      BY <1>2, <1>3, <1>7
    <2>4. Holder # NoRequest /\ Waiting # <<>> /\ Holder' = Head(Waiting)
          /\ Waiting' = Tail(Waiting)
      BY <1>1, <1>5, <1>7, <2>2, <2>3
    <2> QED
      BY <1>4, <1>5, <2>4 DEF Slot!Leave, Asked, Holder, Waiting, Broken
  <1> QED
    BY <1>6, <1>7

(* Only the requests that create leave through that catch block.           *)
OnlyCreatesAbandon == \A r \in Requests : phase[r] = "abandoned" => r \in Creates

(* A double release is what the slot calls breaking, and only a request    *)
(* that creates does it.                                                   *)
LEMMA DoubleReleaseIsBreak ==
    ASSUME SharedInv, OnlyCreatesAbandon', NobodyAbandoned, ~NobodyAbandoned',
           NEW r \in Requests, Holding(r), Release(r, 2, "abandoned")
    PROVE  Slot!Break
  <1>1. activeController = r
    BY ControllerIsFlag
  <1>2. r \in Creates
    <2>1. phase'[r] = "abandoned"
      BY DEF Release
    <2> QED
      BY <2>1 DEF OnlyCreatesAbandon
  <1>3. Holder \in Creates
    BY <1>1, <1>2 DEF Holder
  <1>4. Holder' = NoRequest /\ Waiting' = <<>> /\ Asked' = {} /\ Broken'
    BY DEF Holder, Waiting, Asked, Broken
  <1> QED
    BY <1>3, <1>4 DEF Slot!Break, Asked, Holder, Waiting, Broken

(* Every step of the handlers, of their clients and of the abort route is  *)
(* one that the slot allows, or leaves the slot as it is.                  *)
LEMMA StepRefinesSlot ==
    ASSUME SharedInv, OnlyCreatesAbandon', SlotKinds
    PROVE  [Slot!Next]_(Slot!slotVars)
  <1>1. CASE ~NobodyAbandoned
    <2>1. ~NobodyAbandoned'
      BY <1>1, AbandonedIsFinal
    <2>2. /\ Holder' = Holder /\ Waiting' = Waiting /\ Asked' = Asked
          /\ Broken' = Broken
      BY <1>1, <2>1 DEF Holder, Waiting, Asked, Broken
    <2> QED
      BY <2>2 DEF Slot!slotVars, Holder, Waiting, Asked, Broken
  <1>2. CASE NobodyAbandoned /\ ~NobodyAbandoned'
    BY <1>2, AbandonedIsFinal, DoubleReleaseIsBreak DEF Slot!Next
  <1>3. CASE NobodyAbandoned /\ NobodyAbandoned'
    <2>0. /\ Holder = activeController /\ Holder' = activeController'
          /\ Waiting = requestQueue /\ Waiting' = requestQueue'
          /\ ~Broken /\ Broken' = Broken
      BY <1>3 DEF Holder, Waiting, Broken
    <2>1. ASSUME NEW r \in Requests, RejectDuringSwap(r)
          PROVE  Slot!TurnAway(r)
      <3>1. r \notin Asked /\ Asked' = Asked \cup {r}
        BY <1>3, <2>1, AskedGrows DEF RejectDuringSwap
      <3>2. Holder' = Holder /\ Waiting' = Waiting
        BY <2>0, <2>1 DEF RejectDuringSwap
      <3> QED
        BY <2>0, <3>1, <3>2 DEF Slot!TurnAway, Asked, Holder, Waiting, Broken
    <2>2. ASSUME NEW r \in Requests, TakeFreeSlot(r)
          PROVE  Slot!Ask(r)
      <3>1. r \notin Asked /\ Asked' = Asked \cup {r}
        BY <1>3, <2>2, AskedGrows DEF TakeFreeSlot
      <3>2. Holder = NoRequest /\ Holder' = r /\ Waiting' = Waiting
        BY <1>3, <2>0, <2>2, ControllerIsFlag DEF TakeFreeSlot
      <3> QED
        BY <2>0, <3>1, <3>2 DEF Slot!Ask, Asked, Holder, Waiting, Broken
    <2>3. ASSUME NEW r \in Requests, JoinQueue(r)
          PROVE  Slot!Ask(r)
      <3>1. r \notin Asked /\ Asked' = Asked \cup {r}
        BY <1>3, <2>3, AskedGrows DEF JoinQueue
      <3>2. Holder # NoRequest /\ Holder' = Holder
            /\ Waiting' = Append(Waiting, r)
        BY <1>3, <2>0, <2>3, ControllerIsFlag DEF JoinQueue
      <3> QED
        BY <2>0, <3>1, <3>2 DEF Slot!Ask, Asked, Holder, Waiting, Broken
    <2>4. ASSUME NEW r \in Requests, Release(r, 2, "abandoned")
          PROVE  FALSE
      <3>1. phase'[r] = "abandoned"
        BY <2>4 DEF Release
      <3> QED
        BY <1>3, <3>1 DEF NobodyAbandoned
    <2>5. CASE SlotUntouched
      <3>1. Asked' = Asked
        BY <1>3, <2>5 DEF SlotUntouched, Asked
      <3>2. Holder' = Holder /\ Waiting' = Waiting
        BY <2>0, <2>5 DEF SlotUntouched
      <3> QED
        BY <2>0, <3>1, <3>2 DEF Slot!slotVars, Asked, Holder, Waiting, Broken
    <2> QED
      BY <1>3, <2>1, <2>2, <2>3, <2>4, <2>5, ReleaseIsLeave
         DEF Slot!Next, SlotKinds, LeavesSlot
  <1> QED
    BY <1>1, <1>2, <1>3

(* The handler, with its aborts, timeouts, early returns and errors,       *)
(* implements the exclusive first-in first-out slot, the registered        *)
(* controller standing for its holder, until a request that creates leaves *)
(* through the exit that releases twice.                                   *)
THEOREM ImplementsSlotSafely == Spec => Slot!SafeSpec
  <1>1. Init => Slot!Init /\ BranchInv
    BY DEF Init, Slot!Init, BranchInv, FromCreates, NobodyAbandoned
  <1>2. IInv /\ BranchInv /\ [Next]_vars => BranchInv'
    BY BranchInvInductive
  <1>3. IInv /\ BranchInv' /\ [Next]_vars =>
           [Slot!Next]_(Slot!slotVars)
    BY StepKinds, StepRefinesSlot
       DEF IInv, BranchInv, FromCreates, OnlyCreatesAbandon
  <1> QED
    BY <1>1, <1>2, <1>3, InductiveInvariant, PTL DEF Spec, Slot!SafeSpec

-----------------------------------------------------------------------------
(* Both routes *)

(* What each phase of a shadow's handler says of its context, of why it    *)
(* disposes of it, and of how it got there.                                *)
ShadowResources(s) ==
    /\ context[s] => phase[s] \in {"incremental", "catching", "generating",
                                   "cleaning"}
    /\ phase[s] \in {"catching", "cleaning"} => context[s]
    /\ sessionLive[s] => context[s]
    /\ opened[s] = IF context[s] THEN 1 ELSE 0
    /\ disposeFor[s] # "fallback" => phase[s] = "catching"
    /\ disposeFor[s] = "compact" => compactions[s] < MaxCompactions
    /\ s \in leaked => phase[s] = "cleaning"
    /\ phase[s] \in {"incremental", "abandoned"} => s \in Creates
    /\ phase[s] = "catching" /\ disposeFor[s] = "fallback" => s \in Creates

RouteIInv ==
    /\ SharedInv
    /\ RouteTypeOK
    /\ \A r \in Requests \ Shadows : Resources(r) /\ FromCreates(r)
    /\ \A s \in Shadows : ShadowResources(s)

(* What a shadow's handler keeps to itself changes in its own steps only.  *)
OwnShadowState(s) ==
    /\ stage' \in [Shadows -> {"primary", "frontend"}]
    /\ compactions' \in [Shadows -> 0..MaxCompactions]
    /\ disposeFor' \in [Shadows -> Reasons]
    /\ opened' \in [Shadows -> 0..2]
    /\ sessionLive' \in [Shadows -> BOOLEAN]
    /\ leaked' \subseteq Shadows
    /\ \A q \in Shadows \ {s} : /\ compactions'[q] = compactions[q]
                                /\ disposeFor'[q] = disposeFor[q]
                                /\ opened'[q] = opened[q]
                                /\ sessionLive'[q] = sessionLive[q]
                                /\ q \in leaked' <=> q \in leaked

(* Disposing of the one context leaves none.                               *)
LEMMA DisposeLeavesNone ==
    ASSUME RouteTypeOK, NEW s \in Shadows, ShadowResources(s), context[s],
           Dispose(s), UNCHANGED <<connected, aborted, phaseContexts, leaked>>,
           stage' \in [Shadows -> {"primary", "frontend"}],
           compactions' \in [Shadows -> 0..MaxCompactions],
           \A q \in Shadows \ {s} : compactions'[q] = compactions[q]
    PROVE  /\ OwnContexts(s) /\ OwnShadowState(s)
           /\ ~context'[s] /\ ~sessionLive'[s]
           /\ opened'[s] = 0 /\ disposeFor'[s] = "fallback"
  <1>1. /\ context \in [Requests -> BOOLEAN]
        /\ phaseContexts \in [Requests -> 0..2]
        /\ s \in Requests
    BY ShadowAssumption DEF RouteTypeOK, TypeOK
  <1>2. OwnContexts(s) /\ ~context'[s]
    BY <1>1 DEF Dispose, OwnContexts
  <1>3. opened[s] - 1 = 0 /\ opened \in [Shadows -> 0..2]
    BY DEF ShadowResources, RouteTypeOK
  <1>4. /\ opened' = [opened EXCEPT ![s] = opened[s] - 1]
        /\ sessionLive' = [sessionLive EXCEPT ![s] = FALSE]
        /\ disposeFor' = [disposeFor EXCEPT ![s] = "fallback"]
    BY DEF Dispose
  <1>5. opened' \in [Shadows -> 0..2] /\ opened'[s] = 0
    BY <1>3, <1>4
  <1>6. /\ sessionLive' \in [Shadows -> BOOLEAN] /\ ~sessionLive'[s]
        /\ disposeFor' \in [Shadows -> Reasons]
        /\ disposeFor'[s] = "fallback"
        /\ leaked' \subseteq Shadows
    BY <1>4 DEF RouteTypeOK, Reasons
  <1>7. OwnShadowState(s)
    BY <1>3, <1>4, <1>5, <1>6 DEF OwnShadowState, RouteTypeOK
  <1> QED
    BY <1>2, <1>5, <1>6, <1>7

(* Every step of a shadow's handler is of one of the two kinds and keeps   *)
(* what its phase says of its context.                                     *)
LEMMA ShadowStepKinds ==
    ASSUME SharedInv, RouteTypeOK, NEW s \in Shadows, ShadowResources(s),
           ShadowStep(s)
    PROVE  /\ Holding(s)
           /\ LeavesSlot(s) \/ KeepsSlot(s)
           /\ OwnContexts(s) /\ OwnShadowState(s)
           /\ ShadowResources(s)'
  <1> DEFINE Goal == /\ Holding(s)
                     /\ LeavesSlot(s) \/ KeepsSlot(s)
                     /\ OwnContexts(s) /\ OwnShadowState(s)
                     /\ ShadowResources(s)'
  <1>t. /\ phase \in [Requests -> Phases]
        /\ timer \in [Requests -> BOOLEAN]
        /\ context \in [Requests -> BOOLEAN]
        /\ phaseContexts \in [Requests -> 0..2]
        /\ s \in Requests
    BY ShadowAssumption DEF RouteTypeOK, TypeOK
  <1>u. /\ stage \in [Shadows -> {"primary", "frontend"}]
        /\ compactions \in [Shadows -> 0..MaxCompactions]
        /\ disposeFor \in [Shadows -> Reasons]
        /\ opened \in [Shadows -> 0..2]
        /\ sessionLive \in [Shadows -> BOOLEAN]
        /\ leaked \subseteq Shadows
    BY DEF RouteTypeOK
  <1>1. ASSUME NEW p \in HoldingPhases, phase' = [phase EXCEPT ![s] = p],
               UNCHANGED <<requestInFlight, requestQueue, activeController>>,
               timer' \in {timer, [timer EXCEPT ![s] = FALSE]}
        PROVE  KeepsSlot(s) /\ phase'[s] = p
    BY <1>t, <1>1 DEF KeepsSlot
  <1>2. ASSUME UNCHANGED shadowVars
        PROVE  OwnShadowState(s)
    BY <1>u, <1>2 DEF shadowVars, OwnShadowState
  <1>3. ASSUME UNCHANGED <<connected, aborted, context, phaseContexts>>
        PROVE  OwnContexts(s)
    BY <1>t, <1>3 DEF OwnContexts
  <1>4. ASSUME ExitWithCleanup(s), s \notin leaked, Holding(s),
               UNCHANGED <<connected, aborted, context, phaseContexts, opened,
                           sessionLive, leaked>>,
               disposeFor'[s] = "fallback",
               OwnShadowState(s)
        PROVE  Goal
    <2>1. CASE ~context[s] /\ Release(s, 1, "finished")
      <3>1. LeavesSlot(s) /\ phase'[s] = "finished"
        BY <1>t, <2>1 DEF LeavesSlot, Release
      <3> QED
        BY <1>3, <1>4, <2>1, <3>1 DEF ShadowResources
    <2>2. CASE /\ context[s]
               /\ phase' = [phase EXCEPT ![s] = "cleaning"]
               /\ timer' = [timer EXCEPT ![s] = FALSE]
               /\ UNCHANGED <<requestInFlight, requestQueue, activeController>>
      <3>1. KeepsSlot(s) /\ phase'[s] = "cleaning"
        BY <1>1, <2>2 DEF HoldingPhases
      <3> QED
        BY <1>3, <1>4, <2>2, <3>1 DEF ShadowResources
    <2> QED
      BY <1>4, <2>1, <2>2 DEF ExitWithCleanup
  <1>5. ASSUME FallBackOrAbandon(s), s \in Creates, s \notin leaked, Holding(s),
               OwnContexts(s), OwnShadowState(s), UNCHANGED leaked,
               ~context'[s], ~sessionLive'[s], opened'[s] = 0,
               disposeFor'[s] = "fallback"
        PROVE  Goal
    <2>1. CASE Release(s, 2, "abandoned")
      <3>1. LeavesSlot(s) /\ phase'[s] = "abandoned"
        BY <1>t, <2>1 DEF LeavesSlot, Release
      <3> QED
        BY <1>5, <3>1 DEF ShadowResources
    <2>2. CASE /\ phase' = [phase EXCEPT ![s] = "acquiring"]
               /\ UNCHANGED <<requestInFlight, requestQueue, activeController,
                              timer>>
      <3>1. KeepsSlot(s) /\ phase'[s] = "acquiring"
        BY <1>1, <2>2 DEF HoldingPhases
      <3> QED
        BY <1>5, <3>1 DEF ShadowResources
    <2> QED
      BY <1>5, <2>1, <2>2 DEF FallBackOrAbandon
  <1>6. ASSUME phase[s] \in HoldingPhases \ {"catching", "cleaning"}
        PROVE  disposeFor[s] = "fallback" /\ s \notin leaked /\ Holding(s)
    BY <1>6 DEF ShadowResources, Holding
  <1>7. ASSUME AnswerAtOnce(s) \/ OpenContextThrows(s) \/ StopGenerating(s)
        PROVE  Goal
    <2>1. /\ ExitWithCleanup(s)
          /\ UNCHANGED <<connected, aborted, context, phaseContexts>>
          /\ UNCHANGED shadowVars
          /\ phase[s] \in HoldingPhases \ {"catching", "cleaning"}
      BY <1>7 DEF AnswerAtOnce, OpenContextThrows, StopGenerating, PrepareEnds,
                  AcquireThrows, GenerationEnds, HoldingPhases
    <2> QED
      BY <1>2, <1>4, <1>6, <2>1 DEF shadowVars
  <1>8. ASSUME ChooseBranch(s)
        PROVE  Goal
    <2>1. /\ phase[s] = "preparing"
          /\ UNCHANGED <<requestInFlight, requestQueue, activeController,
                         connected, aborted, timer, context, phaseContexts>>
          /\ UNCHANGED shadowVars
      BY <1>8 DEF ChooseBranch, PrepareContinues
    <2>2. PICK p \in {"acquiring", "incremental"} :
             /\ phase' = [phase EXCEPT ![s] = p]
             /\ p = "incremental" => s \in Creates
      BY <1>8 DEF ChooseBranch, PrepareContinues
    <2>3. KeepsSlot(s) /\ phase'[s] = p
      BY <1>1, <2>1, <2>2 DEF HoldingPhases
    <2>4. disposeFor[s] = "fallback" /\ s \notin leaked /\ Holding(s)
      BY <1>6, <2>1 DEF HoldingPhases
    <2>5. ShadowResources(s)'
      BY <2>1, <2>2, <2>3, <2>4 DEF shadowVars, ShadowResources
    <2> QED
      BY <1>2, <1>3, <2>1, <2>3, <2>4, <2>5
  <1>9. ASSUME OpenIncrementalContext(s)
        PROVE  Goal
    <2>1. /\ phase[s] = "incremental" /\ phase' = phase /\ ~context[s]
          /\ context' = [context EXCEPT ![s] = TRUE]
          /\ opened' = [opened EXCEPT ![s] = opened[s] + 1]
          /\ UNCHANGED <<requestInFlight, requestQueue, activeController,
                         connected, aborted, timer, phaseContexts, stage,
                         compactions, disposeFor, sessionLive, leaked>>
      BY <1>9 DEF OpenIncrementalContext, IncrementalOpensContext
    <2>2. phase' = [phase EXCEPT ![s] = "incremental"]
      BY <1>t, <2>1
    <2>3. KeepsSlot(s) /\ phase'[s] = "incremental"
      BY <1>1, <2>1, <2>2 DEF HoldingPhases
    <2>4. disposeFor[s] = "fallback" /\ s \notin leaked /\ Holding(s)
      BY <1>6, <2>1 DEF HoldingPhases
    <2>5. opened[s] = 0
      BY <2>1 DEF ShadowResources
    <2>6. /\ opened' \in [Shadows -> 0..2] /\ opened'[s] = 1
          /\ context'[s]
          /\ \A q \in Shadows \ {s} : opened'[q] = opened[q]
      BY <1>t, <1>u, <2>1, <2>5
    <2>7. OwnContexts(s) /\ OwnShadowState(s)
      BY <1>t, <1>u, <2>1, <2>6 DEF OwnContexts, OwnShadowState
    <2>8. ShadowResources(s)'
      BY <2>1, <2>3, <2>4, <2>6 DEF ShadowResources
    <2> QED
      BY <2>3, <2>4, <2>7, <2>8
  <1>10. ASSUME EndIncremental(s)
         PROVE  Goal
    <2>1. /\ phase[s] = "incremental"
          /\ UNCHANGED <<connected, aborted, context, phaseContexts>>
          /\ UNCHANGED shadowVars
          /\ s \in Creates
      BY <1>10 DEF EndIncremental, IncrementalReturns, IncrementalThrows,
                   ShadowResources
    <2>2. disposeFor[s] = "fallback" /\ s \notin leaked /\ Holding(s)
      BY <1>6, <2>1 DEF HoldingPhases
    <2>3. CASE ExitWithCleanup(s)
      BY <1>2, <1>4, <2>1, <2>2, <2>3 DEF shadowVars
    <2>4. CASE ~context[s] /\ FallBackOrAbandon(s)
      BY <1>2, <1>3, <1>5, <2>1, <2>2, <2>4 DEF shadowVars, ShadowResources
    <2>5. CASE /\ context[s]
               /\ phase' = [phase EXCEPT ![s] = "catching"]
               /\ UNCHANGED <<requestInFlight, requestQueue, activeController,
                              timer>>
      <3>1. KeepsSlot(s) /\ phase'[s] = "catching"
        BY <1>1, <2>5 DEF HoldingPhases
      <3>2. ShadowResources(s)'
        BY <2>1, <2>2, <2>5, <3>1 DEF shadowVars, ShadowResources
      <3> QED
        BY <1>2, <1>3, <2>1, <2>2, <3>1, <3>2
    <2> QED
      BY <1>10, <2>3, <2>4, <2>5 DEF EndIncremental, IncrementalReturns,
                                     IncrementalThrows
  <1>11. ASSUME phase[s] = "catching" \/ (phase[s] = "cleaning" /\ s \notin leaked),
                Dispose(s),
                UNCHANGED <<connected, aborted, phaseContexts, leaked>>,
                stage' \in [Shadows -> {"primary", "frontend"}],
                compactions' \in [Shadows -> 0..MaxCompactions],
                \A q \in Shadows \ {s} : compactions'[q] = compactions[q]
         PROVE  /\ Holding(s) /\ s \notin leaked
                /\ OwnContexts(s) /\ OwnShadowState(s)
                /\ ~context'[s] /\ ~sessionLive'[s]
                /\ opened'[s] = 0 /\ disposeFor'[s] = "fallback"
    <2>1. context[s] /\ Holding(s) /\ s \notin leaked
      BY <1>11 DEF ShadowResources, Holding, HoldingPhases
    <2> QED
      BY <1>11, <2>1, DisposeLeavesNone
  <1>12. ASSUME FallBack(s)
         PROVE  Goal
    <2>1. /\ phase[s] = "catching" /\ disposeFor[s] = "fallback"
          /\ Dispose(s) /\ FallBackOrAbandon(s)
          /\ UNCHANGED <<connected, aborted, phaseContexts, stage, compactions,
                         leaked>>
      BY <1>12 DEF FallBack
    <2>2. s \in Creates
      BY <2>1 DEF ShadowResources
    <2>3. /\ Holding(s) /\ s \notin leaked
          /\ OwnContexts(s) /\ OwnShadowState(s)
          /\ ~context'[s] /\ ~sessionLive'[s]
          /\ opened'[s] = 0 /\ disposeFor'[s] = "fallback"
      BY <1>u, <1>11, <2>1
    <2> QED
      BY <1>5, <2>1, <2>2, <2>3
  <1>13. ASSUME OpenContext(s)
         PROVE  Goal
    <2>1. /\ phase[s] = "acquiring"
          /\ phase' = [phase EXCEPT ![s] = "generating"]
          /\ context' = [context EXCEPT ![s] = TRUE]
          /\ opened' = [opened EXCEPT ![s] = opened[s] + 1]
          /\ UNCHANGED <<requestInFlight, requestQueue, activeController,
                         connected, aborted, timer, phaseContexts, stage,
                         compactions, disposeFor, leaked>>
      BY <1>13 DEF OpenContext
    <2>2. /\ sessionLive' \in [Shadows -> BOOLEAN]
          /\ \A q \in Shadows \ {s} : sessionLive'[q] = sessionLive[q]
      BY <1>u, <1>13 DEF OpenContext
    <2>3. KeepsSlot(s) /\ phase'[s] = "generating"
      BY <1>1, <2>1 DEF HoldingPhases
    <2>4. disposeFor[s] = "fallback" /\ s \notin leaked /\ Holding(s)
      BY <1>6, <2>1 DEF HoldingPhases
    <2>5. opened[s] = 0
      BY <2>1 DEF ShadowResources
    <2>6. /\ opened' \in [Shadows -> 0..2] /\ opened'[s] = 1
          /\ context'[s]
          /\ \A q \in Shadows \ {s} : opened'[q] = opened[q]
      BY <1>t, <1>u, <2>1, <2>5
    <2>7. OwnContexts(s) /\ OwnShadowState(s)
      BY <1>t, <1>u, <2>1, <2>2, <2>6 DEF OwnContexts, OwnShadowState
    <2>8. ShadowResources(s)'
      BY <2>1, <2>3, <2>4, <2>6 DEF ShadowResources
    <2> QED
      BY <2>3, <2>4, <2>7, <2>8
  <1>14. ASSUME NEW reason \in {"compact", "frontend", "return"},
                StartDisposing(s, reason),
                reason = "compact" => compactions[s] < MaxCompactions
         PROVE  Goal
    <2>1. /\ phase[s] = "generating" /\ sessionLive[s]
          /\ phase' = [phase EXCEPT ![s] = "catching"]
          /\ disposeFor' = [disposeFor EXCEPT ![s] = reason]
          /\ UNCHANGED <<requestInFlight, requestQueue, activeController,
                         connected, aborted, timer, context, phaseContexts,
                         stage, compactions, opened, sessionLive, leaked>>
      BY <1>14 DEF StartDisposing
    <2>2. KeepsSlot(s) /\ phase'[s] = "catching"
      BY <1>1, <2>1 DEF HoldingPhases
    <2>3. disposeFor[s] = "fallback" /\ s \notin leaked /\ Holding(s)
      BY <1>6, <2>1 DEF HoldingPhases
    <2>4. /\ disposeFor' \in [Shadows -> Reasons] /\ disposeFor'[s] = reason
          /\ \A q \in Shadows \ {s} : disposeFor'[q] = disposeFor[q]
      BY <1>u, <2>1 DEF Reasons
    <2>5. OwnShadowState(s)
      BY <1>u, <2>1, <2>4 DEF OwnShadowState
    <2>6. ShadowResources(s)'
      BY <1>14, <2>1, <2>2, <2>3, <2>4 DEF ShadowResources
    <2> QED
      BY <1>3, <2>1, <2>2, <2>3, <2>5, <2>6
  <1>15. ASSUME Compacted(s) \/ HandOff(s)
         PROVE  Goal
    <2>1. /\ phase[s] = "catching"
          /\ Dispose(s)
          /\ phase' = [phase EXCEPT ![s] = "acquiring"]
          /\ UNCHANGED <<requestInFlight, requestQueue, activeController,
                         connected, aborted, timer, phaseContexts, leaked>>
      BY <1>15 DEF Compacted, HandOff
    <2>2. /\ stage' \in [Shadows -> {"primary", "frontend"}]
          /\ compactions' \in [Shadows -> 0..MaxCompactions]
          /\ \A q \in Shadows \ {s} : compactions'[q] = compactions[q]
      <3>1. CASE HandOff(s)
        <4>1. 0 \in 0..MaxCompactions
          BY ShadowAssumption
        <4> QED
          BY <1>u, <3>1, <4>1 DEF HandOff
      <3>2. CASE Compacted(s)
        <4>1. compactions[s] + 1 \in 0..MaxCompactions
          BY <1>u, <3>2, ShadowAssumption DEF Compacted, ShadowResources
        <4>2. /\ compactions' = [compactions EXCEPT ![s] = compactions[s] + 1]
              /\ stage' = stage
          BY <3>2 DEF Compacted
        <4> QED
          BY <1>u, <4>1, <4>2
      <3> QED
        BY <1>15, <3>1, <3>2
    <2>3. KeepsSlot(s) /\ phase'[s] = "acquiring"
      BY <1>1, <2>1 DEF HoldingPhases
    <2>4. /\ Holding(s) /\ s \notin leaked
          /\ OwnContexts(s) /\ OwnShadowState(s)
          /\ ~context'[s] /\ ~sessionLive'[s]
          /\ opened'[s] = 0 /\ disposeFor'[s] = "fallback"
      BY <1>11, <2>1, <2>2
    <2>5. ShadowResources(s)'
      BY <2>1, <2>3, <2>4 DEF ShadowResources
    <2> QED
      BY <2>3, <2>4, <2>5
  <1>16. ASSUME SkipFrontend(s) \/ FinallyDisposes(s)
         PROVE  Goal
    <2>1. /\ phase[s] = "catching" \/ (phase[s] = "cleaning" /\ s \notin leaked)
          /\ Dispose(s)
          /\ Release(s, 1, "finished")
          /\ UNCHANGED <<connected, aborted, phaseContexts, stage, compactions,
                         leaked>>
      BY <1>16 DEF SkipFrontend, FinallyDisposes
    <2>2. LeavesSlot(s) /\ phase'[s] = "finished"
      BY <1>t, <2>1 DEF LeavesSlot, Release
    <2>3. /\ Holding(s) /\ s \notin leaked
          /\ OwnContexts(s) /\ OwnShadowState(s)
          /\ ~context'[s] /\ ~sessionLive'[s]
          /\ opened'[s] = 0 /\ disposeFor'[s] = "fallback"
      BY <1>u, <1>11, <2>1
    <2>4. ShadowResources(s)'
      BY <2>1, <2>2, <2>3 DEF ShadowResources
    <2> QED
      BY <2>2, <2>3, <2>4
  <1>17. ASSUME DisposalThrows(s)
         PROVE  Goal
    <2>1. /\ phase[s] = "catching" /\ ExitWithCleanup(s)
          /\ disposeFor' = [disposeFor EXCEPT ![s] = "fallback"]
          /\ UNCHANGED <<connected, aborted, context, phaseContexts, stage,
                         compactions, opened, sessionLive, leaked>>
      BY <1>17 DEF DisposalThrows
    <2>2. Holding(s) /\ s \notin leaked
      BY <2>1 DEF ShadowResources, Holding, HoldingPhases
    <2>3. /\ disposeFor' \in [Shadows -> Reasons]
          /\ disposeFor'[s] = "fallback"
          /\ \A q \in Shadows \ {s} : disposeFor'[q] = disposeFor[q]
      BY <1>u, <2>1 DEF Reasons
    <2>4. OwnShadowState(s)
      BY <1>u, <2>1, <2>3 DEF OwnShadowState
    <2> QED
      BY <1>4, <2>1, <2>2, <2>3, <2>4
  <1>18. ASSUME FinallyThrows(s)
         PROVE  Goal
    <2>1. /\ phase[s] = "cleaning" /\ leaked' = leaked \cup {s}
          /\ UNCHANGED vars
          /\ UNCHANGED <<stage, compactions, disposeFor, opened, sessionLive>>
      BY <1>18 DEF FinallyThrows
    <2>2. phase' = [phase EXCEPT ![s] = "cleaning"]
      BY <1>t, <2>1 DEF vars
    <2>3. KeepsSlot(s) /\ Holding(s)
      BY <1>1, <2>1, <2>2 DEF vars, Holding, HoldingPhases
    <2>4. OwnContexts(s) /\ OwnShadowState(s)
      BY <1>t, <1>u, <2>1 DEF vars, OwnContexts, OwnShadowState
    <2>5. ShadowResources(s)'
      BY <2>1 DEF vars, ShadowResources
    <2> QED
      BY <2>3, <2>4, <2>5
  <1> QED
    BY <1>7, <1>8, <1>9, <1>10, <1>12, <1>13, <1>14, <1>15, <1>16, <1>17,
       <1>18 DEF ShadowStep, Compact, EndBackend

(* A shadow whose handler did nothing keeps what its phase promises.       *)
LEMMA ShadowResourcesOfOthers ==
    ASSUME NEW q \in Shadows, ShadowResources(q), context'[q] = context[q],
           compactions'[q] = compactions[q], disposeFor'[q] = disposeFor[q],
           opened'[q] = opened[q], sessionLive'[q] = sessionLive[q],
           q \in leaked' <=> q \in leaked,
           \/ phase'[q] = phase[q]
           \/ /\ phase[q] \in {"new", "queued"}
              /\ phase'[q] \in {"rejected", "preparing", "queued"}
    PROVE  ShadowResources(q)'
  BY DEF ShadowResources

(* The types of what only the shadow's handlers have.                      *)
LEMMA ShadowTypes ==
    ASSUME RouteTypeOK, SharedInv', UNCHANGED shadowVars
    PROVE  RouteTypeOK'
  BY DEF RouteTypeOK, shadowVars, SharedInv

(* Every step of every actor of both routes keeps the invariant.           *)
LEMMA RouteIInvInductive ==
    RouteIInv /\ [RouteNext]_<<vars, shadowVars>> => RouteIInv'
  <1> SUFFICES ASSUME RouteIInv, [RouteNext]_<<vars, shadowVars>>
               PROVE  RouteIInv'
    OBVIOUS
  <1>a. Shadows \subseteq Requests
    BY ShadowAssumption
  <1>1. ASSUME NEW s \in Shadows, ShadowStep(s)
        PROVE  RouteIInv'
    <2>1. /\ Holding(s)
          /\ LeavesSlot(s) \/ KeepsSlot(s)
          /\ OwnContexts(s) /\ OwnShadowState(s)
          /\ ShadowResources(s)'
      BY <1>1, ShadowStepKinds DEF RouteIInv
    <2>2. SharedInv' /\ OthersWait(s)
      BY <1>a, <2>1, HandlerKeepsShared DEF RouteIInv
    <2>3. RouteTypeOK'
      BY <2>1, <2>2 DEF OwnShadowState, RouteTypeOK, SharedInv
    <2>4. \A r \in Requests \ Shadows : Resources(r)' /\ FromCreates(r)'
      <3> TAKE r \in Requests \ Shadows
      <3>1. /\ context'[r] = context[r] /\ phaseContexts'[r] = phaseContexts[r]
            /\ \/ phase'[r] = phase[r]
               \/ phase[r] = "queued" /\ phase'[r] = "preparing"
        BY <2>1, <2>2 DEF OwnContexts, OthersWait
      <3> QED
        BY <3>1, ResourcesOfOthers DEF RouteIInv, FromCreates
    <2>5. \A q \in Shadows \ {s} : ShadowResources(q)'
      BY <1>a, <2>1, <2>2, ShadowResourcesOfOthers
         DEF RouteIInv, OwnContexts, OwnShadowState, OthersWait
    <2> QED
      BY <2>1, <2>2, <2>3, <2>4, <2>5 DEF RouteIInv
  <1>2. ASSUME NEW r \in Requests \ Shadows, LiveStep(r)
        PROVE  RouteIInv'
    <2>1. HandlerStep(r) /\ UNCHANGED shadowVars
      BY <1>2 DEF LiveStep
    <2>2. /\ Holding(r)
          /\ LeavesSlot(r) \/ KeepsSlot(r)
          /\ OwnContexts(r) /\ Resources(r)'
      BY <2>1, HandlerStepKinds DEF RouteIInv
    <2>3. SharedInv' /\ OthersWait(r)
      BY <2>2, HandlerKeepsShared DEF RouteIInv
    <2>4. FromCreates(r)'
      BY <2>1, HandlerKeepsBranch DEF RouteIInv
    <2>5. \A q \in (Requests \ Shadows) \ {r} : Resources(q)' /\ FromCreates(q)'
      <3> TAKE q \in (Requests \ Shadows) \ {r}
      <3>1. /\ context'[q] = context[q] /\ phaseContexts'[q] = phaseContexts[q]
            /\ \/ phase'[q] = phase[q]
               \/ phase[q] = "queued" /\ phase'[q] = "preparing"
        BY <2>2, <2>3 DEF OwnContexts, OthersWait
      <3> QED
        BY <3>1, ResourcesOfOthers DEF RouteIInv, FromCreates
    <2>6. \A q \in Shadows : ShadowResources(q)'
      <3> TAKE q \in Shadows
      <3>1. /\ context'[q] = context[q]
            /\ \/ phase'[q] = phase[q]
               \/ phase[q] = "queued" /\ phase'[q] = "preparing"
        BY <1>a, <2>2, <2>3 DEF OwnContexts, OthersWait
      <3> QED
        BY <2>1, <3>1, ShadowResourcesOfOthers DEF RouteIInv, shadowVars
    <2>7. RouteTypeOK'
      BY <2>1, <2>3, ShadowTypes DEF RouteIInv
    <2> QED
      BY <2>2, <2>3, <2>4, <2>5, <2>6, <2>7 DEF RouteIInv
  <1>3. ASSUME RouteEvent
        PROVE  RouteIInv'
    <2>1. SharedInv' /\ ClientMoves /\ UNCHANGED shadowVars
      BY <1>3, ClientKeepsShared DEF RouteEvent, RouteIInv
    <2>2. \A r \in Requests \ Shadows : Resources(r)' /\ FromCreates(r)'
      BY <2>1, ResourcesOfOthers DEF RouteIInv, ClientMoves, FromCreates
    <2>3. \A q \in Shadows : ShadowResources(q)'
      BY <1>a, <2>1, ShadowResourcesOfOthers
         DEF RouteIInv, ClientMoves, shadowVars
    <2>4. RouteTypeOK'
      BY <2>1, ShadowTypes DEF RouteIInv
    <2> QED
      BY <2>1, <2>2, <2>3, <2>4 DEF RouteIInv
  <1>4. CASE UNCHANGED <<vars, shadowVars>>
    <2>1. SharedInv'
      BY <1>4 DEF vars, RouteIInv, SharedInv, TypeOK, TimerInv, QueueInv,
                  SlotInv, NobodyAbandoned, Holding
    <2>2. RouteTypeOK'
      BY <1>4, <2>1, ShadowTypes DEF RouteIInv
    <2> QED
      BY <1>4, <2>1, <2>2 DEF vars, shadowVars, RouteIInv, Resources,
                              FromCreates, ShadowResources
  <1> QED
    BY <1>1, <1>2, <1>3, <1>4 DEF RouteNext, Stopped

LEMMA RouteIInvInit == RouteInit => RouteIInv
  <1> SUFFICES ASSUME RouteInit
               PROVE  RouteIInv
    OBVIOUS
  <1>1. IInv
    BY IInvInit DEF RouteInit
  <1>2. /\ Shadows \subseteq Requests
        /\ 0 \in 0..MaxCompactions
    BY ShadowAssumption
  <1>3. RouteTypeOK
    BY <1>1, <1>2 DEF RouteInit, RouteTypeOK, IInv, SharedInv, Reasons
  <1>4. \A r \in Requests : phase[r] = "new" /\ ~context[r]
    BY DEF RouteInit, Init
  <1>5. \A s \in Shadows : ShadowResources(s)
    BY <1>2, <1>4 DEF RouteInit, ShadowResources
  <1> QED
    BY <1>1, <1>3, <1>4, <1>5 DEF RouteIInv, IInv, FromCreates

(* The invariant holds in every reachable state of the two routes, for any *)
(* set of requests, any part of it that arrives at /shadow and any part    *)
(* that takes the incremental branch.                                      *)
THEOREM RouteInductiveInvariant == RouteSpec => []RouteIInv
  <1> QED
    BY RouteIInvInit, RouteIInvInductive, PTL DEF RouteSpec

(* Type correctness of both routes; the counter of open contexts, which    *)
(* the type only bounds, and the counter of compactions stay in range.     *)
THEOREM RouteTypeCorrect == RouteSpec => []RouteTypeOK
  <1>1. RouteIInv => RouteTypeOK
    BY DEF RouteIInv
  <1> QED
    BY <1>1, RouteInductiveInvariant, PTL

(* The shadow's handler never has two contexts, however often it compacts  *)
(* and whichever branch failed before, and none once it has ended.         *)
THEOREM ShadowContextsAreDisposedAlways ==
    RouteSpec => []ShadowContextsAreDisposed
  <1>1. RouteIInv => ShadowContextsAreDisposed
    BY DEF RouteIInv, ShadowResources, ShadowContextsAreDisposed,
           TerminalPhases
  <1> QED
    BY <1>1, RouteInductiveInvariant, PTL

(* /v1/chat/abort reaches the handler that is at work, on either route.    *)
THEOREM EitherRouteIsAbortableAlways == RouteSpec => []EitherRouteIsAbortable
  <1>1. RouteIInv => EitherRouteIsAbortable
    BY DEF RouteIInv, SharedInv, SlotInv, EitherRouteIsAbortable, AtWork
  <1> QED
    BY <1>1, RouteInductiveInvariant, PTL

(* The handlers of the two routes exclude each other, as those of the live *)
(* route do among themselves.                                              *)
THEOREM RouteMutualExclusion == RouteSpec => []OneAtATimeUnlessAbandoned
  <1>1. RouteIInv => OneAtATimeUnlessAbandoned
    BY DEF RouteIInv, SharedInv, SlotInv, OneAtATimeUnlessAbandoned, OneAtATime
  <1> QED
    BY <1>1, RouteInductiveInvariant, PTL

(* On either route every exit clears the timer, disposes of the handler's  *)
(* own context and leaves the queue; a leak is no exit.                    *)
THEOREM RouteExitsAreClean == RouteSpec => []ExitsAreClean
  <1>1. RouteIInv => ExitsAreClean
    <2> SUFFICES ASSUME RouteIInv, NEW r \in Requests,
                        phase[r] \in TerminalPhases
                 PROVE  /\ ~timer[r] /\ ~context[r]
                        /\ \A i \in DOMAIN requestQueue : requestQueue[i] # r
      BY DEF ExitsAreClean
    <2>1. ~timer[r]
      BY DEF RouteIInv, SharedInv, TimerInv, Holding, HoldingPhases,
             TerminalPhases
    <2>2. ~context[r]
      BY DEF RouteIInv, Resources, ShadowResources, TerminalPhases
    <2>3. DOMAIN requestQueue = 1..Len(requestQueue)
      BY LenProperties DEF RouteIInv, SharedInv, TypeOK
    <2> QED
      BY <2>1, <2>2, <2>3 DEF RouteIInv, SharedInv, QueueInv, TerminalPhases
  <1> QED
    BY <1>1, RouteInductiveInvariant, PTL

(* Each step of either route is one of the four kinds, too.                *)
LEMMA RouteStepKindsOfSlot ==
    ASSUME RouteIInv, [RouteNext]_<<vars, shadowVars>>
    PROVE  SlotKinds
  <1>1. ASSUME NEW s \in Shadows, ShadowStep(s)
        PROVE  SlotKinds
    <2>1. /\ s \in Requests /\ Holding(s)
          /\ LeavesSlot(s) \/ KeepsSlot(s)
      BY <1>1, ShadowStepKinds, ShadowAssumption DEF RouteIInv
    <2> QED
      BY <2>1, MovesTouchNothing DEF RouteIInv, SlotKinds
  <1>2. ASSUME NEW r \in Requests, LiveStep(r)
        PROVE  SlotKinds
    <2>1. Holding(r) /\ (LeavesSlot(r) \/ KeepsSlot(r))
      BY <1>2, HandlerStepKinds DEF LiveStep, RouteIInv
    <2> QED
      BY <2>1, MovesTouchNothing DEF RouteIInv, SlotKinds
  <1>3. ASSUME RouteEvent
        PROVE  SlotKinds
    BY <1>3, ClientStepKinds DEF RouteEvent
  <1>4. CASE UNCHANGED <<vars, shadowVars>>
    BY <1>4 DEF vars, SlotKinds, SlotUntouched, Holding
  <1> QED
    BY <1>1, <1>2, <1>3, <1>4 DEF RouteNext, Stopped

(* A request of either route is served in the order in which it asked,     *)
(* behind those of the other one.                                          *)
THEOREM RouteFirstComeFirstServed ==
    RouteSpec => [][NobodyOvertakes /\ QueueGrowsAtItsEnd]_<<vars, shadowVars>>
  <1>1. RouteIInv /\ [RouteNext]_<<vars, shadowVars>> =>
           [NobodyOvertakes /\ QueueGrowsAtItsEnd]_<<vars, shadowVars>>
    BY RouteStepKindsOfSlot, KindsAreFirstComeFirstServed DEF RouteIInv
  <1> QED
    BY <1>1, RouteInductiveInvariant, PTL DEF RouteSpec

(* The two handlers together implement the exclusive first-in first-out    *)
(* slot, a leaked one being a holder that never leaves.                    *)
THEOREM RouteImplementsSlotSafely == RouteSpec => Slot!SafeSpec
  <1>1. RouteInit => Slot!Init
    BY DEF RouteInit, Init, Slot!Init, NobodyAbandoned
  <1>2. RouteIInv => OnlyCreatesAbandon
    BY DEF RouteIInv, OnlyCreatesAbandon, FromCreates, ShadowResources
  <1>3. RouteIInv /\ OnlyCreatesAbandon' /\ [RouteNext]_<<vars, shadowVars>> =>
           [Slot!Next]_(Slot!slotVars)
    BY RouteStepKindsOfSlot, StepRefinesSlot DEF RouteIInv
  <1> QED
    BY <1>1, <1>2, <1>3, RouteInductiveInvariant, PTL
       DEF RouteSpec, Slot!SafeSpec

(* One rejected disposal in the shadow's finally block stops both routes:  *)
(* from then on no request of either starts, and none that ran goes on.    *)
LeakStopsBothRoutes ==
    leaked # {} /\ NobodyAbandoned =>
        /\ leaked \subseteq leaked'
        /\ UNCHANGED <<requestInFlight, activeController>>
        /\ \A r \in Requests : Holding(r)' <=> r \in leaked

(* What the unguarded disposal of chatRoutes.ts:1907 costs, the other route *)
(* included: every later step leaves the flag, the controller and the       *)
(* holder as they are.                                                     *)
THEOREM LeakStopsBothRoutesForever ==
    RouteSpec => [][LeakStopsBothRoutes]_<<vars, shadowVars>>
  <1>1. ASSUME RouteIInv, RouteNext, leaked # {}, NobodyAbandoned
        PROVE  /\ leaked \subseteq leaked'
               /\ UNCHANGED <<requestInFlight, activeController>>
               /\ \A r \in Requests : Holding(r)' <=> r \in leaked
    <2>1. PICK s \in leaked : s \in Shadows /\ s \in Requests
      BY <1>1, ShadowAssumption DEF RouteIInv, RouteTypeOK
    <2>2. Holding(s) /\ phase[s] = "cleaning"
      BY <1>1, <2>1 DEF RouteIInv, ShadowResources, Holding, HoldingPhases
    <2>3. /\ requestInFlight
          /\ \A r \in Requests : Holding(r) <=> r = s
      BY <1>1, <2>1, <2>2 DEF RouteIInv, SharedInv, SlotInv
    <2>4. leaked = {s}
      <3>1. \A q \in leaked : q \in Requests /\ Holding(q)
        BY <1>1, ShadowAssumption DEF RouteIInv, RouteTypeOK, ShadowResources,
                                      Holding, HoldingPhases
      <3> QED
        BY <2>1, <2>3, <3>1
    <2>5. ASSUME NEW q \in Shadows, ShadowStep(q)
          PROVE  FALSE
      <3>1. q \in Requests /\ Holding(q)
        BY <1>1, <2>5, ShadowStepKinds, ShadowAssumption DEF RouteIInv
      <3>2. q = s
        BY <2>3, <3>1
      <3> QED
        BY <2>1, <2>2, <2>5, <3>2
           DEF ShadowStep, AnswerAtOnce, PrepareEnds, ChooseBranch,
               PrepareContinues, OpenIncrementalContext,
               IncrementalOpensContext, EndIncremental, IncrementalReturns,
               IncrementalThrows, FallBack, OpenContext, OpenContextThrows,
               AcquireThrows, Compact, EndBackend, StartDisposing, Compacted,
               HandOff, SkipFrontend, DisposalThrows, StopGenerating,
               GenerationEnds, FinallyDisposes, FinallyThrows
    <2>6. ASSUME NEW r \in Requests \ Shadows, LiveStep(r)
          PROVE  FALSE
      BY <1>1, <2>1, <2>3, <2>6, HandlerStepKinds DEF LiveStep, RouteIInv
    <2>7. CASE RouteEvent
      <3>1. leaked' = leaked
        BY <2>7 DEF RouteEvent, shadowVars
      <3>2. UNCHANGED <<requestInFlight, activeController>>
        BY <2>3, <2>7 DEF RouteEvent, AbortRoute, ClientStep,
              RejectDuringSwap, TakeFreeSlot, JoinQueue, Disconnect, Timeout
      <3>3. \A r \in Requests : Holding(r)' <=> Holding(r)
        <4>1. phase \in [Requests -> Phases]
          BY <1>1 DEF RouteIInv, SharedInv, TypeOK
        <4>2. \/ phase' = phase
              \/ \E r \in Requests, p \in {"rejected", "queued"} :
                    phase[r] = "new" /\ phase' = [phase EXCEPT ![r] = p]
          BY <2>3, <2>7 DEF RouteEvent, AbortRoute, ClientStep,
              RejectDuringSwap, TakeFreeSlot, JoinQueue, Disconnect, Timeout
        <4> QED
          BY <4>1, <4>2 DEF Holding, HoldingPhases
      <3> QED
        BY <2>3, <2>4, <3>1, <3>2, <3>3
    <2>8. CASE Stopped
      BY <2>3, <2>4, <2>8 DEF Stopped, vars, shadowVars, Holding
    <2> QED
      BY <1>1, <2>5, <2>6, <2>7, <2>8 DEF RouteNext
  <1>2. RouteIInv /\ [RouteNext]_<<vars, shadowVars>> =>
           [LeakStopsBothRoutes]_<<vars, shadowVars>>
    BY <1>1 DEF LeakStopsBothRoutes
  <1> QED
    BY <1>2, RouteInductiveInvariant, PTL DEF RouteSpec

=============================================================================
