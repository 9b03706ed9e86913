---------------------------- MODULE ExclusiveSlot ----------------------------
(***************************************************************************)
(* What the request slot promises to the chat handlers: one holder at a    *)
(* time, waiters served in the order in which they asked, and a slot that  *)
(* is always passed on - until a holder calls its release function twice.  *)
(* It says nothing of controllers, timers or contexts.  ChatRequests       *)
(* implements it (see ImplementsExclusiveSlot).                            *)
(***************************************************************************)
EXTENDS Sequences

CONSTANTS
    Requests,
    Twice,     \* those that may call their release function twice
    NoRequest

VARIABLES
    holder,    \* the request that holds the slot, or NoRequest
    waiting,   \* the requests that wait, in order
    asked,     \* the requests that have asked, served or not
    broken     \* a release function was called twice: nothing is promised

slotVars == <<holder, waiting, asked, broken>>

Init ==
    /\ holder = NoRequest
    /\ waiting = <<>>
    /\ asked = {}
    /\ broken = FALSE

Ask(r) ==
    /\ ~broken
    /\ r \notin asked
    /\ UNCHANGED broken
    /\ asked' = asked \cup {r}
    /\ \/ /\ holder = NoRequest
          /\ holder' = r
          /\ UNCHANGED waiting
       \/ /\ holder # NoRequest
          /\ waiting' = Append(waiting, r)
          /\ UNCHANGED holder

(* A request may also be turned away without ever touching the slot.       *)
TurnAway(r) ==
    /\ ~broken
    /\ r \notin asked
    /\ asked' = asked \cup {r}
    /\ UNCHANGED <<holder, waiting, broken>>

Leave ==
    /\ holder # NoRequest
    /\ \/ /\ waiting = <<>>
          /\ holder' = NoRequest
          /\ UNCHANGED waiting
       \/ /\ waiting # <<>>
          /\ holder' = Head(waiting)
          /\ waiting' = Tail(waiting)
    /\ UNCHANGED <<asked, broken>>

(* The second call of a release function; what follows is nobody's promise.*)
Break ==
    /\ holder \in Twice
    /\ holder' = NoRequest
    /\ waiting' = <<>>
    /\ asked' = {}
    /\ broken' = TRUE

Next == Leave \/ Break \/ \E r \in Requests : Ask(r) \/ TurnAway(r)

SafeSpec == Init /\ [][Next]_slotVars

Spec == SafeSpec /\ WF_slotVars(Leave \/ Break)

=============================================================================
