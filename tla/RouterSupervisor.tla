-------------------------- MODULE RouterSupervisor --------------------------
(***************************************************************************)
(* codecrabRouterSupervisor.ts: every launch of the editor makes sure that *)
(* the one router of the machine is running.  It is called before the      *)
(* launch has claimed to be the only instance (main.ts:131) and not waited *)
(* for, so launches race each other and the routers they spawn.            *)
(*                                                                         *)
(* A router is named by the launch that spawned it, but is no child of it: *)
(* it is detached, and goes on when the editor quits.                      *)
(***************************************************************************)
EXTENDS Naturals, FiniteSets

CONSTANTS
    Launches,    \* the launches of the editor
    MaxCrashes   \* bound on the crashes of a listening router

ASSUME SupervisorAssumption == MaxCrashes \in Nat

VARIABLES
    editor,   \* the main process of each launch
    ensure,   \* what its ensureRouterRunning() does, or returned
    router,   \* the router process it spawned
    crashes   \* how many listening routers crashed

vars == <<editor, ensure, router, crashes>>

TypeOK ==
    /\ editor \in [Launches -> {"new", "starting", "open", "quit"}]
    /\ ensure \in [Launches -> {"none", "probing", "waiting", "up", "offline",
                                "gone"}]
    /\ router \in [Launches -> {"none", "booting", "listening", "exited"}]
    /\ crashes \in 0..MaxCrashes

Init ==
    /\ editor = [l \in Launches |-> "new"]
    /\ ensure = [l \in Launches |-> "none"]
    /\ router = [l \in Launches |-> "none"]
    /\ crashes = 0

(* Somebody owns the port.                                                 *)
Answering == \E l \in Launches : router[l] = "listening"

-----------------------------------------------------------------------------
(* The editor *)

Launch(l) ==
    /\ editor[l] = "new"
    /\ editor' = [editor EXCEPT ![l] = "starting"]
    /\ ensure' = [ensure EXCEPT ![l] = "probing"]
    /\ UNCHANGED <<router, crashes>>

(* A process that ends takes the promise it was waiting for with it.       *)
Ended(l) ==
    /\ editor' = [editor EXCEPT ![l] = "quit"]
    /\ ensure' = [ensure EXCEPT
                    ![l] = IF @ \in {"probing", "waiting"} THEN "gone" ELSE @]

(* claimInstance(): the first instance goes on, and so does one with other *)
(* user data; any other hands over to the running one and quits.           *)
Claim(l) ==
    /\ editor[l] = "starting"
    /\ \/ /\ editor' = [editor EXCEPT ![l] = "open"]
          /\ UNCHANGED ensure
       \/ /\ \E k \in Launches : editor[k] = "open"
          /\ Ended(l)
    /\ UNCHANGED <<router, crashes>>

(* Mutant: the router is no detached process ("the router DIED with the    *)
(* parent").                                                               *)
QuitWithChild(l) ==
    /\ editor[l] = "open"
    /\ Ended(l)
    /\ router' = [router EXCEPT ![l] = IF @ = "none" THEN @ ELSE "exited"]
    /\ UNCHANGED crashes

Quit(l) ==
    /\ editor[l] = "open"
    /\ Ended(l)
    /\ UNCHANGED <<router, crashes>>

-----------------------------------------------------------------------------
(* The supervisor *)

(* The first probe.  A router too busy for two seconds does not answer.    *)
Probe(l) ==
    /\ ensure[l] = "probing"
    /\ \/ /\ Answering
          /\ ensure' = [ensure EXCEPT ![l] = "up"]
          /\ UNCHANGED router
       \/ /\ ensure' = [ensure EXCEPT ![l] = "offline"]  \* no router, no spawn
          /\ UNCHANGED router
       \/ /\ ensure' = [ensure EXCEPT ![l] = "waiting"]
          /\ router' = [router EXCEPT ![l] = "booting"]
    /\ UNCHANGED <<editor, crashes>>

(* waitForRouter(): whichever router answers, ours or another launch's.    *)
Found(l) ==
    /\ ensure[l] = "waiting"
    /\ Answering
    /\ ensure' = [ensure EXCEPT ![l] = "up"]
    /\ UNCHANGED <<editor, router, crashes>>

(* Mutant: each probe extends the deadline.                                *)
DeadlineExtended(l) == ensure[l] = "waiting" /\ UNCHANGED vars

(* A boot may take longer than BOOT_TIMEOUT_MS.                            *)
DeadlinePasses(l) ==
    /\ ensure[l] = "waiting"
    /\ ensure' = [ensure EXCEPT ![l] = "offline"]
    /\ UNCHANGED <<editor, router, crashes>>

-----------------------------------------------------------------------------
(* The router *)

(* Mutant: a router whose port is taken looks for another one.             *)
ListenElsewhere(l) ==
    /\ router[l] = "booting"
    /\ router' = [router EXCEPT ![l] = "listening"]
    /\ UNCHANGED <<editor, ensure, crashes>>

(* The end of index.ts: listen(), or EADDRINUSE and exit(1).               *)
Listen(l) ==
    /\ router[l] = "booting"
    /\ router' = [router EXCEPT ![l] = IF Answering THEN "exited"
                                                    ELSE "listening"]
    /\ UNCHANGED <<editor, ensure, crashes>>

BootFails(l) ==
    /\ router[l] = "booting"
    /\ router' = [router EXCEPT ![l] = "exited"]
    /\ UNCHANGED <<editor, ensure, crashes>>

(* An uncaught exception or an unhandled rejection; nobody restarts it     *)
(* before the next launch.                                                 *)
Crash(l) ==
    /\ router[l] = "listening"
    /\ crashes < MaxCrashes
    /\ crashes' = crashes + 1
    /\ router' = [router EXCEPT ![l] = "exited"]
    /\ UNCHANGED <<editor, ensure>>

-----------------------------------------------------------------------------
EditorStep(l) == Launch(l) \/ Claim(l) \/ Quit(l)

SupervisorStep(l) == Probe(l) \/ Found(l) \/ DeadlinePasses(l)

Boot(l) == Listen(l) \/ BootFails(l)

Over == (\A l \in Launches : editor[l] = "quit") /\ UNCHANGED vars

Next ==
    \/ \E l \in Launches : EditorStep(l) \/ SupervisorStep(l) \/ Boot(l) \/ Crash(l)
    \/ Over

(* A probe answers or times out, the deadline comes, a boot ends.          *)
Fairness ==
    \A l \in Launches : WF_vars(SupervisorStep(l)) /\ WF_vars(Boot(l))

Spec == Init /\ [][Next]_vars /\ Fairness

-----------------------------------------------------------------------------
(* Properties *)

(* "The router is a service, not a child of the editor" (supervisor, line  *)
(* 215): once a launch was told that a router is up, there is one, through *)
(* any launches that quit, the one that spawned it included, and any       *)
(* routers that lose the race for the port, until it crashes.              *)
RouterOutlivesEditors ==
    crashes = 0 /\ (\E l \in Launches : ensure[l] = "up") => Answering

(* ensureRouterRunning() returns, though a boot may fail or never end in   *)
(* time and another launch's router may come and go meanwhile.             *)
EnsureSettles ==
    \A l \in Launches :
        ensure[l] = "probing" ~> ensure[l] \in {"up", "offline", "gone"}

(* However many launches spawn a router, one process at most is left.      *)
OneRouterIsLeft ==
    <>[](Cardinality({l \in Launches : router[l] \in {"booting", "listening"}})
            <= 1)

=============================================================================
