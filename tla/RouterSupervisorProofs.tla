----------------------- MODULE RouterSupervisorProofs -----------------------
(***************************************************************************)
(* Theorems about RouterSupervisor, for every set of launches.             *)
(***************************************************************************)
EXTENDS RouterSupervisor, TLAPS

(* A launch spawns once at most: before its probe has answered there is no *)
(* router of its own.                                                      *)
LaunchInv ==
    \A l \in Launches :
        /\ editor[l] = "new" => ensure[l] = "none"
        /\ ensure[l] \in {"none", "probing"} => router[l] = "none"

IInv == TypeOK /\ LaunchInv /\ RouterOutlivesEditors

-----------------------------------------------------------------------------
LEMMA InitIInv == Init => IInv
<1>1. Init => TypeOK
  BY SupervisorAssumption DEF Init, TypeOK
<1>2. Init => LaunchInv /\ RouterOutlivesEditors
  BY DEF Init, LaunchInv, RouterOutlivesEditors
<1>. QED  BY <1>1, <1>2 DEF IInv

(* Editors that start, quit or hand over touch no router, and tell nobody  *)
(* that one is up.                                                         *)
LEMMA EditorKeepsIInv ==
    ASSUME IInv, NEW l \in Launches, EditorStep(l)
    PROVE  IInv'
<1>1. /\ UNCHANGED <<router, crashes>>
      /\ \A k \in Launches :
            /\ editor'[k] = "new" => editor[k] = "new" /\ ensure'[k] = ensure[k]
            /\ ensure'[k] = "up" => ensure[k] = "up"
            /\ ensure'[k] \in {"none", "probing"}
                  => ensure[k] \in {"none", "probing"}
  BY DEF IInv, TypeOK, LaunchInv, EditorStep, Launch, Claim, Quit, Ended
<1>2. TypeOK'
  BY DEF IInv, TypeOK, EditorStep, Launch, Claim, Quit, Ended
<1>3. LaunchInv'
  BY <1>1 DEF IInv, LaunchInv
<1>4. RouterOutlivesEditors'
  BY <1>1 DEF IInv, RouterOutlivesEditors, Answering
<1>. QED  BY <1>2, <1>3, <1>4 DEF IInv

(* A supervisor says "up" only when somebody answers, and spawns only      *)
(* where it has no router yet.                                             *)
LEMMA SupervisorKeepsIInv ==
    ASSUME IInv, NEW l \in Launches, SupervisorStep(l)
    PROVE  IInv'
<1>1. TypeOK'
  BY DEF IInv, TypeOK, SupervisorStep, Probe, Found, DeadlinePasses
<1>2. LaunchInv'
  BY DEF IInv, TypeOK, LaunchInv, SupervisorStep, Probe, Found, DeadlinePasses
<1>3. Answering => Answering'
  BY DEF IInv, TypeOK, LaunchInv, Answering, SupervisorStep, Probe, Found,
         DeadlinePasses
<1>4. \A k \in Launches : ensure'[k] = "up" => ensure[k] = "up" \/ Answering
  BY DEF IInv, TypeOK, SupervisorStep, Probe, Found, DeadlinePasses
<1>5. crashes' = crashes
  BY DEF SupervisorStep, Probe, Found, DeadlinePasses
<1>6. RouterOutlivesEditors'
  BY <1>3, <1>4, <1>5 DEF IInv, RouterOutlivesEditors
<1>. QED  BY <1>1, <1>2, <1>6 DEF IInv

(* A router that loses the port, or does not come up, is not the one that  *)
(* answers.                                                                *)
LEMMA BootKeepsIInv ==
    ASSUME IInv, NEW l \in Launches, Boot(l)
    PROVE  IInv'
<1>1. TypeOK' /\ LaunchInv'
  BY DEF IInv, TypeOK, LaunchInv, Boot, Listen, BootFails
<1>2. Answering => Answering'
  BY DEF IInv, TypeOK, Answering, Boot, Listen, BootFails
<1>3. UNCHANGED <<ensure, crashes>>
  BY DEF Boot, Listen, BootFails
<1>4. RouterOutlivesEditors'
  BY <1>2, <1>3 DEF IInv, RouterOutlivesEditors
<1>. QED  BY <1>1, <1>4 DEF IInv

LEMMA CrashKeepsIInv ==
    ASSUME IInv, NEW l \in Launches, Crash(l)
    PROVE  IInv'
<1>1. TypeOK'
  BY SupervisorAssumption DEF IInv, TypeOK, Crash
<1>2. LaunchInv'
  BY DEF IInv, TypeOK, LaunchInv, Crash
<1>3. crashes' # 0
  BY DEF IInv, TypeOK, Crash
<1>4. RouterOutlivesEditors'
  BY <1>3 DEF RouterOutlivesEditors
<1>. QED  BY <1>1, <1>2, <1>4 DEF IInv

LEMMA IInvInductive == IInv /\ [Next]_vars => IInv'
<1>. SUFFICES ASSUME IInv, [Next]_vars  PROVE IInv'
  OBVIOUS
<1>1. ASSUME NEW l \in Launches,
             EditorStep(l) \/ SupervisorStep(l) \/ Boot(l) \/ Crash(l)
      PROVE  IInv'
  BY <1>1, EditorKeepsIInv, SupervisorKeepsIInv, BootKeepsIInv, CrashKeepsIInv
<1>2. CASE UNCHANGED vars
  BY <1>2 DEF vars, IInv, TypeOK, LaunchInv, RouterOutlivesEditors, Answering
<1>. QED  BY <1>1, <1>2 DEF Next, Over

-----------------------------------------------------------------------------
(* The state of the launches and of their routers, whatever the set of     *)
(* launches and however many crashes.                                      *)
THEOREM TypeCorrect == Spec => []TypeOK
<1>1. IInv => TypeOK
  BY DEF IInv
<1>. QED  BY <1>1, InitIInv, IInvInductive, PTL DEF Spec

(* A router that was found stays until it crashes, whoever quits and       *)
(* whoever loses the port (codecrabRouterSupervisor.ts:215).               *)
THEOREM RouterOutlivesEditorsAlways == Spec => []RouterOutlivesEditors
<1>1. IInv => RouterOutlivesEditors
  BY DEF IInv
<1>. QED  BY <1>1, InitIInv, IInvInductive, PTL DEF Spec

=============================================================================
