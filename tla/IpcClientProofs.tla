---------------------------- MODULE IpcClientProofs ----------------------------
(***************************************************************************)
(* Proofs about IpcClient, for every width of the reference count.         *)
(***************************************************************************)
EXTENDS IpcClient, TLAPS

(* What the reference count and the session are at each place of the       *)
(* overlay.  After a start that failed the count is 0, and exitServices    *)
(* wraps it.                                                               *)
Counts ==
    /\ pc \in {"off", "probe", "unregister", "initialize"} =>
           g_refCnt = 0 /\ session = "none"
    /\ pc = "getService" => g_refCnt = 1 /\ session = "none"
    /\ pc = "version" => g_refCnt = 1 /\ session # "none"
    /\ pc = "shown" => \/ g_refCnt = 0 /\ session = "none"
                       \/ g_refCnt = 1 /\ session # "none"
    /\ pc = "exited" => session = "none"

(* The name belongs to the sysmodule while it runs, and to the overlay     *)
(* between the two calls of the probe, or to its end if the second fails.  *)
Names ==
    /\ sysmodule \in {"starting", "serving", "closing"} <=> owner = "sysmodule"
    /\ pc = "unregister" => owner = "overlay"
    /\ owner = "overlay" => \/ pc = "unregister"
                            \/ pc \in {"shown", "exited"} /\ refused

Inv == TypeOK /\ Counts /\ Names /\ WaitsHaveAReason

(* The three values the count can take, in the arithmetic of a size_t.     *)
LEMMA Wraps ==
               /\ (0 + 1) % RefLimit = 1
               /\ (1 - 1) % RefLimit = 0
               /\ (0 - 1) % RefLimit = RefLimit - 1
  BY RefLimitAssumption, SMT

(* The decrement, from the two values it meets. *)
LEMMA Decrement ==
    ASSUME IpcExit, \/ g_refCnt = 0 /\ session = "none"
                    \/ g_refCnt = 1 /\ session \in {"none", "open", "dead"}
    PROVE  /\ g_refCnt' \in {0, RefLimit - 1}
           /\ session' = "none"
           /\ g_refCnt = 1 => g_refCnt' = 0
  BY Wraps, RefLimitAssumption DEF IpcExit

LEMMA Invariance == Spec => []Inv
<1> USE RefLimitAssumption
<1>1. Init => Inv
  <2> SUFFICES ASSUME Init PROVE Inv OBVIOUS
  <2>1. TypeOK
    <3>1. 0 \in 0 .. RefLimit - 1 OBVIOUS
    <3>2. compatible \in BOOLEAN /\ ended \in BOOLEAN /\ refused \in BOOLEAN
      BY DEF Init
    <3> QED BY <3>1, <3>2, Zenon DEF Init, TypeOK
  <2>2. Counts BY DEF Init, Counts
  <2>3. Names /\ WaitsHaveAReason BY DEF Init, Names, WaitsHaveAReason
  <2> QED BY <2>1, <2>2, <2>3 DEF Inv
<1>2. Inv /\ [Next]_vars => Inv'
  <2> SUFFICES ASSUME Inv, [Next]_vars PROVE Inv' OBVIOUS
  <2> USE DEF Inv, TypeOK, Counts, Names, WaitsHaveAReason, Step, overlayVars, past
  <2>1. CASE Load BY <2>1 DEF Load
  <2>2. CASE Probe
    <3>1. refused' \in BOOLEAN BY <2>2, Zenon DEF Probe
    <3> QED BY <2>2, <3>1 DEF Probe
  <2>3. CASE Unregister BY <2>3 DEF Unregister, Show
  <2>4. CASE Initialize BY <2>4, Wraps DEF Initialize
  <2>5. CASE GetService
    <3>1. g_refCnt = 1 /\ session = "none" BY <2>5 DEF GetService
    <3>2. CASE IpcExit
      <4>1. g_refCnt' = 0 /\ session' = "none" BY <3>1, <3>2, Decrement
      <4> QED BY <2>5, <3>1, <4>1 DEF GetService, Show
    <3>3. CASE ~IpcExit BY <2>5, <3>1, <3>3 DEF GetService
    <3> QED BY <3>2, <3>3
  <2>15. CASE GetServiceRefused
    <3>1. g_refCnt = 1 /\ session = "none" BY <2>15 DEF GetServiceRefused
    <3>2. g_refCnt' = 0 /\ session' = "none" BY <2>15, <3>1, Decrement DEF GetServiceRefused
    <3> QED BY <2>15, <3>1, <3>2 DEF GetServiceRefused, Show
  <2>6. CASE GetAPIVersion BY <2>6 DEF GetAPIVersion, Show
  <2>7. CASE ExitServices
    <3>1. g_refCnt' \in {0, RefLimit - 1} /\ session' = "none"
      BY <2>7, Decrement DEF ExitServices
    <3> QED BY <2>7, <3>1 DEF ExitServices
  <2>8. CASE Unload BY <2>8 DEF Unload, Show
  <2>9. CASE ServerInit BY <2>9 DEF ServerInit
  <2>10. CASE Sysmodule BY <2>10 DEF Sysmodule, Serve, ServerUnregister
  <2>11. CASE ServerClose BY <2>11 DEF ServerClose, SessionDies
  <2>12. CASE Die BY <2>12 DEF Die, SessionDies
  <2>13. CASE Reset BY <2>13 DEF Reset
  <2>14. CASE UNCHANGED vars BY <2>14 DEF vars
  <2> QED BY <2>1, <2>2, <2>3, <2>4, <2>5, <2>6, <2>7, <2>8, <2>9, <2>10,
             <2>11, <2>12, <2>13, <2>14, <2>15 DEF Next, Overlay
<1> QED BY <1>1, <1>2, PTL DEF Spec

(* The count stays within its width, also where it wraps (sysheloIpcExit).  *)
THEOREM TypeCorrect == Spec => []TypeOK
<1>1. Inv => TypeOK BY DEF Inv
<1> QED BY Invariance, <1>1, PTL

(* No overlay leaves a session behind, and the count that wraps after a    *)
(* failed start never belongs to one, whatever its width.                  *)
THEOREM SessionCounted == Spec => []SessionIsCounted
<1>1. Inv => SessionIsCounted BY DEF Inv, TypeOK, Counts, SessionIsCounted
<1> QED BY Invariance, <1>1, PTL

(* An overlay waits for a service that is not there only when the          *)
(* sysmodule ended after the probe, or the probe itself was refused.       *)
THEOREM WaitsExplained == Spec => []WaitsHaveAReason
<1>1. Inv => WaitsHaveAReason BY DEF Inv
<1> QED BY Invariance, <1>1, PTL

(* Only a probe under way, or one that could not give the name back, makes *)
(* the sysmodule find its name taken when it starts.                       *)
THEOREM StartFails == Spec => StartFailsOnlyOnProbe
<1>1. Inv /\ [Next]_vars =>
          [sysmodule' = "failed" /\ owner # "nobody" =>
              sysmodule = "failed" \/ pc = "unregister" \/ refused]_vars
  <2> SUFFICES ASSUME Inv, Next, sysmodule' = "failed", owner # "nobody"
               PROVE  sysmodule = "failed" \/ pc = "unregister" \/ refused
    OBVIOUS
  <2>1. CASE ServerInit BY <2>1 DEF ServerInit, Inv, TypeOK, Names
  <2>2. CASE ~ServerInit
    BY <2>2 DEF Next, Overlay, Sysmodule, Load, Probe, Unregister, Initialize,
                GetService, GetServiceRefused, GetAPIVersion, ExitServices, Unload, Serve,
                ServerClose, ServerUnregister, Die, Reset
  <2> QED BY <2>1, <2>2
<1> QED BY Invariance, <1>1, PTL DEF Spec, StartFailsOnlyOnProbe
================================================================================
