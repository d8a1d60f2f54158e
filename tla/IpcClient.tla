------------------------------- MODULE IpcClient -------------------------------
(***************************************************************************)
(* The overlay as it finds and leaves the sysmodule: the probe, reference  *)
(* count and session of the client library, the name both sides register   *)
(* with the service manager, and a sysmodule that starts and ends at any   *)
(* time.  There is one overlay at a time and each load is a new process.   *)
(***************************************************************************)
EXTENDS Integers

CONSTANT RefLimit   \* values of the reference count, a size_t
ASSUME RefLimitAssumption == RefLimit \in Nat \ {0, 1}

VARIABLES
    owner,      \* who registered the service name
    sysmodule,  \* what the sysmodule is doing
    compatible, \* it has the overlay's API version
    pc, gui,    \* of the overlay: what it does next, what it shows
    g_refCnt,
    session,    \* g_sysheloSrv; "dead" when the other end is closed
    \* history:
    ended,      \* the sysmodule ended since the last probe
    refused     \* in the last probe a call that the state of the name allows failed

overlayVars == <<pc, gui, g_refCnt>>
past == <<ended, refused>>
vars == <<owner, sysmodule, compatible, overlayVars, session, past>>

Init ==
    /\ owner = "nobody"
    /\ sysmodule = "off"
    /\ compatible = TRUE
    /\ pc = "off"
    /\ gui = "none"
    /\ g_refCnt = 0
    /\ session = "none"
    /\ ended = FALSE
    /\ refused = FALSE
-------------------------------------------------------------------------------
(* The overlay: loadInitialGui and exitServices                            *)

Step(at, next) == pc = at /\ pc' = next
Show(g) == gui' = g

Load ==
    /\ Step("off", "probe")
    /\ UNCHANGED <<owner, sysmodule, compatible, gui, g_refCnt, session, past>>

(* sysheloIpcRunning takes any failure to register the name for a          *)
(* sysmodule that runs: the name is taken, or the service manager refuses  *)
(* the call for a reason of its own.                                       *)
Probe ==
    /\ \/ /\ owner = "nobody"
          /\ Step("probe", "unregister")
          /\ owner' = "overlay"
          /\ refused' = FALSE
       \/ /\ Step("probe", "initialize")
          /\ refused' = (owner = "nobody")
          /\ UNCHANGED owner
    /\ ended' = FALSE
    /\ UNCHANGED <<sysmodule, compatible, gui, g_refCnt, session>>

(* mutants of Unregister: the name stays until the process ends; the       *)
(* answer of the probe is ignored                                          *)
UnregisterNot ==
    /\ Step("unregister", "shown")
    /\ Show("notRunning")
    /\ UNCHANGED <<owner, sysmodule, compatible, g_refCnt, session, past>>

UnregisterIgnored ==
    /\ Step("unregister", "initialize")
    /\ owner' = "nobody"
    /\ UNCHANGED <<sysmodule, compatible, gui, g_refCnt, session, past>>

(* Nobody looks at what smUnregisterService returns. *)
Unregister ==
    /\ Step("unregister", "shown")
    /\ \/ owner' = "nobody" /\ UNCHANGED refused
       \/ refused' = TRUE /\ UNCHANGED owner
    /\ Show("notRunning")
    /\ UNCHANGED <<sysmodule, compatible, g_refCnt, session, ended>>

Initialize ==
    /\ Step("initialize", IF session = "none" THEN "getService" ELSE "version")
    /\ g_refCnt' = (g_refCnt + 1) % RefLimit
    /\ UNCHANGED <<owner, sysmodule, compatible, gui, session, past>>

(* mutants of IpcExit: compares before the decrement; counts in an int *)
IpcExitPostfix ==
    /\ g_refCnt' = (g_refCnt - 1) % RefLimit
    /\ session' = IF g_refCnt = 0 THEN "none" ELSE session
IpcExitSigned ==
    /\ g_refCnt' = g_refCnt - 1
    /\ session' = IF g_refCnt' = 0 THEN "none" ELSE session

IpcExit ==
    /\ g_refCnt' = (g_refCnt - 1) % RefLimit
    /\ session' = IF g_refCnt' = 0 THEN "none" ELSE session

(* smGetService waits while nobody has registered the name.                *)
GetService ==
    /\ owner # "nobody"
    /\ \/ /\ sysmodule \in {"starting", "serving"}
          /\ Step("getService", "version")
          /\ session' = "open"
          /\ UNCHANGED <<gui, g_refCnt>>
       \/ /\ Step("getService", "shown")     \* no session left, port closed
          /\ IpcExit
          /\ Show("noConnection")
    /\ UNCHANGED <<owner, sysmodule, compatible, past>>

(* It may also fail where it would have to wait; nothing says it will.     *)
GetServiceRefused ==
    /\ owner = "nobody"
    /\ Step("getService", "shown")
    /\ IpcExit
    /\ Show("noConnection")
    /\ UNCHANGED <<owner, sysmodule, compatible, past>>

(* A request waits until it is answered or its session dies.               *)
GetAPIVersion ==
    /\ Step("version", "shown")
    /\ \/ /\ session = "open" /\ sysmodule = "serving"
          /\ Show(IF compatible THEN "main" ELSE "incompatible")
       \/ session = "dead" /\ Show("noConnection")
    /\ UNCHANGED <<owner, sysmodule, compatible, g_refCnt, session, past>>

(* Called whatever was shown. *)
ExitServices ==
    /\ Step("shown", "exited")
    /\ IpcExit
    /\ UNCHANGED <<owner, sysmodule, compatible, gui, past>>

(* The process ends, and the system gives back what it still has. *)
Unload ==
    /\ Step("exited", "off")
    /\ Show("none")
    /\ g_refCnt' = 0
    /\ session' = "none"
    /\ owner' = IF owner = "overlay" THEN "nobody" ELSE owner
    /\ UNCHANGED <<sysmodule, compatible, past>>
-------------------------------------------------------------------------------
(* The sysmodule: its service name and its sessions                        *)

SessionDies == session' = IF session = "open" THEN "dead" ELSE session

(* ipcServerInit; a name that is taken, or a call that fails for another   *)
(* reason, is an exception and the end.                                    *)
ServerInit ==
    /\ sysmodule = "off"
    /\ \/ /\ owner = "nobody"
          /\ owner' = "sysmodule"
          /\ sysmodule' = "starting"
          /\ compatible' \in BOOLEAN
       \/ /\ sysmodule' = "failed"
          /\ UNCHANGED <<owner, compatible>>
    /\ UNCHANGED <<overlayVars, session, past>>

Serve ==
    /\ sysmodule = "starting"
    /\ sysmodule' = "serving"
    /\ UNCHANGED <<owner, compatible, overlayVars, session, past>>

(* mutant of ServerClose: the count is cleared before the loop *)
ServerCloseNone ==
    /\ sysmodule = "serving"
    /\ sysmodule' = "closing"
    /\ UNCHANGED <<owner, compatible, overlayVars, session, past>>

(* ipcServerExit closes all handles, the port's among them, ...            *)
ServerClose ==
    /\ sysmodule = "serving"
    /\ sysmodule' = "closing"
    /\ SessionDies
    /\ UNCHANGED <<owner, compatible, overlayVars, past>>

(* ... and then gives up the name. *)
ServerUnregister ==
    /\ sysmodule = "closing"
    /\ sysmodule' = "off"
    /\ owner' = "nobody"
    /\ ended' = TRUE
    /\ UNCHANGED <<compatible, overlayVars, session, refused>>

(* An exception, or a crash: the system closes and unregisters for it.     *)
Die ==
    /\ sysmodule \in {"starting", "serving", "closing"}
    /\ sysmodule' = "off"
    /\ owner' = "nobody"
    /\ ended' = TRUE
    /\ SessionDies
    /\ UNCHANGED <<compatible, overlayVars, refused>>

(* It is started again after a failed start. *)
Reset ==
    /\ sysmodule = "failed"
    /\ sysmodule' = "off"
    /\ UNCHANGED <<owner, compatible, overlayVars, session, past>>

Overlay == Probe \/ Unregister \/ Initialize \/ GetService \/ GetAPIVersion
Sysmodule == Serve \/ ServerUnregister
Next ==
    \/ Load \/ Overlay \/ GetServiceRefused \/ ExitServices \/ Unload
    \/ ServerInit \/ Sysmodule \/ ServerClose \/ Die \/ Reset

Spec == Init /\ [][Next]_vars
(* The overlay runs while it has something to do, and a sysmodule that has *)
(* begun to start or to end goes on.  Nobody has to start or end it.       *)
FairSpec == Spec /\ WF_vars(Overlay) /\ WF_vars(Sysmodule)
-------------------------------------------------------------------------------
(* Types: the reference count never leaves its range. *)
TypeOK ==
    /\ owner \in {"nobody", "sysmodule", "overlay"}
    /\ sysmodule \in {"off", "starting", "serving", "closing", "failed"}
    /\ compatible \in BOOLEAN
    /\ pc \in {"off", "probe", "unregister", "initialize", "getService",
               "version", "shown", "exited"}
    /\ gui \in {"none", "notRunning", "noConnection", "incompatible", "main"}
    /\ g_refCnt \in 0 .. RefLimit - 1
    /\ session \in {"none", "open", "dead"}
    /\ ended \in BOOLEAN
    /\ refused \in BOOLEAN

(* Whatever was shown, no session is left when exitServices is over, and   *)
(* while there is one it is counted: the decrement without an increment    *)
(* of a failed start wraps the count, which must never keep or close a     *)
(* session it should not (sysheloIpcInitialize, sysheloIpcExit).           *)
SessionIsCounted ==
    /\ pc = "exited" => session = "none"
    /\ session # "none" => g_refCnt = 1

(* A sysmodule that starts finds its name taken only while an overlay is   *)
(* between the two calls of its probe, or could not give the name back     *)
(* (sysheloIpcRunning, ipcServerInit).                                     *)
StartFailsOnlyOnProbe ==
    [][sysmodule' = "failed" /\ owner # "nobody" =>
          sysmodule = "failed" \/ pc = "unregister" \/ refused]_vars

(* The overlay asks for a service that is not there, and hangs until it    *)
(* comes, only if the sysmodule ended after the probe found it, or if the  *)
(* probe took a refusal of the service manager for a sysmodule that runs   *)
(* (sysheloIpcRunning, loadInitialGui).                                    *)
WaitsHaveAReason ==
    pc \in {"initialize", "getService"} /\ owner = "nobody" => ended \/ refused

(* Every overlay comes to show something, however the sysmodule starts and *)
(* ends meanwhile, or waits for a service that is not there                *)
(* (loadInitialGui).                                                       *)
OverlayDecides ==
    pc = "probe" ~> \/ pc = "shown"
                    \/ pc = "getService" /\ owner = "nobody"
================================================================================
