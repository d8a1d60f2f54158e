-------------------------------- MODULE SysHelo --------------------------------
(***************************************************************************)
(* The sysmodule as a whole: main() with the tick of HeloManager, the IPC  *)
(* thread of IpcService with its command handlers, and the configuration   *)
(* object (module Config) both of them use.                                *)
(*                                                                         *)
(* mainPc and ipcPc say what each thread does next.  Around them: clients  *)
(* that send commands, applications that start and exit, and someone who   *)
(* edits the configuration file.                                           *)
(***************************************************************************)
EXTENDS Integers

CONSTANTS
    main, ipc,      \* the two threads
    QLaunch,        \* PROCESS_MANAGEMENT_QLAUNCH_TID
    Programs,       \* program ids of applications
    NoProgram,      \* no application is running
    ServicesFail,   \* whether calls to system services may fail
    MaxRequests,    \* bound on the commands clients send
    MaxLaunches,    \* bound on the applications started
    MaxEdits,       \* bound on the edits of the file
    NsPerMs,        \* 1000000
    \* of module Config:
    NoThread, Keys, SignBit, DefaultValue, Requests, NoFile, Files, Stamps, Faults

ASSUME ThreadAssumption == main # ipc /\ NoThread \notin {main, ipc}
ASSUME BoundAssumption ==
    MaxRequests \in Nat /\ MaxLaunches \in Nat /\ MaxEdits \in Nat
ASSUME UnitAssumption == NsPerMs \in Nat \ {0}

VARIABLES
    \* of module Config:
    alive, configMutex, loaded, mtime, configValues, enabled,
    call, arg, disk, stamp, temp, view, told, published, ready, save,
    \* main thread and HeloManager
    mainPc,
    running,        \* HeloManager::running
    contextMutex,
    context,        \* [enabled, applicationId]
    changed,        \* hasChanged of RefreshContext
    pid,            \* pid and applicationId of the lookup under way
    appId,
    mounted,        \* the SD card
    \* IpcService
    ipcPc,
    cancel,         \* svcCancelSynchronization was called on the thread
    \* the system
    foreground,     \* program of the running application, or NoProgram
    process,        \* the process id it has, or that the last one had
    requests, edits,    \* sent and made so far
    \* history, read by properties only
    seen,           \* ids that were in the foreground since the lookup began
    contextTold,    \* context most recently handed to a client
    contextSet,     \* context when contextMutex was last released
    exitAsked, enabledAsked,  \* what clients asked for: a BOOLEAN, a set
    caught,         \* an exception ended the main loop
    cut             \* a save was under way when the card was unmounted

configVars  == <<alive, configMutex, loaded, mtime, configValues, enabled,
                 call, arg, disk, stamp, temp, view, told, published, ready, save>>
managerVars == <<running, contextMutex, context, changed, pid, appId>>
worldVars   == <<foreground, process, requests, edits>>
historyVars == <<seen, contextTold, contextSet, exitAsked, enabledAsked,
                 caught, cut>>
vars == <<configVars, mainPc, managerVars, mounted, ipcPc, cancel, worldVars, historyVars>>

Cfg == INSTANCE Config WITH Threads <- {main, ipc}

(* The same object without a card: file operations fail *)
Unmounted == INSTANCE Config WITH Threads <- {main, ipc}, Faults <- Faults \cup {"io"}

ASSUME ConfigAssumption ==
    /\ Cfg!SignBitAssumption /\ Cfg!DefaultAssumption /\ Cfg!RequestsAssumption
    /\ Cfg!FilesAssumption /\ Cfg!StampsAssumption /\ Cfg!FaultsAssumption

Foreground == IF foreground = NoProgram THEN QLaunch ELSE foreground
-------------------------------------------------------------------------------
Init ==
    /\ Cfg!Init
    /\ mainPc = "init"
    /\ running = FALSE
    /\ contextMutex = NoThread
    /\ context = [enabled |-> FALSE, applicationId |-> 0]
    /\ changed = FALSE
    /\ pid = 0
    /\ appId = 0
    /\ mounted = FALSE
    /\ ipcPc = "none"
    /\ cancel = FALSE
    /\ foreground = NoProgram
    /\ process = 0
    /\ requests = 0
    /\ edits = 0
    /\ seen = {}
    /\ contextTold = context
    /\ contextSet = context
    /\ exitAsked = FALSE
    /\ enabledAsked = {}
    /\ caught = FALSE
    /\ cut = FALSE
-------------------------------------------------------------------------------
(* Main thread: start                                                      *)

Main(at, next) == mainPc = at /\ mainPc' = next

(* A Result that is not a success throws; main logs it and ends.  The IPC  *)
(* thread is not stopped, and the scoped_lock of Tick is released over a   *)
(* context that RefreshContext may have changed in part.                   *)
Throw(at) ==
    /\ ServicesFail
    /\ Main(at, "unmount")
    /\ caught' = TRUE
    /\ contextMutex' = IF contextMutex = main THEN NoThread ELSE contextMutex
    /\ UNCHANGED <<configVars, running, context, changed, pid, appId, mounted, ipcPc, cancel,
                   worldVars, seen, contextTold, contextSet, exitAsked, enabledAsked, cut>>

(* Failing to mount the card is fatal. *)
FilesInitialize ==
    /\ \/ Main("init", "boot") /\ mounted' = TRUE
       \/ ServicesFail /\ Main("init", "done") /\ UNCHANGED mounted
    /\ UNCHANGED <<configVars, managerVars, ipcPc, cancel, worldVars, historyVars>>

(* ProcessManagement::Initialize and WaitForQLaunch *)
ProcessManagementInitialize ==
    \/ /\ Main("boot", "manager")
       /\ UNCHANGED <<configVars, managerVars, mounted, ipcPc, cancel, worldVars, historyVars>>
    \/ Throw("boot")

NewHeloManager ==
    /\ Main("manager", "service")
    /\ Cfg!Construct
    /\ UNCHANGED <<managerVars, mounted, ipcPc, cancel, worldVars, historyVars>>

(* mutant of NewIpcService: starts the thread at once *)
NewIpcServiceRunning ==
    /\ Main("service", "enable")
    /\ ipcPc' = "wait"
    /\ UNCHANGED <<configVars, managerVars, mounted, cancel, worldVars, historyVars>>

NewIpcService ==
    \/ /\ Main("service", "enable")
       /\ UNCHANGED <<configVars, managerVars, mounted, ipcPc, cancel, worldVars, historyVars>>
    \/ Throw("service")

(* heloMgr->SetRunning(true); heloMgr->GetConfig()->SetEnabled(true) *)
Enable ==
    /\ Main("enable", "start")
    /\ running' = TRUE
    /\ Cfg!SetEnabled(main, TRUE)
    /\ UNCHANGED <<contextMutex, context, changed, pid, appId, mounted,
                   ipcPc, cancel, worldVars, historyVars>>

(* ipcSrv->SetRunning(true) *)
StartIpc ==
    \/ /\ Main("start", "loop")
       /\ ipcPc' = "wait"
       /\ UNCHANGED <<configVars, managerVars, mounted, cancel, worldVars, historyVars>>
    \/ Throw("start")
-------------------------------------------------------------------------------
(* Main thread: the loop and HeloManager::Tick                             *)

While ==
    /\ Main("loop", IF running THEN "tick" ELSE "stop")
    /\ UNCHANGED <<configVars, managerVars, mounted, ipcPc, cancel, worldVars, historyVars>>

(* Tick takes contextMutex; RefreshContext copies the atomic flag. *)
TickBegin ==
    /\ Main("tick", "getPid")
    /\ contextMutex = NoThread
    /\ contextMutex' = main
    /\ context' = [context EXCEPT !.enabled = enabled]
    /\ changed' = (context.enabled # enabled)
    /\ UNCHANGED <<configVars, running, pid, appId, mounted, ipcPc, cancel,
                   worldVars, historyVars>>

(* pmdmntGetApplicationProcessId *)
GetApplicationProcessId ==
    \/ /\ \/ /\ Main("getPid", "assign")
             /\ foreground = NoProgram
             /\ appId' = QLaunch
             /\ UNCHANGED pid
          \/ /\ Main("getPid", "getTid")
             /\ foreground # NoProgram
             /\ pid' = process
             /\ UNCHANGED appId
       /\ seen' = {Foreground}
       /\ UNCHANGED <<configVars, running, contextMutex, context, changed, mounted, ipcPc,
                      cancel, worldVars, contextTold, contextSet, exitAsked, enabledAsked, caught,
                      cut>>
    \/ Throw("getPid")

(* mutant of GetProgramId: does not look at the result of the call *)
GetProgramIdUnchecked ==
    /\ Main("getTid", "assign")
    /\ appId' = IF foreground # NoProgram /\ process = pid THEN foreground ELSE 0
    /\ UNCHANGED <<configVars, running, contextMutex, context, changed, pid, mounted,
                   ipcPc, cancel, worldVars, historyVars>>

(* mutant of GetProgramId: hands out the process id *)
GetProgramIdConfused ==
    /\ Main("getTid", "assign")
    /\ appId' = pid
    /\ UNCHANGED <<configVars, running, contextMutex, context, changed, pid, mounted,
                   ipcPc, cancel, worldVars, historyVars>>

(* pminfoGetProgramId: the process may have gone since *)
GetProgramId ==
    \/ /\ Main("getTid", "assign")
       /\ appId' = IF foreground # NoProgram /\ process = pid THEN foreground ELSE QLaunch
       /\ UNCHANGED <<configVars, running, contextMutex, context, changed, pid, mounted,
                      ipcPc, cancel, worldVars, historyVars>>
    \/ Throw("getTid")

(* mutant of SetApplicationId: only while enabled *)
SetApplicationIdIfEnabled ==
    /\ Main("assign", IF changed THEN "settle" ELSE "refresh")
    /\ context' = IF context.enabled THEN [context EXCEPT !.applicationId = appId] ELSE context
    /\ changed' = FALSE
    /\ seen' = {}
    /\ UNCHANGED <<configVars, running, contextMutex, pid, appId, mounted, ipcPc, cancel,
                   worldVars, contextTold, contextSet, exitAsked, enabledAsked, caught, cut>>

(* A change of the context makes Tick wait once more and skip the refresh. *)
SetApplicationId ==
    /\ Main("assign", IF changed \/ appId # context.applicationId THEN "settle" ELSE "refresh")
    /\ context' = [context EXCEPT !.applicationId = appId]
    /\ changed' = FALSE
    /\ pid' = 0
    /\ appId' = 0
    /\ seen' = {}
    /\ UNCHANGED <<configVars, running, contextMutex, mounted, ipcPc, cancel,
                   worldVars, contextTold, contextSet, exitAsked, enabledAsked, caught, cut>>

(* mutant of Nanoseconds: computed in a narrower type than uint64_t *)
NanosecondsNarrow(ms) == (ms * NsPerMs) % (SignBit \div 2)

(* What svcSleepThread is called with for an interval: the product of two  *)
(* uint64_t, converted to its argument, an s64.                            *)
Nanoseconds(ms) ==
    LET product == (ms * NsPerMs) % (2 * SignBit)
    IN  IF product < SignBit THEN product ELSE product - 2 * SignBit

(* WaitForNextTick inside RefreshContext: the thread reads the interval    *)
(* and sleeps, holding contextMutex.                                       *)
Settle ==
    /\ Main("settle", "release")
    /\ Cfg!GetConfigValues(main)
    /\ UNCHANGED <<managerVars, mounted, ipcPc, cancel, worldVars, historyVars>>

(* config->Refresh, with Load *)
Refresh ==
    /\ \/ Main("refresh", "release") /\ Cfg!RefreshHit(main)
       \/ Main("refresh", "load") /\ Cfg!RefreshBegin(main)
       \/ Main("load", "load") /\ Cfg!LoadStat(main)
       \/ Main("load", "release") /\ (Cfg!LoadMissing(main) \/ Cfg!LoadBrowse(main))
    /\ UNCHANGED <<managerVars, mounted, ipcPc, cancel, worldVars, historyVars>>

(* mutant of TickEnd: returns without unlocking *)
TickEndLocked ==
    /\ Main("release", "wait")
    /\ contextSet' = context
    /\ UNCHANGED <<configVars, managerVars, mounted, ipcPc, cancel,
                   worldVars, seen, contextTold, exitAsked, enabledAsked, caught, cut>>

TickEnd ==
    /\ Main("release", "wait")
    /\ contextMutex' = NoThread
    /\ contextSet' = context
    /\ UNCHANGED <<configVars, running, context, changed, pid, appId, mounted, ipcPc,
                   cancel, worldVars, seen, contextTold, exitAsked, enabledAsked, caught, cut>>

WaitForNextTick ==
    /\ Main("wait", "loop")
    /\ Cfg!GetConfigValues(main)
    /\ UNCHANGED <<managerVars, mounted, ipcPc, cancel, worldVars, historyVars>>
-------------------------------------------------------------------------------
(* Main thread: shutdown                                                   *)

(* mutant of StopIpc: only waits *)
StopIpcQuietly ==
    /\ Main("stop", "join")
    /\ UNCHANGED <<configVars, managerVars, mounted, ipcPc, cancel, worldVars, historyVars>>

(* ipcSrv->SetRunning(false): svcCancelSynchronization, then ... *)
StopIpc ==
    /\ Main("stop", "join")
    /\ cancel' = TRUE
    /\ UNCHANGED <<configVars, managerVars, mounted, ipcPc, worldVars, historyVars>>

(* mutant of JoinIpc: does not wait for the thread *)
JoinIpcNot ==
    /\ Main("join", "delete")
    /\ UNCHANGED <<configVars, managerVars, mounted, ipcPc, cancel, worldVars, historyVars>>

(* ... threadWaitForExit, then ~IpcService *)
JoinIpc ==
    /\ Main("join", "delete")
    /\ ipcPc = "exited"
    /\ UNCHANGED <<configVars, managerVars, mounted, ipcPc, cancel, worldVars, historyVars>>

(* ~IpcService asserts that threadClose and ipcServerExit succeed.  An     *)
(* exception out of a destructor ends the process on the spot.             *)
DestructorThrows ==
    /\ ServicesFail
    /\ Main("join", "done")
    /\ ipcPc = "exited"
    /\ Cfg!Forget
    /\ UNCHANGED <<managerVars, mounted, ipcPc, cancel, worldVars, historyVars>>

(* delete heloMgr; ProcessManagement::Exit *)
DeleteHeloManager ==
    /\ Main("delete", "unmount")
    /\ Cfg!Destroy
    /\ UNCHANGED <<managerVars, mounted, ipcPc, cancel, worldVars, historyVars>>

FilesExit ==
    /\ Main("unmount", "return")
    /\ mounted' = FALSE
    /\ cut' = (ipcPc = "saving")
    /\ UNCHANGED <<configVars, managerVars, ipcPc, cancel, worldVars,
                   seen, contextTold, contextSet, exitAsked, enabledAsked, caught>>

(* The process ends, and with it the IPC thread, whatever it was doing. *)
Return ==
    /\ Main("return", "done")
    /\ Cfg!Forget
    /\ ipcPc' = "exited"
    /\ UNCHANGED <<managerVars, mounted, cancel, worldVars, historyVars>>
-------------------------------------------------------------------------------
(* IPC thread: one command at a time                                       *)

Ipc(at, next) == ipcPc = at /\ ipcPc' = next

Commands == {"context", "exit", "enable", "disable", "get", "set"}

ReceiveRequest ==
    /\ requests < MaxRequests
    /\ \E command \in Commands : Ipc("wait", command)
    /\ requests' = requests + 1
    /\ UNCHANGED <<configVars, mainPc, managerVars, mounted, cancel,
                   foreground, process, edits, historyVars>>

(* The wait of ipcServerProcess ends with Cancelled. *)
Cancelled ==
    /\ cancel
    /\ Ipc("wait", "exited")
    /\ UNCHANGED <<configVars, mainPc, managerVars, mounted, cancel, worldVars, historyVars>>

(* mutant of GetCurrentContext: copies without the lock *)
GetCurrentContextUnlocked ==
    /\ Ipc("context", "wait")
    /\ contextTold' = context
    /\ UNCHANGED <<configVars, mainPc, managerVars, mounted, cancel, worldVars,
                   seen, contextSet, exitAsked, enabledAsked, caught, cut>>

GetCurrentContext ==
    /\ Ipc("context", "wait")
    /\ contextMutex = NoThread
    /\ contextTold' = context
    /\ UNCHANGED <<configVars, mainPc, managerVars, mounted, cancel, worldVars,
                   seen, contextSet, exitAsked, enabledAsked, caught, cut>>

Exit ==
    /\ Ipc("exit", "wait")
    /\ running' = FALSE
    /\ exitAsked' = TRUE
    /\ UNCHANGED <<configVars, mainPc, contextMutex, context, changed, pid, appId, mounted,
                   cancel, worldVars, seen, contextTold, contextSet, enabledAsked, caught, cut>>

SetEnabled ==
    /\ \E b \in BOOLEAN :
          /\ Ipc(IF b THEN "enable" ELSE "disable", "wait")
          /\ Cfg!SetEnabled(ipc, b)
          /\ enabledAsked' = {b}
    /\ UNCHANGED <<mainPc, managerVars, mounted, cancel, worldVars,
                   seen, contextTold, contextSet, exitAsked, caught, cut>>

(* mutant of HasLoaded: does not look at the answer *)
HasLoadedIgnored ==
    /\ \/ Ipc("get", "getValues")
       \/ Ipc("set", "setValues")
    /\ Cfg!HasLoaded(ipc)
    /\ UNCHANGED <<mainPc, managerVars, mounted, cancel, worldVars, historyVars>>

(* GetConfigValues and SetConfigValues first ask HasLoaded and may answer  *)
(* ConfigNotLoaded; what follows is another critical section.              *)
HasLoaded ==
    /\ \/ Ipc("get", IF loaded THEN "getValues" ELSE "wait")
       \/ Ipc("set", IF loaded THEN "setValues" ELSE "wait")
    /\ Cfg!HasLoaded(ipc)
    /\ UNCHANGED <<mainPc, managerVars, mounted, cancel, worldVars, historyVars>>

GetConfigValues ==
    /\ Ipc("getValues", "wait")
    /\ Cfg!GetConfigValues(ipc)
    /\ UNCHANGED <<mainPc, managerVars, mounted, cancel, worldVars, historyVars>>

(* Without the card nothing can be opened, removed or renamed, and what is *)
(* still written to a file that was open may be lost.  ini_putsection      *)
(* reports only a file it could not open.                                  *)
PutSectionUnmounted ==
    \/ Unmounted!SaveFailed(ipc)
    \/ Unmounted!FillFile(ipc)
    \/ Unmounted!CopyToTemp(ipc)
    \/ UNCHANGED <<disk, stamp, temp>> /\ (Unmounted!RemoveOld(ipc) \/ Unmounted!RenameTemp(ipc))

PutSection == IF mounted THEN Cfg!PutSection(ipc) ELSE PutSectionUnmounted

SetConfigValues ==
    /\ \/ Ipc("setValues", "saving") /\ \E vals \in Requests : Cfg!SetConfigValues(ipc, vals)
       \/ /\ PutSection \/ Cfg!Apply(ipc)
          /\ Ipc("saving", IF call'[ipc] = "idle" THEN "wait" ELSE "saving")
    /\ UNCHANGED <<mainPc, managerVars, mounted, cancel, worldVars, historyVars>>
-------------------------------------------------------------------------------
(* The system                                                              *)

Launch ==
    /\ foreground = NoProgram
    /\ process < MaxLaunches
    /\ foreground' \in Programs
    /\ process' = process + 1
    /\ seen' = IF mainPc = "getTid" THEN seen \cup {foreground'} ELSE seen
    /\ UNCHANGED <<configVars, mainPc, managerVars, mounted, ipcPc, cancel, requests, edits,
                   contextTold, contextSet, exitAsked, enabledAsked, caught, cut>>

Quit ==
    /\ foreground # NoProgram
    /\ foreground' = NoProgram
    /\ seen' = IF mainPc = "getTid" THEN seen \cup {QLaunch} ELSE seen
    /\ UNCHANGED <<configVars, mainPc, managerVars, mounted, ipcPc, cancel, process,
                   requests, edits, contextTold, contextSet, exitAsked, enabledAsked, caught, cut>>

Edit ==
    /\ edits < MaxEdits
    /\ edits' = edits + 1
    /\ Cfg!Edit
    /\ UNCHANGED <<mainPc, managerVars, mounted, ipcPc, cancel, foreground, process,
                   requests, historyVars>>

Terminated == mainPc = "done" /\ UNCHANGED vars

MainStep ==
    \/ FilesInitialize \/ ProcessManagementInitialize \/ NewHeloManager \/ NewIpcService
    \/ Enable \/ StartIpc
    \/ While \/ TickBegin \/ GetApplicationProcessId \/ GetProgramId \/ SetApplicationId
    \/ Settle \/ Refresh \/ TickEnd \/ WaitForNextTick
    \/ StopIpc \/ JoinIpc \/ DestructorThrows \/ DeleteHeloManager \/ FilesExit \/ Return

IpcStep ==
    mainPc # "done" /\
    (Cancelled \/ GetCurrentContext \/ Exit \/ SetEnabled \/ HasLoaded
       \/ GetConfigValues \/ SetConfigValues)

World == mainPc # "done" /\ (ReceiveRequest \/ Launch \/ Quit \/ Edit)

Next == MainStep \/ IpcStep \/ World \/ Terminated

Spec == Init /\ [][Next]_vars

(* Both threads keep running.  The IPC thread needs strong fairness where  *)
(* it waits for a mutex that main takes again and again: the kernel hands  *)
(* a contended mutex to the thread waiting for it.                         *)
FairSpec == Spec /\ WF_vars(MainStep) /\ SF_vars(IpcStep)
-------------------------------------------------------------------------------
MainPcs == {"init", "boot", "manager", "service", "enable", "start", "loop", "tick",
            "getPid", "getTid", "assign", "settle", "refresh", "load", "release", "wait",
            "stop", "join", "delete", "unmount", "return", "done"}
IpcPcs == Commands \cup {"none", "wait", "getValues", "setValues", "saving", "exited"}
AppIds == Programs \cup {QLaunch, 0}
Contexts == [enabled : BOOLEAN, applicationId : AppIds]

(* The type of every variable of this module (Config has its own). *)
TypeOK ==
    /\ mainPc \in MainPcs
    /\ running \in BOOLEAN
    /\ contextMutex \in {main, NoThread}
    /\ context \in Contexts
    /\ changed \in BOOLEAN
    /\ pid \in 0 .. MaxLaunches
    /\ appId \in AppIds
    /\ mounted \in BOOLEAN
    /\ ipcPc \in IpcPcs
    /\ cancel \in BOOLEAN
    /\ foreground \in Programs \cup {NoProgram}
    /\ process \in 0 .. MaxLaunches
    /\ requests \in 0 .. MaxRequests
    /\ edits \in 0 .. MaxEdits
    /\ seen \subseteq AppIds
    /\ contextTold \in Contexts
    /\ contextSet \in Contexts
    /\ exitAsked \in BOOLEAN
    /\ enabledAsked \subseteq BOOLEAN
    /\ caught \in BOOLEAN
    /\ cut \in BOOLEAN

IpcActive == ipcPc \notin {"none", "exited"}

(* Nothing is taken away under the IPC thread, in the middle of a command  *)
(* or not.  The manager and the configuration it has bare pointers to      *)
(* exist as long as it may use them; and on every way out of main() but an *)
(* exception nobody is reading or writing files when the card is unmounted. *)
NoUseAfterFree ==
    /\ IpcActive => alive
    /\ ~mounted /\ ~caught => ~IpcActive /\ \A t \in {main, ipc} : call[t] = "idle"

(* A client may send Exit or SetEnabled as soon as the service runs: what  *)
(* main() sets at start never overwrites it.                               *)
RequestsOutliveStart ==
    /\ exitAsked => ~running
    /\ enabledAsked # {} /\ alive => enabledAsked = {enabled}

(* GetConfigValues and SetConfigValues go on only after the file was read, *)
(* and the "yes" of HasLoaded still holds when they get the mutex again:   *)
(* nobody is given, or saves over, the defaults of an unread file.         *)
CommandsAfterLoad ==
    ipcPc \in {"getValues", "setValues", "saving"} =>
        ready /\ (configMutex = NoThread => loaded)

(* The id Tick is about to publish is one that was in the foreground       *)
(* during the lookup, although process and program are asked for apart.    *)
AppIdWasForeground == mainPc = "assign" => appId \in seen

(* GetCurrentContext answers the context as a whole tick left it, never    *)
(* one a Tick is half way through changing -- but for one case: an         *)
(* exception in the lookup of the application ends the tick and unlocks    *)
(* the context, and until the process ends clients may be told the new     *)
(* enabled flag beside the application of the tick before.                 *)
ContextAnswersAreWhole ==
    [][contextTold' # contextTold =>
          \/ contextTold' = contextSet
          \/ caught /\ contextTold'.applicationId = contextSet.applicationId]_vars

(* Whatever file was read, list was saved or default restored before the   *)
(* main loop looks, each of its two sleeps lasts the whole interval, and   *)
(* that is never zero: the loop does not spin.  The exception is exactly   *)
(* an interval whose nanoseconds do not fit a signed 64-bit number, which  *)
(* passes as valid: svcSleepThread is then given less, or a negative       *)
(* number, and does not sleep.                                             *)
TickPaces ==
    [][Settle \/ WaitForNextTick =>
          \A k \in Keys : LET ms == view'[k] IN
             /\ ms > 0
             /\ IF ms * NsPerMs < SignBit THEN Nanoseconds(ms) = ms * NsPerMs
                                          ELSE Nanoseconds(ms) < ms * NsPerMs]_vars

(* An accepted Exit ends the process, whatever the threads are doing: no   *)
(* mutex, no cancelled wait and no join is waited for in vain.             *)
ExitEnds == exitAsked ~> mainPc = "done"

(* Every command received is answered (or the process ends), although Tick *)
(* holds contextMutex over a sleep and Load holds configMutex over I/O.    *)
CommandsAreAnswered == []<>(ipcPc \in {"none", "wait", "exited"})

(* Once applications and clients come to rest, the context shows the       *)
(* enabled flag and the application as they are.                           *)
ContextCatchesUp ==
    \/ <>(mainPc = "done")
    \/ <>[](context = [enabled |-> enabled, applicationId |-> Foreground])

(* Once they come to rest, the values in memory are those of the file,     *)
(* although a tick that changes the context skips the refresh.  (A file    *)
(* that is missing, then saved, then deleted before the next refresh goes  *)
(* unnoticed: its time reads 0 before and after.)                          *)
FileIsLoaded ==
    \/ <>(mainPc = "done")
    \/ <>[](disk # NoFile => configValues = Cfg!Browse(disk))
================================================================================
