----------------------------- MODULE SysHeloProofs -----------------------------
(***************************************************************************)
(* Proofs about the process of SysHelo, for any number of commands,        *)
(* applications and edits, any keys and values, whatever fails.            *)
(*                                                                         *)
(* The order of start and shutdown is what the safety of the two threads   *)
(* rests on: Places says which thread can be where together, Calls what    *)
(* each of them then does with the configuration object.                   *)
(***************************************************************************)
EXTENDS SysHelo, TLAPS

Start == {"init", "boot", "manager"}
Prepared == {"service", "enable", "start"}
InTick == {"getPid", "getTid", "assign", "settle", "refresh", "load", "release"}
InLoop == {"loop", "tick", "wait", "stop", "join"} \cup InTick

Places ==
    /\ mainPc \in Start => ~alive /\ ipcPc = "none"
    /\ mainPc \in Prepared => alive /\ ipcPc = "none"
    /\ mainPc \in InLoop => alive
    /\ mainPc = "delete" => ipcPc = "exited"
    /\ mainPc \in {"unmount", "return"} => caught \/ (~alive /\ ipcPc = "exited")
    /\ mainPc = "done" => ~IpcActive
    /\ ~mounted => mainPc \in {"init", "return", "done"}
    /\ IpcActive => alive

Calls ==
    /\ call \in [{main, ipc} -> Cfg!Calls]
    /\ IF mainPc = "load" THEN configMutex = main /\ call[main] \in {"load", "browse"}
                          ELSE call[main] = "idle"
    /\ IF ipcPc = "saving" THEN configMutex = ipc /\ call[ipc] # "idle"
                           ELSE call[ipc] = "idle"

(* Only a load makes "loaded" false, and it makes it true before it        *)
(* unlocks.                                                                *)
Reads ==
    /\ loaded => ready
    /\ ready /\ call[main] # "browse" => loaded
    /\ ipcPc \in {"getValues", "setValues", "saving"} => ready

Asked ==
    /\ enabled \in BOOLEAN
    /\ ipcPc = "none" => ~exitAsked /\ enabledAsked = {}
    /\ RequestsOutliveStart

(* The context differs from what a tick left only inside the next tick, or  *)
(* after an exception in it; the application only from "assign" on.        *)
Holding ==
    /\ contextMutex = IF mainPc \in InTick THEN main ELSE NoThread
    /\ contextMutex = NoThread /\ ~caught => contextSet = context
    /\ mainPc \notin InTick \ {"getPid", "getTid", "assign"}
          => context.applicationId = contextSet.applicationId
    /\ caught => mainPc \in {"unmount", "return", "done"}

(* Whatever program the lookup finds, it was in the foreground; if it finds *)
(* the process gone, the menu was.                                         *)
LookUp ==
    /\ mainPc = "getTid" =>
           /\ Foreground \in seen
           /\ foreground = NoProgram \/ process # pid => QLaunch \in seen
    /\ AppIdWasForeground

Inv == TypeOK /\ Places /\ Calls /\ Reads /\ Asked /\ Holding /\ LookUp

(* The steps that leave the configuration object alone *)
ConfigUntouched ==
    \/ FilesInitialize \/ ProcessManagementInitialize \/ NewIpcService \/ StartIpc
    \/ While \/ TickBegin \/ GetApplicationProcessId \/ GetProgramId \/ SetApplicationId
    \/ TickEnd \/ StopIpc \/ JoinIpc \/ FilesExit
    \/ Cancelled \/ GetCurrentContext \/ Exit
    \/ ReceiveRequest \/ Launch \/ Quit \/ UNCHANGED vars

ConfigTouched ==
    \/ NewHeloManager \/ Enable \/ Settle \/ Refresh \/ WaitForNextTick
    \/ DeleteHeloManager \/ DestructorThrows \/ Return
    \/ SetEnabled \/ HasLoaded \/ GetConfigValues \/ SetConfigValues \/ Edit

LEMMA NextSplit == [Next]_vars => ConfigUntouched \/ ConfigTouched
BY DEF Next, MainStep, IpcStep, World, Terminated, ConfigUntouched, ConfigTouched

LEMMA Untouched == ConfigUntouched => UNCHANGED configVars
BY DEF ConfigUntouched, FilesInitialize, ProcessManagementInitialize, NewIpcService,
       StartIpc, While, TickBegin, GetApplicationProcessId, GetProgramId, SetApplicationId,
       TickEnd, StopIpc, JoinIpc, FilesExit, Cancelled, GetCurrentContext, Exit,
       ReceiveRequest, Launch, Quit, Throw, vars
-------------------------------------------------------------------------------
LEMMA InitInv == Init => Inv
<1>. SUFFICES ASSUME Init PROVE Inv
  OBVIOUS
<1>1. TypeOK
  <2>1. context \in Contexts
    BY DEF Init, Contexts, AppIds
  <2>2. /\ pid \in 0 .. MaxLaunches /\ process \in 0 .. MaxLaunches
        /\ requests \in 0 .. MaxRequests /\ edits \in 0 .. MaxEdits
    BY BoundAssumption DEF Init
  <2>3. contextTold \in Contexts /\ contextSet \in Contexts
    BY <2>1 DEF Init
  <2>4. appId \in AppIds /\ seen \subseteq AppIds /\ enabledAsked \subseteq BOOLEAN
    BY DEF Init, AppIds
  <2>5. mainPc \in MainPcs /\ ipcPc \in IpcPcs
    BY DEF Init, MainPcs, IpcPcs
  <2>. QED BY <2>1, <2>2, <2>3, <2>4, <2>5 DEF Init, TypeOK
<1>2. Places /\ Asked /\ Holding /\ LookUp
  BY ThreadAssumption DEF Init, Cfg!Init, Places, Asked, Holding, LookUp, Start, Prepared,
     InLoop, InTick, IpcActive, RequestsOutliveStart, AppIdWasForeground
<1>3. Calls /\ Reads
  BY DEF Init, Cfg!Init, Calls, Reads, Cfg!Calls
<1>. QED BY <1>1, <1>2, <1>3 DEF Inv
-------------------------------------------------------------------------------
(* A step of ini_putsection goes on to the next file operation, or unlocks *)
(* and returns: with the card or without.                                  *)
LEMMA PutSectionSteps ==
    PutSection =>
        /\ UNCHANGED <<alive, enabled, loaded, mtime, configValues, view, told, published,
                       ready, save>>
        /\ call[ipc] # "idle"
        /\ \/ /\ configMutex' = NoThread
              /\ call' = [call EXCEPT ![ipc] = "idle"]
           \/ /\ configMutex' = configMutex
              /\ \E at \in Cfg!Calls \ {"idle"} : call' = [call EXCEPT ![ipc] = at]
<1>. USE DEF Cfg!Calls
<1>1. CASE Cfg!PutSection(ipc)
  BY <1>1 DEF Cfg!PutSection, Cfg!SaveFailed, Cfg!CreateFile, Cfg!FillFile, Cfg!OpenTemp,
     Cfg!CopyToTemp, Cfg!RemoveOld, Cfg!RenameTemp, Cfg!Unlock, Cfg!Goto, Cfg!memory,
     Cfg!history
<1>2. CASE PutSectionUnmounted
  BY <1>2 DEF PutSectionUnmounted, Unmounted!SaveFailed, Unmounted!FillFile,
     Unmounted!CopyToTemp, Unmounted!RemoveOld, Unmounted!RenameTemp, Unmounted!Unlock,
     Unmounted!Goto, Unmounted!memory, Unmounted!history
<1>. QED BY <1>1, <1>2 DEF PutSection

(* How the configuration object moves under the steps that call it *)
LEMMA CallSteps ==
    ASSUME Calls
    PROVE  /\ Enable \/ Settle \/ WaitForNextTick \/ SetEnabled \/ HasLoaded \/ GetConfigValues
                \/ Edit
              => UNCHANGED <<alive, call, configMutex, loaded, ready>>
           /\ Refresh => UNCHANGED <<alive, enabled>> /\ call'[ipc] = call[ipc]
                          /\ call' \in [{main, ipc} -> Cfg!Calls]
           /\ SetConfigValues => UNCHANGED <<alive, enabled, loaded, ready>>
                                  /\ call'[main] = call[main]
                                  /\ call' \in [{main, ipc} -> Cfg!Calls]
           /\ NewHeloManager => alive' /\ UNCHANGED <<call, configMutex, loaded, ready, enabled>>
           /\ DeleteHeloManager \/ DestructorThrows \/ Return
              => /\ ~alive' /\ ~loaded' /\ ~ready' /\ ~enabled'
                 /\ call' = [t \in {main, ipc} |-> "idle"]
<1>. USE ThreadAssumption DEF Calls, Cfg!Calls
<1>1. Enable \/ Settle \/ WaitForNextTick \/ SetEnabled \/ HasLoaded \/ GetConfigValues \/ Edit
      => UNCHANGED <<alive, call, configMutex, loaded, ready>>
  BY DEF Enable, Settle, WaitForNextTick, SetEnabled, HasLoaded, GetConfigValues, Edit,
         Cfg!SetEnabled, Cfg!GetConfigValues, Cfg!HasLoaded, Cfg!Edit,
         Cfg!memory, Cfg!callers, Cfg!history
<1>2. Refresh => UNCHANGED <<alive, enabled>> /\ call'[ipc] = call[ipc]
                 /\ call' \in [{main, ipc} -> Cfg!Calls]
  <2>1. Cfg!RefreshHit(main) => UNCHANGED <<alive, enabled, call>>
    BY DEF Cfg!RefreshHit, Cfg!vars, Cfg!memory, Cfg!callers
  <2>2. Cfg!RefreshBegin(main) => UNCHANGED <<alive, enabled>>
                                   /\ call' = [call EXCEPT ![main] = "load"]
    BY DEF Cfg!RefreshBegin, Cfg!Lock
  <2>3. Cfg!LoadStat(main) => UNCHANGED <<alive, enabled>>
                               /\ call' = [call EXCEPT ![main] = "browse"]
    BY DEF Cfg!LoadStat, Cfg!Goto
  <2>4. Cfg!LoadMissing(main) \/ Cfg!LoadBrowse(main)
        => UNCHANGED <<alive, enabled>> /\ call' = [call EXCEPT ![main] = "idle"]
    BY DEF Cfg!LoadMissing, Cfg!LoadBrowse, Cfg!Loaded, Cfg!Unlock
  <2>. QED BY <2>1, <2>2, <2>3, <2>4 DEF Refresh
<1>3. SetConfigValues => UNCHANGED <<alive, enabled, loaded, ready>>
                         /\ call'[main] = call[main]
                         /\ call' \in [{main, ipc} -> Cfg!Calls]
  <2>1. ASSUME NEW vals, Cfg!SetConfigValues(ipc, vals)
        PROVE  UNCHANGED <<alive, enabled, loaded, ready>>
               /\ \E at \in Cfg!Calls : call' = [call EXCEPT ![ipc] = at]
    BY <2>1 DEF Cfg!SetConfigValues, Cfg!Lock
  <2>2. PutSection => UNCHANGED <<alive, enabled, loaded, ready>>
                      /\ \E at \in Cfg!Calls : call' = [call EXCEPT ![ipc] = at]
    BY PutSectionSteps
  <2>3. Cfg!Apply(ipc) => UNCHANGED <<alive, enabled, loaded, ready>>
                          /\ call' = [call EXCEPT ![ipc] = "idle"]
    BY DEF Cfg!Apply, Cfg!Unlock
  <2>. QED BY <2>1, <2>2, <2>3 DEF SetConfigValues
<1>4. NewHeloManager => alive' /\ UNCHANGED <<call, configMutex, loaded, ready, enabled>>
  BY DEF NewHeloManager, Cfg!Construct, Cfg!callers, Cfg!history
<1>5. DeleteHeloManager \/ DestructorThrows \/ Return
      => /\ ~alive' /\ ~loaded' /\ ~ready' /\ ~enabled'
         /\ call' = [t \in {main, ipc} |-> "idle"]
  BY DEF DeleteHeloManager, DestructorThrows, Return, Cfg!Destroy, Cfg!Forget
<1>. QED BY <1>1, <1>2, <1>3, <1>4, <1>5
-------------------------------------------------------------------------------
LEMMA PlacesNext == Places /\ Calls /\ [Next]_vars => Places'
<1>. SUFFICES ASSUME Places, Calls, [Next]_vars PROVE Places'
  OBVIOUS
<1>. USE DEF Places, Start, Prepared, InLoop, InTick, IpcActive, Main, Ipc
<1>1. CASE ConfigUntouched
  <2>. UNCHANGED alive
    BY <1>1, Untouched DEF configVars
  <2>1. CASE FilesInitialize
    BY <2>1 DEF FilesInitialize, historyVars
  <2>2. CASE \E at \in {"boot", "service", "start", "getPid", "getTid"} : Throw(at)
    BY <2>2 DEF Throw
  <2>3. CASE ProcessManagementInitialize \/ NewIpcService \/ StartIpc
    BY <2>2, <2>3 DEF ProcessManagementInitialize, NewIpcService, StartIpc, historyVars
  <2>4. CASE While \/ TickBegin
    BY <2>4 DEF While, TickBegin, historyVars
  <2>5. CASE GetApplicationProcessId \/ GetProgramId
    BY <2>2, <2>5 DEF GetApplicationProcessId, GetProgramId, historyVars
  <2>6. CASE SetApplicationId \/ TickEnd
    BY <2>6 DEF SetApplicationId, TickEnd
  <2>7. CASE StopIpc \/ JoinIpc \/ FilesExit
    BY <2>7 DEF StopIpc, JoinIpc, FilesExit, historyVars
  <2>8. CASE Cancelled \/ GetCurrentContext \/ Exit
    BY <2>8 DEF Cancelled, GetCurrentContext, Exit, historyVars
  <2>9. CASE ReceiveRequest
    BY <2>9 DEF ReceiveRequest, Commands, historyVars
  <2>10. CASE Launch \/ Quit \/ UNCHANGED vars
    BY <2>10 DEF Launch, Quit, vars, historyVars
  <2>. QED BY <1>1, <2>1, <2>3, <2>4, <2>5, <2>6, <2>7, <2>8, <2>9, <2>10 DEF ConfigUntouched
<1>2. CASE ConfigTouched
  <2>1. CASE Enable \/ Settle \/ WaitForNextTick \/ Refresh
    <3>1. UNCHANGED alive
      BY <2>1, CallSteps
    <3>. QED BY <2>1, <3>1 DEF Enable, Settle, WaitForNextTick, Refresh, historyVars
  <2>2. CASE SetEnabled \/ HasLoaded \/ GetConfigValues \/ SetConfigValues \/ Edit
    <3>1. UNCHANGED alive
      BY <2>2, CallSteps
    <3>. QED BY <2>2, <3>1 DEF SetEnabled, HasLoaded, GetConfigValues, SetConfigValues, Edit,
                              historyVars
  <2>3. CASE NewHeloManager
    BY <2>3, CallSteps DEF NewHeloManager, historyVars
  <2>4. CASE DeleteHeloManager \/ DestructorThrows \/ Return
    BY <2>4, CallSteps DEF DeleteHeloManager, DestructorThrows, Return, historyVars
  <2>. QED BY <1>2, <2>1, <2>2, <2>3, <2>4 DEF ConfigTouched
<1>. QED BY <1>1, <1>2, NextSplit

LEMMA CallsNext == Places /\ Calls /\ [Next]_vars => Calls'
<1>. SUFFICES ASSUME Places, Calls, [Next]_vars PROVE Calls'
  OBVIOUS
<1>. USE ThreadAssumption DEF Calls, Main, Ipc
<1>1. CASE ConfigUntouched
  <2>1. UNCHANGED <<call, configMutex>>
    BY <1>1, Untouched DEF configVars
  <2>2. /\ mainPc = "load" <=> mainPc' = "load"
        /\ ipcPc = "saving" <=> ipcPc' = "saving"
    <3>1. CASE \/ FilesInitialize \/ ProcessManagementInitialize \/ NewIpcService \/ StartIpc
               \/ While \/ TickBegin
      BY <3>1 DEF FilesInitialize, ProcessManagementInitialize, NewIpcService, StartIpc,
                  While, TickBegin, Throw, Places, Start, Prepared
    <3>2. CASE \/ GetApplicationProcessId \/ GetProgramId \/ SetApplicationId
               \/ TickEnd \/ StopIpc \/ JoinIpc \/ FilesExit
      BY <3>2 DEF GetApplicationProcessId, GetProgramId, SetApplicationId,
                  TickEnd, StopIpc, JoinIpc, FilesExit, Throw
    <3>3. CASE \/ Cancelled \/ GetCurrentContext \/ Exit
               \/ ReceiveRequest \/ Launch \/ Quit \/ UNCHANGED vars
      BY <3>3 DEF Cancelled, GetCurrentContext, Exit, ReceiveRequest, Commands,
                  Launch, Quit, vars
    <3>. QED BY <1>1, <3>1, <3>2, <3>3 DEF ConfigUntouched
  <2>. QED BY <2>1, <2>2
<1>2. CASE ConfigTouched
  <2>1. CASE Enable \/ Settle \/ WaitForNextTick \/ SetEnabled \/ HasLoaded
             \/ GetConfigValues \/ Edit
    <3>1. UNCHANGED <<call, configMutex>>
      BY <2>1, CallSteps
    <3>2. /\ mainPc = "load" <=> mainPc' = "load"
          /\ ipcPc = "saving" <=> ipcPc' = "saving"
      BY <2>1 DEF Enable, Settle, WaitForNextTick, SetEnabled, HasLoaded, GetConfigValues, Edit
    <3>. QED BY <3>1, <3>2
  <2>2. CASE Refresh
    <3>1. call'[ipc] = call[ipc] /\ call' \in [{main, ipc} -> Cfg!Calls] /\ UNCHANGED ipcPc
      BY <2>2, CallSteps DEF Refresh
    <3>2. CASE Main("refresh", "release") /\ Cfg!RefreshHit(main)
      BY <3>1, <3>2 DEF Cfg!RefreshHit, Cfg!vars, Cfg!memory, Cfg!callers
    <3>3. CASE Main("refresh", "load") /\ Cfg!RefreshBegin(main)
      BY <3>1, <3>3 DEF Cfg!RefreshBegin, Cfg!Lock
    <3>4. CASE Main("load", "load") /\ Cfg!LoadStat(main)
      BY <3>1, <3>4 DEF Cfg!LoadStat, Cfg!Goto
    <3>5. CASE Main("load", "release") /\ (Cfg!LoadMissing(main) \/ Cfg!LoadBrowse(main))
      BY <3>1, <3>5 DEF Cfg!LoadMissing, Cfg!LoadBrowse, Cfg!Loaded, Cfg!Unlock
    <3>. QED BY <2>2, <3>2, <3>3, <3>4, <3>5 DEF Refresh
  <2>3. CASE SetConfigValues
    <3>1. call'[main] = call[main] /\ call' \in [{main, ipc} -> Cfg!Calls] /\ UNCHANGED mainPc
      BY <2>3, CallSteps DEF SetConfigValues
    <3>2. ASSUME NEW vals, Ipc("setValues", "saving"), Cfg!SetConfigValues(ipc, vals)
          PROVE  Calls'
      BY <3>1, <3>2 DEF Cfg!SetConfigValues, Cfg!Lock
    <3>3. CASE /\ PutSection \/ Cfg!Apply(ipc)
               /\ Ipc("saving", IF call'[ipc] = "idle" THEN "wait" ELSE "saving")
      <4>1. mainPc # "load"
        BY <3>3
      <4>2. call'[ipc] # "idle" => UNCHANGED configMutex
        BY <3>3, PutSectionSteps DEF Cfg!Apply, Cfg!Unlock
      <4>. QED BY <3>1, <3>3, <4>1, <4>2
    <3>. QED BY <2>3, <3>2, <3>3 DEF SetConfigValues
  <2>4. CASE NewHeloManager
    BY <2>4, CallSteps DEF NewHeloManager
  <2>5. CASE DeleteHeloManager \/ DestructorThrows \/ Return
    <3>1. mainPc' # "load" /\ ipcPc' # "saving"
      BY <2>5 DEF DeleteHeloManager, DestructorThrows, Return, Places
    <3>. QED BY <2>5, <3>1, CallSteps DEF Cfg!Calls
  <2>. QED BY <1>2, <2>1, <2>2, <2>3, <2>4, <2>5 DEF ConfigTouched
<1>. QED BY <1>1, <1>2, NextSplit

LEMMA ReadsNext == Places /\ Calls /\ Reads /\ [Next]_vars => Reads'
<1>. SUFFICES ASSUME Places, Calls, Reads, [Next]_vars PROVE Reads'
  OBVIOUS
<1>. USE ThreadAssumption DEF Reads, Main, Ipc
<1>1. CASE ConfigUntouched
  <2>1. UNCHANGED <<call, loaded, ready>>
    BY <1>1, Untouched DEF configVars
  <2>2. ipcPc' \in {"getValues", "setValues", "saving"} => ipcPc' = ipcPc
    <3>1. CASE \/ FilesInitialize \/ ProcessManagementInitialize \/ NewIpcService \/ StartIpc
               \/ While \/ TickBegin
      BY <3>1 DEF FilesInitialize, ProcessManagementInitialize, NewIpcService, StartIpc,
                  While, TickBegin, Throw
    <3>2. CASE \/ GetApplicationProcessId \/ GetProgramId \/ SetApplicationId
               \/ TickEnd \/ StopIpc \/ JoinIpc \/ FilesExit
      BY <3>2 DEF GetApplicationProcessId, GetProgramId, SetApplicationId,
                  TickEnd, StopIpc, JoinIpc, FilesExit, Throw
    <3>3. CASE \/ Cancelled \/ GetCurrentContext \/ Exit
               \/ ReceiveRequest \/ Launch \/ Quit \/ UNCHANGED vars
      BY <3>3 DEF Cancelled, GetCurrentContext, Exit, ReceiveRequest, Commands,
                  Launch, Quit, vars
    <3>. QED BY <1>1, <3>1, <3>2, <3>3 DEF ConfigUntouched
  <2>. QED BY <2>1, <2>2
<1>2. CASE ConfigTouched
  <2>1. CASE Enable \/ Settle \/ WaitForNextTick \/ Edit
    <3>1. UNCHANGED <<call, loaded, ready>>
      BY <2>1, CallSteps
    <3>2. UNCHANGED ipcPc
      BY <2>1 DEF Enable, Settle, WaitForNextTick, Edit
    <3>. QED BY <3>1, <3>2
  <2>2. CASE SetEnabled \/ HasLoaded \/ GetConfigValues
    BY <2>2, CallSteps DEF SetEnabled, HasLoaded, GetConfigValues
  <2>3. CASE Refresh
    <3>1. UNCHANGED ipcPc
      BY <2>3 DEF Refresh
    <3>2. CASE Cfg!RefreshHit(main)
      BY <3>1, <3>2 DEF Cfg!RefreshHit, Cfg!vars, Cfg!memory, Cfg!callers, Cfg!history
    <3>3. CASE Cfg!RefreshBegin(main)
      BY <3>1, <3>3 DEF Cfg!RefreshBegin, Cfg!Lock, Cfg!history, Calls
    <3>4. CASE Cfg!LoadStat(main)
      BY <3>1, <3>4 DEF Cfg!LoadStat, Cfg!Goto, Cfg!history, Calls
    <3>5. CASE Cfg!LoadMissing(main) \/ Cfg!LoadBrowse(main)
      BY <3>1, <3>5 DEF Cfg!LoadMissing, Cfg!LoadBrowse, Cfg!Loaded
    <3>. QED BY <2>3, <3>2, <3>3, <3>4, <3>5 DEF Refresh
  <2>4. CASE SetConfigValues
    BY <2>4, CallSteps DEF SetConfigValues
  <2>5. CASE NewHeloManager
    BY <2>5, CallSteps DEF NewHeloManager
  <2>6. CASE DeleteHeloManager \/ DestructorThrows \/ Return
    <3>1. ipcPc' = "exited"
      BY <2>6 DEF DeleteHeloManager, DestructorThrows, Return, Places
    <3>. QED BY <2>6, <3>1, CallSteps
  <2>. QED BY <1>2, <2>1, <2>2, <2>3, <2>4, <2>5, <2>6 DEF ConfigTouched
<1>. QED BY <1>1, <1>2, NextSplit

(* Enable, which sets both flags, comes before the first command can; the   *)
(* flags change again only with what clients ask for, or with the object.  *)
LEMMA AskedNext == Places /\ Calls /\ Asked /\ [Next]_vars => Asked'
<1>. SUFFICES ASSUME Places, Calls, Asked, [Next]_vars PROVE Asked'
  OBVIOUS
<1>. USE DEF Asked, RequestsOutliveStart, Main, Ipc
<1>1. CASE ConfigUntouched /\ ~Exit
  <2>1. UNCHANGED <<alive, enabled>>
    BY <1>1, Untouched DEF configVars
  <2>2. UNCHANGED <<running, exitAsked, enabledAsked>> /\ (ipcPc' = "none" => ipcPc = "none")
    <3>1. CASE \/ FilesInitialize \/ ProcessManagementInitialize \/ NewIpcService \/ StartIpc
               \/ While \/ TickBegin
      BY <3>1 DEF FilesInitialize, ProcessManagementInitialize, NewIpcService, StartIpc,
                  While, TickBegin, Throw, managerVars, historyVars
    <3>2. CASE \/ GetApplicationProcessId \/ GetProgramId \/ SetApplicationId
               \/ TickEnd \/ StopIpc \/ JoinIpc \/ FilesExit
      BY <3>2 DEF GetApplicationProcessId, GetProgramId, SetApplicationId,
                  TickEnd, StopIpc, JoinIpc, FilesExit, Throw, managerVars, historyVars
    <3>3. CASE \/ Cancelled \/ GetCurrentContext
               \/ ReceiveRequest \/ Launch \/ Quit \/ UNCHANGED vars
      BY <3>3 DEF Cancelled, GetCurrentContext, ReceiveRequest, Commands,
                  Launch, Quit, vars, managerVars, historyVars
    <3>. QED BY <1>1, <3>1, <3>2, <3>3 DEF ConfigUntouched
  <2>. QED BY <2>1, <2>2
<1>2. CASE Exit
  BY <1>2 DEF Exit, configVars
<1>3. CASE Enable
  BY <1>3 DEF Enable, Cfg!SetEnabled, Places, Prepared, historyVars
<1>4. CASE SetEnabled
  <2>1. PICK b \in BOOLEAN : enabled' = b /\ enabledAsked' = {b}
    BY <1>4 DEF SetEnabled, Cfg!SetEnabled
  <2>2. UNCHANGED <<running, exitAsked>> /\ ipcPc' = "wait"
    BY <1>4 DEF SetEnabled, managerVars
  <2>. QED BY <2>1, <2>2
<1>5. CASE Settle \/ WaitForNextTick \/ HasLoaded \/ GetConfigValues \/ Edit
  BY <1>5 DEF Settle, WaitForNextTick, HasLoaded, GetConfigValues, Edit, Cfg!GetConfigValues,
     Cfg!HasLoaded, Cfg!Edit, Cfg!memory, managerVars, historyVars
<1>6. CASE Refresh \/ SetConfigValues
  <2>1. UNCHANGED <<alive, enabled>>
    BY <1>6, CallSteps
  <2>. QED BY <1>6, <2>1 DEF Refresh, SetConfigValues, managerVars, historyVars
<1>7. CASE NewHeloManager
  BY <1>7, CallSteps DEF NewHeloManager, Places, Start, managerVars, historyVars
<1>8. CASE DeleteHeloManager \/ DestructorThrows \/ Return
  <2>1. ~alive' /\ enabled' = FALSE
    BY <1>8 DEF DeleteHeloManager, DestructorThrows, Return, Cfg!Destroy, Cfg!Forget
  <2>2. UNCHANGED <<running, exitAsked, enabledAsked>> /\ ipcPc' = "exited"
    BY <1>8 DEF DeleteHeloManager, DestructorThrows, Return, Places, managerVars, historyVars
  <2>. QED BY <2>1, <2>2
<1>. QED BY <1>1, <1>2, <1>3, <1>4, <1>5, <1>6, <1>7, <1>8, NextSplit DEF ConfigTouched

(* The main thread holds contextMutex for a whole tick, and nobody else     *)
(* changes the context.                                                    *)
LEMMA HoldingNext == TypeOK /\ Holding /\ [Next]_vars => Holding'
<1>. SUFFICES ASSUME TypeOK, Holding, [Next]_vars PROVE Holding'
  OBVIOUS
<1>. USE ThreadAssumption DEF Holding, InTick, Main, managerVars, historyVars
<1>1. CASE \/ FilesInitialize \/ NewHeloManager \/ Enable \/ While
           \/ StopIpc \/ JoinIpc \/ DeleteHeloManager \/ DestructorThrows \/ FilesExit \/ Return
  <2>1. UNCHANGED <<contextMutex, context, contextSet, caught>>
    BY <1>1 DEF FilesInitialize, NewHeloManager, Enable, While, StopIpc, JoinIpc,
       DeleteHeloManager, DestructorThrows, FilesExit, Return
  <2>2. /\ mainPc \notin InTick /\ mainPc' \notin InTick
        /\ caught => mainPc' \in {"return", "done"}
    BY <1>1 DEF FilesInitialize, NewHeloManager, Enable, While, StopIpc, JoinIpc,
       DeleteHeloManager, DestructorThrows, FilesExit, Return
  <2>. QED BY <2>1, <2>2
<1>2. CASE \E at \in {"boot", "service", "start", "getPid", "getTid"} : Throw(at)
  BY <1>2 DEF Throw
<1>3. CASE ProcessManagementInitialize \/ NewIpcService \/ StartIpc
  BY <1>2, <1>3 DEF ProcessManagementInitialize, NewIpcService, StartIpc
<1>4. CASE GetApplicationProcessId \/ GetProgramId
  BY <1>2, <1>4 DEF GetApplicationProcessId, GetProgramId
<1>5. CASE TickBegin \/ SetApplicationId \/ TickEnd
  <2>1. DOMAIN context = {"enabled", "applicationId"}
    BY DEF TypeOK, Contexts
  <2>. QED BY <1>5, <2>1 DEF TickBegin, SetApplicationId, TickEnd
<1>6. CASE Settle \/ Refresh \/ WaitForNextTick
  BY <1>6 DEF Settle, Refresh, WaitForNextTick
<1>7. CASE \/ Cancelled \/ GetCurrentContext \/ Exit \/ SetEnabled \/ HasLoaded
           \/ GetConfigValues \/ SetConfigValues
  BY <1>7 DEF Cancelled, GetCurrentContext, Exit, SetEnabled, HasLoaded,
     GetConfigValues, SetConfigValues
<1>8. CASE ReceiveRequest \/ Launch \/ Quit \/ Edit \/ UNCHANGED vars
  BY <1>8 DEF ReceiveRequest, Launch, Quit, Edit, vars
<1>. QED BY <1>1, <1>3, <1>4, <1>5, <1>6, <1>7, <1>8, NextSplit
         DEF ConfigUntouched, ConfigTouched

LEMMA LookUpNext == LookUp /\ [Next]_vars => LookUp'
<1>. SUFFICES ASSUME LookUp, [Next]_vars PROVE LookUp'
  OBVIOUS
<1>. USE DEF LookUp, AppIdWasForeground, Foreground, Main
<1>1. CASE \/ FilesInitialize \/ ProcessManagementInitialize \/ NewHeloManager \/ NewIpcService
           \/ Enable \/ StartIpc \/ While \/ StopIpc \/ JoinIpc \/ DeleteHeloManager
           \/ DestructorThrows \/ FilesExit \/ Return \/ TickBegin \/ SetApplicationId \/ TickEnd
           \/ Settle \/ Refresh \/ WaitForNextTick
  <2>1. mainPc' \notin {"getTid", "assign"}
    BY <1>1 DEF FilesInitialize, ProcessManagementInitialize, NewHeloManager, NewIpcService,
       Enable, StartIpc, While, StopIpc, JoinIpc, DeleteHeloManager, DestructorThrows,
       FilesExit, Return, TickBegin, SetApplicationId, TickEnd, Settle, Refresh, WaitForNextTick,
       Throw
  <2>. QED BY <2>1
<1>2. CASE GetApplicationProcessId
  BY <1>2 DEF GetApplicationProcessId, Throw, worldVars
<1>3. CASE GetProgramId
  BY <1>3 DEF GetProgramId, Throw, historyVars
<1>4. CASE Launch
  BY <1>4 DEF Launch, managerVars
<1>5. CASE Quit
  BY <1>5 DEF Quit, managerVars
<1>6. CASE \/ Cancelled \/ GetCurrentContext \/ Exit \/ SetEnabled \/ HasLoaded
           \/ GetConfigValues \/ SetConfigValues \/ ReceiveRequest \/ Edit
           \/ UNCHANGED vars
  <2>1. UNCHANGED <<mainPc, seen, pid, appId, foreground, process>>
    BY <1>6 DEF Cancelled, GetCurrentContext, Exit, SetEnabled, HasLoaded, GetConfigValues,
       SetConfigValues, ReceiveRequest, Edit, vars, managerVars, worldVars, historyVars
  <2>. QED BY <2>1
<1>. QED BY <1>1, <1>2, <1>3, <1>4, <1>5, <1>6, NextSplit DEF ConfigUntouched, ConfigTouched

LEMMA TypeNext == TypeOK /\ Asked /\ [Next]_vars => TypeOK'
<1>. SUFFICES ASSUME TypeOK, Asked, [Next]_vars PROVE TypeOK'
  OBVIOUS
<1>. USE DEF TypeOK, MainPcs, IpcPcs, Main, Ipc, managerVars, worldVars, historyVars
<1>1. CASE \/ FilesInitialize \/ NewHeloManager \/ Enable \/ While
           \/ StopIpc \/ JoinIpc \/ DeleteHeloManager \/ DestructorThrows \/ FilesExit \/ Return
  <2>1. CASE FilesInitialize
    <3>1. mainPc' \in MainPcs /\ mounted' \in BOOLEAN
      BY <2>1 DEF FilesInitialize
    <3>2. UNCHANGED <<managerVars, ipcPc, cancel, worldVars, historyVars>>
      BY <2>1 DEF FilesInitialize
    <3>. QED BY <3>1, <3>2
  <2>2. CASE NewHeloManager
    BY <2>2 DEF NewHeloManager
  <2>3. CASE Enable
    BY <2>3 DEF Enable
  <2>4. CASE While
    BY <2>4 DEF While
  <2>5. CASE StopIpc
    BY <2>5 DEF StopIpc
  <2>6. CASE JoinIpc
    BY <2>6 DEF JoinIpc
  <2>7. CASE DeleteHeloManager
    BY <2>7 DEF DeleteHeloManager
  <2>8. CASE FilesExit
    <3>1. mainPc' \in MainPcs /\ mounted' \in BOOLEAN /\ cut' \in BOOLEAN
      BY <2>8, Zenon DEF FilesExit
    <3>2. UNCHANGED <<managerVars, ipcPc, cancel, worldVars, seen, contextTold, contextSet,
                      exitAsked, enabledAsked, caught>>
      BY <2>8 DEF FilesExit
    <3>. QED BY <3>1, <3>2
  <2>9. CASE DestructorThrows \/ Return
    BY <2>9 DEF DestructorThrows, Return
  <2>. QED BY <1>1, <2>1, <2>2, <2>3, <2>4, <2>5, <2>6, <2>7, <2>8, <2>9
<1>2. CASE \E at \in {"boot", "service", "start", "getPid", "getTid"} : Throw(at)
  BY <1>2 DEF Throw
<1>3. CASE ProcessManagementInitialize \/ NewIpcService \/ StartIpc
  BY <1>2, <1>3 DEF ProcessManagementInitialize, NewIpcService, StartIpc
<1>4. CASE GetApplicationProcessId
  BY <1>2, <1>4 DEF GetApplicationProcessId, Foreground, AppIds
<1>5. CASE GetProgramId
  BY <1>2, <1>5 DEF GetProgramId, AppIds
<1>6. CASE TickBegin
  <2>1. context' \in Contexts
    BY <1>6 DEF TickBegin, Contexts, Asked
  <2>. QED BY <1>6, <2>1 DEF TickBegin
<1>7. CASE SetApplicationId
  <2>1. context' \in Contexts
    BY <1>7 DEF SetApplicationId, Contexts
  <2>2. pid' \in 0 .. MaxLaunches /\ appId' \in AppIds
    BY <1>7, BoundAssumption DEF SetApplicationId, AppIds
  <2>3. mainPc' \in MainPcs /\ contextMutex' \in {NoThread, main} /\ changed' \in BOOLEAN
    BY <1>7, Zenon DEF SetApplicationId
  <2>4. UNCHANGED <<running, mounted, ipcPc, cancel, worldVars, contextTold, contextSet, exitAsked,
                    enabledAsked, caught, cut>>
    BY <1>7 DEF SetApplicationId
  <2>5. seen' \subseteq AppIds
    BY <1>7 DEF SetApplicationId
  <2>. QED BY <2>1, <2>2, <2>3, <2>4, <2>5
<1>8. CASE Settle \/ Refresh \/ WaitForNextTick \/ TickEnd
  <2>1. CASE Settle
    BY <2>1 DEF Settle
  <2>2. CASE Refresh
    BY <2>2 DEF Refresh
  <2>3. CASE WaitForNextTick
    BY <2>3 DEF WaitForNextTick
  <2>4. CASE TickEnd
    BY <2>4 DEF TickEnd
  <2>. QED BY <1>8, <2>1, <2>2, <2>3, <2>4
<1>9. CASE Cancelled \/ GetCurrentContext \/ Exit \/ HasLoaded \/ GetConfigValues
  <2>1. CASE Cancelled
    BY <2>1 DEF Cancelled
  <2>2. CASE GetCurrentContext
    BY <2>2 DEF GetCurrentContext
  <2>3. CASE Exit
    <3>1. running' \in BOOLEAN /\ exitAsked' \in BOOLEAN /\ ipcPc' \in IpcPcs
      BY <2>3 DEF Exit
    <3>2. UNCHANGED <<mainPc, contextMutex, context, changed, pid, appId, mounted, cancel,
                      worldVars, seen, contextTold, contextSet, enabledAsked, caught, cut>>
      BY <2>3 DEF Exit
    <3>. QED BY <3>1, <3>2
  <2>4. CASE HasLoaded
    BY <2>4 DEF HasLoaded
  <2>5. CASE GetConfigValues
    BY <2>5 DEF GetConfigValues
  <2>. QED BY <1>9, <2>1, <2>2, <2>3, <2>4, <2>5
<1>10. CASE SetEnabled \/ SetConfigValues
  BY <1>10 DEF SetEnabled, SetConfigValues
<1>11. CASE ReceiveRequest
  <2>1. requests' \in 0 .. MaxRequests
    BY <1>11, BoundAssumption DEF ReceiveRequest
  <2>. QED BY <1>11, <2>1 DEF ReceiveRequest
<1>12. CASE Launch
  <2>1. process' \in 0 .. MaxLaunches
    BY <1>12, BoundAssumption DEF Launch
  <2>2. seen' \subseteq AppIds /\ foreground' \in Programs
    BY <1>12 DEF Launch, AppIds
  <2>. QED BY <1>12, <2>1, <2>2 DEF Launch
<1>13. CASE Quit
  <2>1. seen' \subseteq AppIds
    BY <1>13 DEF Quit, AppIds
  <2>. QED BY <1>13, <2>1 DEF Quit
<1>14. CASE Edit
  <2>1. edits' \in 0 .. MaxEdits
    BY <1>14, BoundAssumption DEF Edit
  <2>. QED BY <1>14, <2>1 DEF Edit
<1>15. CASE UNCHANGED vars
  BY <1>15 DEF vars
<1>. QED BY <1>1, <1>3, <1>4, <1>5, <1>6, <1>7, <1>8, <1>9, <1>10, <1>11, <1>12, <1>13,
            <1>14, <1>15, NextSplit DEF ConfigUntouched, ConfigTouched
-------------------------------------------------------------------------------
LEMMA Invariance == Spec => []Inv
<1>1. Inv /\ [Next]_vars => Inv'
  BY TypeNext, PlacesNext, CallsNext, ReadsNext, AskedNext, HoldingNext, LookUpNext DEF Inv
<1>. QED BY InitInv, <1>1, PTL DEF Spec

(* Every variable of the process keeps its type. *)
THEOREM TypeCorrect == Spec => []TypeOK
<1>1. Inv => TypeOK
  BY DEF Inv
<1>. QED BY Invariance, <1>1, PTL

(* The manager and the configuration exist as long as the IPC thread may    *)
(* use them; without an exception nobody uses the card when it is          *)
(* unmounted (main, ~HeloManager, FileUtils::Exit).                        *)
THEOREM SafeShutdown == Spec => []NoUseAfterFree
<1>1. Inv => NoUseAfterFree
  <2>. SUFFICES ASSUME Inv, ~mounted, ~caught
                PROVE  ~IpcActive /\ \A t \in {main, ipc} : call[t] = "idle"
    BY DEF Inv, Places, NoUseAfterFree
  <2>1. ~IpcActive /\ mainPc # "load"
    BY DEF Inv, Places, Start, IpcActive
  <2>. QED BY <2>1 DEF Inv, Calls, IpcActive
<1>. QED BY Invariance, <1>1, PTL

(* No Exit and no SetEnabled a client sends is overwritten by the start of  *)
(* main().                                                                 *)
THEOREM RequestsKept == Spec => []RequestsOutliveStart
<1>1. Inv => RequestsOutliveStart
  BY DEF Inv, Asked
<1>. QED BY Invariance, <1>1, PTL

(* A client is given, or saves over, only values that come from a file that *)
(* was read (IpcService::GetConfigValues, SetConfigValues).                *)
THEOREM NothingBeforeLoad == Spec => []CommandsAfterLoad
<1>1. Inv => CommandsAfterLoad
  <2>. SUFFICES ASSUME Inv, ipcPc \in {"getValues", "setValues", "saving"}
                PROVE  ready /\ (configMutex = NoThread => loaded)
    BY DEF CommandsAfterLoad
  <2>1. configMutex = NoThread => call[main] # "browse"
    BY ThreadAssumption DEF Inv, Calls
  <2>. QED BY <2>1 DEF Inv, Reads
<1>. QED BY Invariance, <1>1, PTL

(* The application id of the context is never one that was not in the       *)
(* foreground during the lookup (GetCurrentApplicationId).                 *)
THEOREM LookUpRight == Spec => []AppIdWasForeground
<1>1. Inv => AppIdWasForeground
  BY DEF Inv, LookUp
<1>. QED BY Invariance, <1>1, PTL

(* Only GetCurrentContext tells a client anything. *)
LEMMA ToldByContext ==
    [Next]_vars /\ contextTold' # contextTold => GetCurrentContext
BY DEF Next, MainStep, IpcStep, World, Terminated, vars, historyVars, FilesInitialize,
   ProcessManagementInitialize, NewHeloManager, NewIpcService, Enable, StartIpc, While,
   TickBegin, GetApplicationProcessId, GetProgramId, SetApplicationId, Settle, Refresh,
   TickEnd, WaitForNextTick, StopIpc, JoinIpc, DestructorThrows, DeleteHeloManager, FilesExit,
   Return, Cancelled, Exit, SetEnabled, HasLoaded, GetConfigValues, SetConfigValues,
   ReceiveRequest, Launch, Quit, Edit, Throw

(* GetCurrentContext answers the context as a tick left it; after an        *)
(* exception that ended a tick in the middle, with the application of the  *)
(* tick before.                                                            *)
THEOREM AnswersWhole == Spec => ContextAnswersAreWhole
<1>. DEFINE Whole ==
        contextTold' # contextTold =>
            \/ contextTold' = contextSet
            \/ caught /\ contextTold'.applicationId = contextSet.applicationId
<1>1. Holding /\ [Next]_vars => Whole
  <2>. SUFFICES ASSUME Holding, GetCurrentContext PROVE Whole
    BY ToldByContext
  <2>1. contextTold' = context /\ contextMutex = NoThread
    BY DEF GetCurrentContext
  <2>2. mainPc \notin InTick
    BY <2>1, ThreadAssumption DEF Holding
  <2>. QED BY <2>1, <2>2 DEF Holding
<1>2. Inv /\ [Next]_vars => [Whole]_vars
  BY <1>1 DEF Inv
<1>. QED BY Invariance, <1>2, PTL DEF Spec, ContextAnswersAreWhole
-------------------------------------------------------------------------------
(* Who waits for whom: the thread that holds the mutex the next step takes *)
(* (configMutex in Config, contextMutex in HeloManager), or for main()     *)
(* the thread it joins.                                                    *)

Holder(mutex) == {mutex} \ {NoThread}

MainWaitsFor ==
    IF mainPc \in {"settle", "refresh", "wait"} THEN Holder(configMutex)
    ELSE IF mainPc = "tick" THEN Holder(contextMutex)
    ELSE {t \in {ipc} : mainPc = "join" /\ ipcPc # "exited"}

IpcWaitsFor ==
    IF ipcPc \in {"get", "set", "getValues", "setValues"} THEN Holder(configMutex)
    ELSE {t \in Holder(contextMutex) : ipcPc = "context"}

(* A thread that is waited for does not wait, and none waits for itself,   *)
(* although Tick takes configMutex inside contextMutex, each of them over  *)
(* a sleep or the I/O of a load.  The join waits for a thread that waits   *)
(* for no mutex of main() and whose wait for a message is cancelled.       *)
WaitsEnd ==
    /\ MainWaitsFor \subseteq {ipc}
    /\ IpcWaitsFor \subseteq {main}
    /\ MainWaitsFor = {} \/ IpcWaitsFor = {}
    /\ mainPc = "join" => cancel /\ IpcWaitsFor = {}

(* configMutex is held nowhere but in a load and in a save. *)
Holders ==
    /\ configMutex \in {main, ipc, NoThread}
    /\ configMutex = main => mainPc = "load"
    /\ configMutex = ipc => ipcPc = "saving"
    /\ mainPc = "join" => cancel

LEMMA HoldersNext == Places /\ Calls /\ Holders /\ [Next]_vars => Holders'
<1>. SUFFICES ASSUME Places, Calls, Holders, [Next]_vars PROVE Holders'
  OBVIOUS
<1>. USE ThreadAssumption DEF Holders, Calls, Main, Ipc
<1>1. CASE ConfigUntouched
  <2>1. UNCHANGED <<call, configMutex>>
    BY <1>1, Untouched DEF configVars
  <2>2. /\ mainPc = "load" => mainPc' = "load"
        /\ ipcPc = "saving" => ipcPc' = "saving"
        /\ mainPc' = "join" => cancel'
    <3>1. CASE \/ FilesInitialize \/ ProcessManagementInitialize \/ NewIpcService \/ StartIpc
               \/ While \/ TickBegin
      BY <3>1 DEF FilesInitialize, ProcessManagementInitialize, NewIpcService, StartIpc,
                  While, TickBegin, Throw, Places, Start, Prepared
    <3>2. CASE \/ GetApplicationProcessId \/ GetProgramId \/ SetApplicationId
               \/ TickEnd \/ StopIpc \/ JoinIpc \/ FilesExit
      BY <3>2 DEF GetApplicationProcessId, GetProgramId, SetApplicationId,
                  TickEnd, StopIpc, JoinIpc, FilesExit, Throw
    <3>3. CASE \/ Cancelled \/ GetCurrentContext \/ Exit
               \/ ReceiveRequest \/ Launch \/ Quit \/ UNCHANGED vars
      BY <3>3 DEF Cancelled, GetCurrentContext, Exit, ReceiveRequest, Commands,
                  Launch, Quit, vars
    <3>. QED BY <1>1, <3>1, <3>2, <3>3 DEF ConfigUntouched
  <2>. QED BY <2>1, <2>2
<1>2. CASE \/ Enable \/ Settle \/ WaitForNextTick \/ SetEnabled \/ HasLoaded
           \/ GetConfigValues \/ Edit
  <2>1. UNCHANGED <<call, configMutex>>
    BY <1>2, CallSteps
  <2>2. /\ mainPc = "load" => mainPc' = "load"
        /\ ipcPc = "saving" => ipcPc' = "saving"
        /\ mainPc' = "join" => cancel'
    BY <1>2 DEF Enable, Settle, WaitForNextTick, SetEnabled, HasLoaded, GetConfigValues, Edit
  <2>. QED BY <2>1, <2>2
<1>3. CASE Refresh
  <2>1. UNCHANGED <<ipcPc, cancel>> /\ mainPc' # "join"
    BY <1>3 DEF Refresh
  <2>2. CASE Main("refresh", "release") /\ Cfg!RefreshHit(main)
    BY <2>1, <2>2 DEF Cfg!RefreshHit, Cfg!vars, Cfg!memory, Cfg!callers
  <2>3. CASE Main("refresh", "load") /\ Cfg!RefreshBegin(main)
    BY <2>1, <2>3 DEF Cfg!RefreshBegin, Cfg!Lock
  <2>4. CASE Main("load", "load") /\ Cfg!LoadStat(main)
    BY <2>1, <2>4 DEF Cfg!LoadStat, Cfg!Goto
  <2>5. CASE Main("load", "release") /\ (Cfg!LoadMissing(main) \/ Cfg!LoadBrowse(main))
    BY <2>1, <2>5 DEF Cfg!LoadMissing, Cfg!LoadBrowse, Cfg!Loaded, Cfg!Unlock
  <2>. QED BY <1>3, <2>2, <2>3, <2>4, <2>5 DEF Refresh
<1>4. CASE SetConfigValues
  <2>1. UNCHANGED <<mainPc, cancel>>
    BY <1>4 DEF SetConfigValues
  <2>2. ASSUME NEW vals, Ipc("setValues", "saving"), Cfg!SetConfigValues(ipc, vals)
        PROVE  Holders'
    BY <2>1, <2>2 DEF Cfg!SetConfigValues, Cfg!Lock
  <2>3. CASE /\ PutSection \/ Cfg!Apply(ipc)
             /\ Ipc("saving", IF call'[ipc] = "idle" THEN "wait" ELSE "saving")
    <3>1. configMutex' # configMutex => configMutex' = NoThread
      BY <2>3, PutSectionSteps DEF Cfg!Apply, Cfg!Unlock
    <3>2. call'[ipc] = "idle" => configMutex' = NoThread
      BY <2>3, PutSectionSteps DEF Cfg!Apply, Cfg!Unlock
    <3>. QED BY <2>1, <2>3, <3>1, <3>2
  <2>. QED BY <1>4, <2>2, <2>3 DEF SetConfigValues
<1>5. CASE NewHeloManager
  BY <1>5, CallSteps DEF NewHeloManager
<1>6. CASE DeleteHeloManager \/ DestructorThrows \/ Return
  BY <1>6 DEF DeleteHeloManager, DestructorThrows, Return, Cfg!Destroy, Cfg!Forget
<1>. QED BY <1>1, <1>2, <1>3, <1>4, <1>5, <1>6, NextSplit DEF ConfigTouched

(* No deadlock over the two mutexes and the join of main(): whatever the    *)
(* interleaving, one of the two threads waits for neither mutex nor end of *)
(* the other.                                                              *)
THEOREM NoCircularWait == Spec => []WaitsEnd
<1>1. Init => Holders
  BY ThreadAssumption DEF Init, Cfg!Init, Holders
<1>2. Inv /\ Holders => WaitsEnd
  <2>. SUFFICES ASSUME Inv, Holders PROVE WaitsEnd
    OBVIOUS
  <2>. USE ThreadAssumption DEF Holders, MainWaitsFor, IpcWaitsFor, Holder
  <2>1. contextMutex = IF mainPc \in InTick THEN main ELSE NoThread
    BY DEF Inv, Holding
  <2>2. MainWaitsFor \subseteq {ipc}
    BY <2>1 DEF InTick
  <2>3. IpcWaitsFor \subseteq {main}
    BY <2>1 DEF InTick
  <2>4. MainWaitsFor # {} /\ mainPc # "join" => ipcPc = "saving"
    BY <2>1 DEF InTick
  <2>5. mainPc = "join" => IpcWaitsFor = {}
    BY <2>1 DEF InTick
  <2>. QED BY <2>2, <2>3, <2>4, <2>5 DEF WaitsEnd
<1>3. Inv /\ Holders /\ [Next]_vars => Holders'
  BY HoldersNext DEF Inv
<1>. QED BY Invariance, <1>1, <1>2, <1>3, PTL DEF Spec
-------------------------------------------------------------------------------
(* The configuration object inside the process.  An exception in main()    *)
(* ends the process while the IPC thread may be in the middle of a save,   *)
(* which is a crash to the object, and unmounts the card before that, which *)
(* makes its file operations fail: "crash" and "io" among the faults of    *)
(* Object say so.  Working is the object of a process whose card is in     *)
(* place.  (SysHelo itself never looks for the fault "crash".)             *)

Object == INSTANCE ConfigProofs
    WITH Threads <- {main, ipc}, Faults <- Faults \cup {"crash", "io"}

Working == INSTANCE ConfigProofs
    WITH Threads <- {main, ipc}, Faults <- Faults \cup {"crash"}

LEMMA ObjectAssumptions ==
    /\ Object!ThreadsAssumption /\ Object!SignBitAssumption /\ Object!DefaultAssumption
    /\ Object!RequestsAssumption /\ Object!FilesAssumption /\ Object!StampsAssumption
    /\ Object!FaultsAssumption
<1>1. Object!ThreadsAssumption
  BY ThreadAssumption DEF Object!ThreadsAssumption
<1>2. Object!SignBitAssumption /\ Object!StampsAssumption /\ Object!FaultsAssumption
  BY ConfigAssumption
  DEF Cfg!SignBitAssumption, Cfg!StampsAssumption, Cfg!FaultsAssumption,
      Object!SignBitAssumption, Object!StampsAssumption, Object!FaultsAssumption
<1>3. Object!DefaultAssumption /\ Object!RequestsAssumption /\ Object!FilesAssumption
  BY ConfigAssumption
  DEF Cfg!DefaultAssumption, Cfg!RequestsAssumption, Cfg!FilesAssumption,
      Object!DefaultAssumption, Object!RequestsAssumption, Object!FilesAssumption,
      Cfg!ValidLists, Cfg!ValueLists, Cfg!Valid, Cfg!Val, Cfg!Contents, Cfg!Text,
      Object!ValidLists, Object!ValueLists, Object!Valid, Object!Val, Object!Contents,
      Object!Text
<1>. QED BY <1>1, <1>2, <1>3

LEMMA WorkingAssumptions ==
    /\ Working!ThreadsAssumption /\ Working!SignBitAssumption /\ Working!DefaultAssumption
    /\ Working!RequestsAssumption /\ Working!FilesAssumption /\ Working!StampsAssumption
    /\ Working!FaultsAssumption
<1>1. Working!ThreadsAssumption
  BY ThreadAssumption DEF Working!ThreadsAssumption
<1>2. Working!SignBitAssumption /\ Working!StampsAssumption /\ Working!FaultsAssumption
  BY ConfigAssumption
  DEF Cfg!SignBitAssumption, Cfg!StampsAssumption, Cfg!FaultsAssumption,
      Working!SignBitAssumption, Working!StampsAssumption, Working!FaultsAssumption
<1>3. Working!DefaultAssumption /\ Working!RequestsAssumption /\ Working!FilesAssumption
  BY ConfigAssumption
  DEF Cfg!DefaultAssumption, Cfg!RequestsAssumption, Cfg!FilesAssumption,
      Working!DefaultAssumption, Working!RequestsAssumption, Working!FilesAssumption,
      Cfg!ValidLists, Cfg!ValueLists, Cfg!Valid, Cfg!Val, Cfg!Contents, Cfg!Text,
      Working!ValidLists, Working!ValueLists, Working!Valid, Working!Val, Working!Contents,
      Working!Text
<1>. QED BY <1>1, <1>2, <1>3

(* With errors of the card among the faults a file may still be            *)
(* transferred whole.                                                      *)
Whole(file) == file = NoFile \/ file = [k \in DOMAIN file |-> file[k]]

LEMMA TransferredMore ==
    ASSUME NEW file, Whole(file)
    PROVE  /\ Cfg!Transferred(file) \subseteq Object!Transferred(file)
           /\ Cfg!Transferred(file) = Working!Transferred(file)
           /\ Unmounted!Transferred(file) = Object!Transferred(file)
BY DEF Whole, Cfg!Transferred, Object!Transferred, Working!Transferred,
   Unmounted!Transferred

(* An operation of a thread is the same operation of the object, whatever   *)
(* is added to its faults.                                                 *)
LEMMA OperationsAgree ==
    ASSUME Whole(disk), NEW t \in {main, ipc}
    PROVE  /\ Cfg!RefreshHit(t) \/ Cfg!RefreshBegin(t) \/ Cfg!LoadStat(t)
                \/ Cfg!LoadMissing(t) \/ Cfg!LoadBrowse(t) => Object!Step(t) /\ Working!Step(t)
           /\ Cfg!HasLoaded(t) \/ Cfg!GetConfigValues(t) => Object!Step(t) /\ Working!Step(t)
           /\ \A b \in BOOLEAN : Cfg!SetEnabled(t, b) => Object!Step(t) /\ Working!Step(t)
           /\ \A list \in Requests :
                Cfg!SetConfigValues(t, list) => Object!Step(t) /\ Working!Step(t)
           /\ Cfg!PutSection(t) \/ Cfg!Apply(t) => Object!Step(t) /\ Working!Step(t)
<1>. USE DEF Cfg!Lock, Cfg!Unlock, Cfg!Goto, Cfg!vars, Cfg!memory, Cfg!callers, Cfg!card,
             Cfg!history, Object!Lock, Object!Unlock, Object!Goto, Object!vars,
             Object!memory, Object!callers, Object!card, Object!history,
             Working!Lock, Working!Unlock, Working!Goto, Working!vars,
             Working!memory, Working!callers, Working!card, Working!history
<1>1. Cfg!RefreshHit(t) \/ Cfg!RefreshBegin(t) => Object!Refresh(t) /\ Working!Refresh(t)
  BY DEF Cfg!RefreshHit, Cfg!RefreshBegin, Cfg!UpToDate, Cfg!CheckModificationTime,
         Object!Refresh, Object!RefreshHit, Object!RefreshBegin, Object!UpToDate,
         Object!CheckModificationTime, Working!Refresh, Working!RefreshHit,
         Working!RefreshBegin, Working!UpToDate, Working!CheckModificationTime
<1>2. Cfg!LoadStat(t) => Object!LoadStat(t) /\ Working!LoadStat(t)
  BY DEF Cfg!LoadStat, Cfg!CheckModificationTime, Object!LoadStat,
         Object!CheckModificationTime, Working!LoadStat, Working!CheckModificationTime
<1>3. Cfg!LoadMissing(t) => Object!LoadMissing(t) /\ Working!LoadMissing(t)
  BY DEF Cfg!LoadMissing, Cfg!Loaded, Cfg!CheckModificationTime,
         Object!LoadMissing, Object!Loaded, Object!CheckModificationTime,
         Working!LoadMissing, Working!Loaded, Working!CheckModificationTime
<1>4. Cfg!LoadBrowse(t) => Object!LoadBrowse(t) /\ Working!LoadBrowse(t)
  <2>. SUFFICES ASSUME NEW file \in Cfg!Transferred(disk), Cfg!LoadBrowse(t),
                       Cfg!Loaded(t, Cfg!Browse(file))
                PROVE  Object!LoadBrowse(t) /\ Working!LoadBrowse(t)
    BY DEF Cfg!LoadBrowse
  <2>1. file \in Object!Transferred(disk) /\ file \in Working!Transferred(disk)
    BY TransferredMore
  <2>2. /\ Object!Browse(file) = Cfg!Browse(file)
        /\ Working!Browse(file) = Cfg!Browse(file)
    BY DEF Cfg!Browse, Cfg!Valid, Cfg!Strtoul, Object!Browse, Object!Valid, Object!Strtoul,
           Working!Browse, Working!Valid, Working!Strtoul
  <2>3. /\ Object!Loaded(t, Object!Browse(file))
        /\ Working!Loaded(t, Working!Browse(file))
    BY <2>2 DEF Cfg!Loaded, Object!Loaded, Working!Loaded
  <2>. QED BY <2>1, <2>3 DEF Cfg!LoadBrowse, Object!LoadBrowse, Working!LoadBrowse
<1>5. Cfg!HasLoaded(t) => Object!HasLoaded(t) /\ Working!HasLoaded(t)
  BY DEF Cfg!HasLoaded, Object!HasLoaded, Working!HasLoaded
<1>6. Cfg!GetConfigValues(t) => Object!GetConfigValues(t) /\ Working!GetConfigValues(t)
  BY DEF Cfg!GetConfigValues, Object!GetConfigValues, Working!GetConfigValues
<1>7. ASSUME NEW b \in BOOLEAN
      PROVE  Cfg!SetEnabled(t, b) => Object!SetEnabled(t, b) /\ Working!SetEnabled(t, b)
  BY DEF Cfg!SetEnabled, Object!SetEnabled, Working!SetEnabled
<1>8. ASSUME NEW list \in Requests
      PROVE  Cfg!SetConfigValues(t, list)
             => Object!SetConfigValues(t, list) /\ Working!SetConfigValues(t, list)
  BY DEF Cfg!SetConfigValues, Cfg!Browse, Cfg!Applied, Cfg!Valid, Cfg!Strtoul,
         Object!SetConfigValues, Object!Browse, Object!Applied, Object!Valid,
         Object!Strtoul, Working!SetConfigValues, Working!Browse, Working!Applied,
         Working!Valid, Working!Strtoul
<1>9. Cfg!NewStamps = Object!NewStamps /\ Cfg!NewStamps = Working!NewStamps
  BY DEF Cfg!NewStamps, Object!NewStamps, Working!NewStamps
<1>10. /\ Cfg!Transferred(Cfg!Saved(arg[t])) \subseteq Object!Transferred(Object!Saved(arg[t]))
       /\ Cfg!Transferred(Cfg!Saved(arg[t])) = Working!Transferred(Working!Saved(arg[t]))
  <2>1. /\ Object!Saved(arg[t]) = Cfg!Saved(arg[t])
        /\ Working!Saved(arg[t]) = Cfg!Saved(arg[t])
        /\ Whole(Cfg!Saved(arg[t]))
    BY DEF Whole, Cfg!Saved, Cfg!Valid, Cfg!Printed, Object!Saved, Object!Valid,
       Object!Printed, Working!Saved, Working!Valid, Working!Printed
  <2>. QED BY <2>1, TransferredMore
<1>11. Cfg!PutSection(t) => Object!PutSection(t) /\ Working!PutSection(t)
  <2>1. Cfg!SaveFailed(t) => Object!SaveFailed(t) /\ Working!SaveFailed(t)
    BY DEF Cfg!SaveFailed, Object!SaveFailed, Working!SaveFailed
  <2>2. Cfg!CreateFile(t) => Object!CreateFile(t) /\ Working!CreateFile(t)
    BY <1>9 DEF Cfg!CreateFile, Object!CreateFile, Working!CreateFile, Cfg!Empty,
       Object!Empty, Working!Empty
  <2>3. Cfg!FillFile(t) => Object!FillFile(t) /\ Working!FillFile(t)
    BY <1>9, <1>10 DEF Cfg!FillFile, Object!FillFile, Working!FillFile
  <2>4. Cfg!OpenTemp(t) => Object!OpenTemp(t) /\ Working!OpenTemp(t)
    BY DEF Cfg!OpenTemp, Object!OpenTemp, Working!OpenTemp, Cfg!Empty, Object!Empty,
       Working!Empty
  <2>5. Cfg!CopyToTemp(t) => Object!CopyToTemp(t) /\ Working!CopyToTemp(t)
    BY <1>10 DEF Cfg!CopyToTemp, Object!CopyToTemp, Working!CopyToTemp
  <2>6. Cfg!RemoveOld(t) => Object!RemoveOld(t) /\ Working!RemoveOld(t)
    BY DEF Cfg!RemoveOld, Object!RemoveOld, Working!RemoveOld
  <2>7. Cfg!RenameTemp(t) => Object!RenameTemp(t) /\ Working!RenameTemp(t)
    BY <1>9 DEF Cfg!RenameTemp, Object!RenameTemp, Working!RenameTemp
  <2>. QED BY <2>1, <2>2, <2>3, <2>4, <2>5, <2>6, <2>7
           DEF Cfg!PutSection, Object!PutSection, Working!PutSection
<1>12. Cfg!Apply(t) => Object!Apply(t) /\ Working!Apply(t)
  BY DEF Cfg!Apply, Cfg!Applied, Cfg!Valid, Object!Apply, Object!Applied, Object!Valid,
         Working!Apply, Working!Applied, Working!Valid
<1>. QED BY <1>1, <1>2, <1>3, <1>4, <1>5, <1>6, <1>7, <1>8, <1>11, <1>12
         DEF Object!Step, Object!Load, Working!Step, Working!Load

(* After the card was unmounted ini_putsection does what it may do on a     *)
(* card that fails; a save that begins then ends at once.                  *)
LEMMA UnmountedAgrees ==
    /\ PutSectionUnmounted => Object!PutSection(ipc)
    /\ PutSectionUnmounted /\ call[ipc] = "save" => Unmounted!SaveFailed(ipc)
<1>. USE DEF Unmounted!Unlock, Unmounted!Goto, Unmounted!memory, Unmounted!card,
             Unmounted!history, Object!Unlock, Object!Goto, Object!memory, Object!card,
             Object!history
<1>1. Unmounted!SaveFailed(ipc) => Object!SaveFailed(ipc)
  BY DEF Unmounted!SaveFailed, Object!SaveFailed
<1>2. Unmounted!Transferred(Unmounted!Saved(arg[ipc])) = Object!Transferred(Object!Saved(arg[ipc]))
  <2>1. /\ Object!Saved(arg[ipc]) = Unmounted!Saved(arg[ipc])
        /\ Whole(Unmounted!Saved(arg[ipc]))
    BY DEF Whole, Unmounted!Saved, Unmounted!Valid, Unmounted!Printed, Object!Saved,
       Object!Valid, Object!Printed
  <2>. QED BY <2>1, TransferredMore
<1>3. Unmounted!NewStamps = Object!NewStamps
  BY DEF Unmounted!NewStamps, Object!NewStamps
<1>4. Unmounted!FillFile(ipc) => Object!FillFile(ipc)
  BY <1>2, <1>3 DEF Unmounted!FillFile, Object!FillFile
<1>5. Unmounted!CopyToTemp(ipc) => Object!CopyToTemp(ipc)
  BY <1>2 DEF Unmounted!CopyToTemp, Object!CopyToTemp
<1>6. Unmounted!RemoveOld(ipc) => Object!RemoveOld(ipc)
  BY DEF Unmounted!RemoveOld, Object!RemoveOld
<1>7. Unmounted!RenameTemp(ipc) => Object!RenameTemp(ipc)
  BY <1>3 DEF Unmounted!RenameTemp, Object!RenameTemp
<1>8. PutSectionUnmounted => Object!PutSection(ipc)
  BY <1>1, <1>4, <1>5, <1>6, <1>7 DEF PutSectionUnmounted, Object!PutSection
<1>9. PutSectionUnmounted /\ call[ipc] = "save" => Unmounted!SaveFailed(ipc)
  BY DEF PutSectionUnmounted, Unmounted!FillFile, Unmounted!CopyToTemp,
     Unmounted!RemoveOld, Unmounted!RenameTemp
<1>. QED BY <1>8, <1>9

(* Before main() constructs the object and after it is destroyed, its       *)
(* variables have the values of Config's Init.                             *)
Vacant ==
    /\ alive \in BOOLEAN
    /\ ~alive =>
        /\ configMutex = NoThread
        /\ loaded = FALSE /\ mtime = 0 /\ configValues = DefaultValue /\ enabled = FALSE
        /\ call = [t \in {main, ipc} |-> "idle"]
        /\ arg = [t \in {main, ipc} |-> DefaultValue]
        /\ view = DefaultValue /\ told = FALSE
        /\ published = DefaultValue /\ ready = FALSE

LEMMA VacantNext == Vacant /\ Calls /\ [Next]_vars => Vacant'
<1>. SUFFICES ASSUME Vacant, Calls, [Next]_vars PROVE Vacant'
  OBVIOUS
<1>1. CASE ConfigUntouched
  BY <1>1, Untouched DEF Vacant, configVars
<1>2. CASE Enable \/ Settle \/ WaitForNextTick \/ SetEnabled \/ HasLoaded \/ GetConfigValues
  BY <1>2 DEF Enable, Settle, WaitForNextTick, SetEnabled, HasLoaded, GetConfigValues,
         Cfg!SetEnabled, Cfg!GetConfigValues, Cfg!HasLoaded, Cfg!memory, Vacant
<1>3. CASE Refresh \/ SetConfigValues
  <2>1. UNCHANGED alive
    BY <1>3, CallSteps
  <2>2. alive \/ call[main] # "idle" \/ call[ipc] # "idle"
    BY <1>3, PutSectionSteps DEF Refresh, SetConfigValues, Cfg!RefreshHit, Cfg!RefreshBegin,
       Cfg!LoadStat, Cfg!LoadMissing, Cfg!LoadBrowse, Cfg!SetConfigValues, Cfg!Lock, Cfg!Apply
  <2>. QED BY <2>1, <2>2 DEF Vacant
<1>4. CASE NewHeloManager
  BY <1>4 DEF NewHeloManager, Cfg!Construct, Vacant
<1>5. CASE DeleteHeloManager \/ DestructorThrows \/ Return
  BY <1>5 DEF DeleteHeloManager, DestructorThrows, Return, Cfg!Destroy, Cfg!Forget, Vacant
<1>6. CASE Edit
  BY <1>6 DEF Edit, Cfg!Edit, Cfg!memory, Cfg!callers, Vacant
<1>. QED BY <1>1, <1>2, <1>3, <1>4, <1>5, <1>6, NextSplit DEF ConfigTouched

LEMMA ObjectInit == Init => Object!Init
BY DEF Init, Cfg!Init, Object!Init, Cfg!Browse, Cfg!Valid, Cfg!Strtoul, Object!Browse,
   Object!Valid, Object!Strtoul

(* What the next step does to the object.  While the card is in place, and  *)
(* as long as no save has got past its first step after that, it is what   *)
(* happens to Working, or a save that fails for want of a card.            *)
LEMMA ObjectNext ==
    Vacant /\ Whole(disk) /\ [Next]_vars =>
        /\ [Object!Next]_Object!vars
        /\ mounted \/ call[ipc] \in {"idle", "save"}
           => [Working!Next]_Working!vars \/ Unmounted!SaveFailed(ipc)
<1>. SUFFICES ASSUME Vacant, Whole(disk), [Next]_vars
              PROVE  /\ Object!Next \/ UNCHANGED configVars
                     /\ mounted \/ call[ipc] \in {"idle", "save"}
                        => \/ Working!Next \/ UNCHANGED configVars
                           \/ Unmounted!SaveFailed(ipc)
  BY DEF Object!vars, Object!memory, Object!callers, Object!card, Object!history, configVars,
     Working!vars, Working!memory, Working!callers, Working!card, Working!history
<1>1. CASE ConfigUntouched
  BY <1>1, Untouched
<1>2. CASE Enable \/ Settle \/ WaitForNextTick \/ Refresh
  <2>1. Object!Step(main) /\ Working!Step(main)
    BY <1>2, OperationsAgree DEF Enable, Settle, WaitForNextTick, Refresh
  <2>. QED BY <2>1 DEF Object!Next, Working!Next
<1>3. CASE SetEnabled \/ HasLoaded \/ GetConfigValues
  <2>1. Object!Step(ipc) /\ Working!Step(ipc)
    BY <1>3, OperationsAgree DEF SetEnabled, HasLoaded, GetConfigValues
  <2>. QED BY <2>1 DEF Object!Next, Working!Next
<1>4. CASE SetConfigValues
  <2>1. CASE PutSection /\ ~mounted
    <3>1. Object!Step(ipc)
      BY <2>1, UnmountedAgrees DEF PutSection, Object!Step
    <3>2. call[ipc] \in {"idle", "save"} => Unmounted!SaveFailed(ipc)
      BY <2>1, PutSectionSteps, UnmountedAgrees DEF PutSection
    <3>. QED BY <2>1, <3>1, <3>2 DEF Object!Next
  <2>2. CASE ~(PutSection /\ ~mounted)
    <3>1. Object!Step(ipc) /\ Working!Step(ipc)
      BY <1>4, <2>2, OperationsAgree DEF SetConfigValues, PutSection
    <3>. QED BY <3>1 DEF Object!Next, Working!Next
  <2>. QED BY <2>1, <2>2
<1>5. CASE NewHeloManager
  BY <1>5 DEF NewHeloManager, Cfg!Construct, Cfg!callers, Cfg!card, Cfg!history,
     Object!Construct, Object!callers, Object!card, Object!history, Object!Next,
     Working!Construct, Working!callers, Working!card, Working!history, Working!Next
<1>6. CASE DeleteHeloManager
  BY <1>6 DEF DeleteHeloManager, Cfg!Destroy, Cfg!Forget, Cfg!card, Object!Destroy,
     Object!Forget, Object!card, Object!Next, Working!Destroy, Working!Forget,
     Working!card, Working!Next
<1>7. CASE DestructorThrows \/ Return
  <2>1. Object!Forget /\ Working!Forget
    BY <1>7 DEF DestructorThrows, Return, Cfg!Forget, Cfg!card, Object!Forget, Object!card,
       Working!Forget, Working!card
  <2>2. CASE alive
    BY <2>1, <2>2 DEF Object!Crash, Object!Next, Working!Crash, Working!Next
  <2>3. CASE ~alive
    BY <2>1, <2>3 DEF Vacant, Object!Forget, Object!card, configVars
  <2>. QED BY <2>2, <2>3
<1>8. CASE Edit
  BY <1>8 DEF Edit, Cfg!Edit, Cfg!NewStamps, Cfg!memory, Cfg!callers, Object!Edit,
     Object!NewStamps, Object!memory, Object!callers, Object!Next, Working!Edit,
     Working!NewStamps, Working!memory, Working!callers, Working!Next
<1>. QED BY <1>1, <1>2, <1>3, <1>4, <1>5, <1>6, <1>7, <1>8, NextSplit DEF ConfigTouched

(* The operations agree on a disk of the right type, and so the type is     *)
(* proved together with the step.                                          *)
LEMMA TypedNext ==
    Vacant /\ Object!TypeOK /\ [Next]_vars => [Object!Next]_Object!vars /\ Object!TypeOK'
<1>. SUFFICES ASSUME Vacant, Object!TypeOK, [Next]_vars
              PROVE  [Object!Next]_Object!vars /\ Object!TypeOK'
  OBVIOUS
<1>1. Whole(disk)
  BY DEF Object!TypeOK, Object!Contents, Whole
<1>2. [Object!Next]_Object!vars
  BY <1>1, ObjectNext
<1>. QED BY <1>2, ObjectAssumptions, Object!TypeNext

LEMMA ObjectInvariant == Spec => [](Vacant /\ Object!TypeOK)
<1>1. Init => Vacant
  BY DEF Init, Cfg!Init, Vacant
<1>2. Init => Object!TypeOK
  BY ObjectInit, ObjectAssumptions, Object!TypeInit
<1>3. Inv /\ Vacant /\ Object!TypeOK /\ [Next]_vars => Vacant' /\ Object!TypeOK'
  BY VacantNext, TypedNext DEF Inv
<1>. QED BY <1>1, <1>2, <1>3, Invariance, PTL DEF Spec

(* The process uses its configuration object as module Config says an       *)
(* object is used: main() constructs it before and destroys it after every *)
(* use, and the two threads together do to it what two threads of Config   *)
(* may do, the last of them on a card that is gone.  All that is proved    *)
(* about Config, whatever fails, holds of the process.                     *)
THEOREM ProcessUsesConfig == Spec => Object!Spec
<1>1. Vacant /\ Object!TypeOK /\ [Next]_vars => [Object!Next]_Object!vars
  BY TypedNext
<1>. QED BY <1>1, ObjectInvariant, ObjectInit, PTL DEF Spec, Object!Spec

LEMMA ObjectTyped == Spec => []Object!TypeOK
BY ObjectInvariant, PTL

(* svcSleepThread is given the nanoseconds of an interval that fit below    *)
(* the sign bit, and less than the nanoseconds that do not.                *)
LEMMA NanosecondsGiven ==
    ASSUME NEW ms \in Nat
    PROVE  IF ms * NsPerMs < SignBit THEN Nanoseconds(ms) = ms * NsPerMs
                                     ELSE Nanoseconds(ms) < ms * NsPerMs
<1>. DEFINE ns == ms * NsPerMs
<1>1. SignBit \in Nat \ {0} /\ ns \in Nat
  BY ConfigAssumption, UnitAssumption DEF Cfg!SignBitAssumption
<1>2. Nanoseconds(ms) = LET product == ns % (2 * SignBit)
                        IN  IF product < SignBit THEN product ELSE product - 2 * SignBit
  BY DEF Nanoseconds
<1>. HIDE DEF ns
<1>3. ns % (2 * SignBit) \in 0 .. 2 * SignBit - 1
  BY <1>1
<1>4. ns < SignBit => ns % (2 * SignBit) = ns
  BY <1>1
<1>5. PICK product \in 0 .. 2 * SignBit - 1 :
         /\ ns < SignBit => product = ns
         /\ Nanoseconds(ms) = IF product < SignBit THEN product ELSE product - 2 * SignBit
  BY <1>2, <1>3, <1>4
<1>6. IF ns < SignBit THEN Nanoseconds(ms) = ns ELSE Nanoseconds(ms) < ns
  BY <1>1, <1>5
<1>. QED BY <1>6 DEF ns

(* Each of the two sleeps of a tick lasts the whole interval, which is      *)
(* never zero, whatever the file and the clients say -- or its nanoseconds *)
(* do not fit the signed 64-bit number svcSleepThread takes, and then it   *)
(* is always too short (HeloManager::WaitForNextTick).                     *)
THEOREM LoopSleeps == Spec => TickPaces
<1>. DEFINE Paced(ms) ==
         /\ ms > 0
         /\ IF ms * NsPerMs < SignBit THEN Nanoseconds(ms) = ms * NsPerMs
                                      ELSE Nanoseconds(ms) < ms * NsPerMs
<1>1. Object!TypeOK => \A k \in Keys : Paced(configValues[k])
  <2>. SUFFICES ASSUME configValues \in Object!ValidLists, NEW k \in Keys
                PROVE  configValues[k] \in Nat /\ configValues[k] > 0
    BY NanosecondsGiven DEF Object!TypeOK
  <2>. QED BY ObjectAssumptions DEF Object!ValidLists, Object!ValueLists, Object!Val,
              Object!Valid, Object!SignBitAssumption
<1>2. Settle \/ WaitForNextTick => view' = configValues
  BY DEF Settle, WaitForNextTick, Cfg!GetConfigValues
<1>. HIDE DEF Paced
<1>3. Object!TypeOK /\ [Next]_vars
      => [Settle \/ WaitForNextTick => \A k \in Keys : Paced(view'[k])]_vars
  BY <1>1, <1>2
<1>4. Spec => [][Settle \/ WaitForNextTick => \A k \in Keys : Paced(view'[k])]_vars
  BY <1>3, ObjectTyped, PTL DEF Spec
<1>. QED BY <1>4 DEF Paced, TickPaces

(* The threads of the process, a save of the IPC thread in the middle of a  *)
(* refresh of the main thread or of its end by an exception, never show a  *)
(* reader anything but a list that was loaded or saved whole.              *)
THEOREM ProcessServesReaders == Spec => Object!ImplementsStore
BY ProcessUsesConfig, ObjectAssumptions, Object!StoreImplemented

(* As long as cut is false, no save has got past its first step since the  *)
(* card was unmounted.                                                     *)
NoSaveAfter ==
    /\ ~cut => mounted \/ call[ipc] \in {"idle", "save"}
    /\ cut => mainPc \in {"return", "done"}

LEMMA NoSaveAfterNext ==
    Places /\ Calls /\ NoSaveAfter /\ [Next]_vars => NoSaveAfter' /\ (cut => cut')
<1>. SUFFICES ASSUME Places, Calls, NoSaveAfter, [Next]_vars
              PROVE  NoSaveAfter' /\ (cut => cut')
  OBVIOUS
<1>. USE DEF NoSaveAfter, Main, historyVars
<1>1. CASE FilesExit
  <2>1. UNCHANGED call
    BY <1>1, Untouched DEF ConfigUntouched, configVars
  <2>. QED BY <1>1, <2>1 DEF FilesExit, Calls
<1>2. CASE ConfigUntouched /\ ~FilesExit
  <2>1. UNCHANGED call
    BY <1>2, Untouched DEF configVars
  <2>2. UNCHANGED cut /\ (mounted => mounted') /\ (cut => mainPc' \in {"return", "done"})
    <3>1. CASE \/ FilesInitialize \/ ProcessManagementInitialize \/ NewIpcService \/ StartIpc
               \/ While \/ TickBegin
      BY <3>1 DEF FilesInitialize, ProcessManagementInitialize, NewIpcService, StartIpc,
                  While, TickBegin, Throw
    <3>2. CASE \/ GetApplicationProcessId \/ GetProgramId \/ SetApplicationId
               \/ TickEnd \/ StopIpc \/ JoinIpc
      BY <3>2 DEF GetApplicationProcessId, GetProgramId, SetApplicationId,
                  TickEnd, StopIpc, JoinIpc, Throw
    <3>3. CASE \/ Cancelled \/ GetCurrentContext \/ Exit
               \/ ReceiveRequest \/ Launch \/ Quit \/ UNCHANGED vars
      BY <3>3 DEF Cancelled, GetCurrentContext, Exit, ReceiveRequest, Launch, Quit, vars
    <3>. QED BY <1>2, <3>1, <3>2, <3>3 DEF ConfigUntouched
  <2>. QED BY <2>1, <2>2
<1>3. CASE \/ Enable \/ Settle \/ WaitForNextTick \/ SetEnabled \/ HasLoaded
           \/ GetConfigValues \/ Edit \/ Refresh \/ NewHeloManager
  <2>1. call'[ipc] = call[ipc]
    BY <1>3, CallSteps
  <2>2. UNCHANGED <<cut, mounted>> /\ (cut => mainPc' \in {"return", "done"})
    BY <1>3 DEF Enable, Settle, WaitForNextTick, SetEnabled, HasLoaded, GetConfigValues,
       Edit, Refresh, NewHeloManager
  <2>. QED BY <2>1, <2>2
<1>4. CASE SetConfigValues
  <2>1. UNCHANGED <<cut, mounted, mainPc>>
    BY <1>4 DEF SetConfigValues
  <2>2. ASSUME ~cut, ~mounted PROVE call'[ipc] \in {"idle", "save"}
    <3>1. ASSUME NEW vals, Cfg!SetConfigValues(ipc, vals) PROVE call'[ipc] = "save"
      BY <3>1 DEF Cfg!SetConfigValues, Cfg!Lock, Calls
    <3>2. CASE PutSection
      <4>1. Unmounted!SaveFailed(ipc)
        BY <2>2, <3>2, PutSectionSteps, UnmountedAgrees DEF PutSection
      <4>. QED BY <4>1 DEF Unmounted!SaveFailed, Unmounted!Unlock, Calls
    <3>3. ~Cfg!Apply(ipc)
      BY <2>2 DEF Cfg!Apply
    <3>. QED BY <1>4, <3>1, <3>2, <3>3 DEF SetConfigValues
  <2>. QED BY <2>1, <2>2
<1>5. CASE DeleteHeloManager \/ DestructorThrows \/ Return
  <2>1. call'[ipc] = "idle"
    BY <1>5, CallSteps
  <2>2. UNCHANGED <<cut, mounted>> /\ (cut => mainPc' \in {"return", "done"})
    BY <1>5 DEF DeleteHeloManager, DestructorThrows, Return
  <2>. QED BY <2>1, <2>2
<1>. QED BY <1>1, <1>2, <1>3, <1>4, <1>5, NextSplit DEF ConfigTouched

(* A save that ends for want of a card leaves the file as it is. *)
LEMMA FailedSave ==
    Calls /\ Unmounted!SaveFailed(ipc) =>
        /\ Working!DurableInv => Working!DurableInv'
        /\ Working!StaleInv => Working!StaleInv'
<1>. SUFFICES ASSUME Calls, Unmounted!SaveFailed(ipc)
              PROVE  /\ Working!DurableInv => Working!DurableInv'
                     /\ Working!StaleInv => Working!StaleInv'
  OBVIOUS
<1>1. /\ UNCHANGED <<loaded, mtime, configValues, disk, stamp, temp, ready, save>>
      /\ call[ipc] = "save" /\ call' = [call EXCEPT ![ipc] = "idle"]
  BY DEF Unmounted!SaveFailed, Unmounted!Unlock, Unmounted!card, Unmounted!history
<1>2. \A t \in {main, ipc} : call'[t] \in {"idle", "load", "browse"}
  BY <1>1 DEF Calls
<1>3. Working!StaleInv => Working!StaleInv'
  BY <1>1, <1>2 DEF Working!StaleInv, Working!FreshStamp, Working!Browse
<1>4. Working!DurableInv => Working!DurableInv'
  <2>. SUFFICES ASSUME Working!OwnInv PROVE Working!OwnInv'
    BY <1>1 DEF Working!DurableInv
  <2>1. ~save.done
    BY <1>1 DEF Working!OwnInv, Working!Saving
  <2>2. Working!CrashSafe'
    BY <1>1 DEF Working!OwnInv, Working!CrashSafe, Working!Browse
  <2>. QED BY <1>1, <1>2, <2>1, <2>2 DEF Working!OwnInv, Working!Saving
<1>. QED BY <1>3, <1>4

LEMMA WorkingTypes ==
    /\ Object!TypeOK => Working!TypeOK
    /\ Object!MutexGuardsFile => Working!MutexGuardsFile
BY DEF Object!TypeOK, Object!Calls, Object!ValidLists, Object!ValueLists, Object!Valid,
   Object!Val, Object!Contents, Object!Text, Object!MutexGuardsFile,
   Working!TypeOK, Working!Calls, Working!ValidLists, Working!ValueLists, Working!Valid,
   Working!Val, Working!Contents, Working!Text, Working!MutexGuardsFile

(* What is known of the object, and of the card, in every state *)
Known == Inv /\ Vacant /\ Object!TypeOK /\ Object!MutexGuardsFile /\ NoSaveAfter

LEMMA KnownAlways == Spec => []Known
<1>1. Spec => []Object!MutexGuardsFile
  BY ProcessUsesConfig, ObjectAssumptions, Object!MutualExclusion
<1>2. Init => NoSaveAfter
  BY DEF Init, Cfg!Init, NoSaveAfter
<1>3. Inv /\ NoSaveAfter /\ [Next]_vars => NoSaveAfter'
  BY NoSaveAfterNext DEF Inv
<1>. QED BY <1>1, <1>2, <1>3, ObjectInvariant, Invariance, PTL DEF Spec, Known

LEMMA KnownStep ==
    ASSUME Known, [Next]_vars, ~cut'
    PROVE  /\ ~cut
           /\ [Working!Next]_Working!vars \/ Unmounted!SaveFailed(ipc)
           /\ Calls /\ Working!TypeOK /\ Working!MutexGuardsFile
<1>1. ~cut /\ Calls
  BY NoSaveAfterNext DEF Known, Inv
<1>2. Whole(disk)
  BY DEF Known, Object!TypeOK, Object!Contents, Whole
<1>3. [Working!Next]_Working!vars \/ Unmounted!SaveFailed(ipc)
  BY <1>1, <1>2, ObjectNext DEF Known, NoSaveAfter
<1>. QED BY <1>1, <1>3, WorkingTypes DEF Known

(* An edit of the file does not escape the process: as long as memory and  *)
(* an existing file differ, the next tick that refreshes will read it.     *)
(* Only a save that an exception in main() cut off from its card breaks    *)
(* this, and after it there is no tick any more.                           *)
THEOREM ProcessNoticesEdits ==
    ASSUME Faults \cap {"io", "sameStamp"} = {}
    PROVE  Spec => [](~cut => Cfg!StaleIsNoticed)
<1>1. (Faults \cup {"crash"}) \cap {"io", "sameStamp"} = {}
  OBVIOUS
<1>2. Init => Working!StaleInv
  BY DEF Init, Cfg!Init, Working!StaleInv
<1>3. Known /\ (~cut => Working!StaleInv) /\ [Next]_vars => (~cut => Working!StaleInv)'
  <2>. SUFFICES ASSUME Known, ~cut => Working!StaleInv, [Next]_vars, ~cut'
                PROVE  Working!StaleInv'
    OBVIOUS
  <2>1. Working!StaleInv
    BY KnownStep
  <2>. QED BY <1>1, <2>1, KnownStep, FailedSave, WorkingAssumptions, Working!StaleNext
<1>4. Working!StaleInv => Cfg!StaleIsNoticed
  BY DEF Working!StaleInv, Working!FreshStamp, Working!Browse, Working!Valid,
     Working!Strtoul, Cfg!StaleIsNoticed, Cfg!Browse, Cfg!Valid, Cfg!Strtoul,
     Cfg!CheckModificationTime
<1>. QED BY <1>2, <1>3, <1>4, KnownAlways, PTL DEF Spec

(* A save a client was told is done, and one the process was ended in the   *)
(* middle of, are on the card as Config promises, whether main() ends by   *)
(* Exit or by an exception, on the way of which the card is unmounted      *)
(* under the IPC thread.  The one save this does not hold of is one under  *)
(* way at that moment: it may be cut off and told to be done all the same. *)
THEOREM ProcessKeepsSaves ==
    ASSUME "io" \notin Faults
    PROVE  Spec => [](~cut => Cfg!SaveIsDurable /\ Cfg!CrashSafe)
<1>1. "io" \notin Faults \cup {"crash"}
  OBVIOUS
<1>2. Init => Working!DurableInv
  BY DEF Init, Cfg!Init, Working!DurableInv, Working!OwnInv, Working!CrashSafe,
     Working!Saving, Cfg!Browse, Cfg!Valid, Cfg!Strtoul, Working!Browse, Working!Valid,
     Working!Strtoul
<1>3. Known /\ (~cut => Working!DurableInv) /\ [Next]_vars => (~cut => Working!DurableInv)'
  <2>. SUFFICES ASSUME Known, ~cut => Working!DurableInv, [Next]_vars, ~cut'
                PROVE  Working!DurableInv'
    OBVIOUS
  <2>1. Working!DurableInv
    BY KnownStep
  <2>. QED BY <1>1, <2>1, KnownStep, FailedSave, WorkingAssumptions, Working!DurableNext
<1>4. Known /\ Working!DurableInv => Cfg!SaveIsDurable /\ Cfg!CrashSafe
  <2>. SUFFICES ASSUME Known, Working!DurableInv
                PROVE  Cfg!SaveIsDurable /\ Cfg!CrashSafe
    OBVIOUS
  <2>1. configMutex = NoThread => \A t \in {main, ipc} : call[t] # "browse"
    BY ThreadAssumption DEF Known, Object!MutexGuardsFile
  <2>. QED BY <2>1 DEF Working!DurableInv, Working!OwnInv, Working!CrashSafe,
           Working!Browse, Working!Valid, Working!Strtoul, Cfg!SaveIsDurable,
           Cfg!CrashSafe, Cfg!Browse, Cfg!Valid, Cfg!Strtoul
<1>. QED BY <1>2, <1>3, <1>4, KnownAlways, PTL DEF Spec
================================================================================
