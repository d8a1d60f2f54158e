----------------------------- MODULE ConfigProofs -----------------------------
(***************************************************************************)
(* Proofs about module Config, for every number of threads and keys, every *)
(* width of a value, and every choice of defaults, requests and files.     *)
(***************************************************************************)
EXTENDS Config, TLAPS

(* Facts about the conversions between values, texts and files.            *)

LEMMA ValInterval ==
    Val \subseteq Nat /\ Text \subseteq Int /\ 2 * SignBit \in Nat /\ SignBit \in Nat
BY SignBitAssumption DEF Val, Text

(* Whatever number the text is, strtoul returns a 64-bit value. *)
LEMMA StrtoulVal ==
    ASSUME NEW n \in Text
    PROVE  Strtoul(n) \in Val
BY SignBitAssumption DEF Text, Val, Strtoul

LEMMA PrintedText ==
    ASSUME NEW v \in Val
    PROVE  Printed(v) \in Text
BY SignBitAssumption DEF Text, Val, Printed

(* What snprintf("%ld") prints, strtoul reads back: also above 2^63. *)
LEMMA StrtoulPrinted ==
    ASSUME NEW v \in Val
    PROVE  Strtoul(Printed(v)) = v
BY SignBitAssumption DEF Val, Printed, Strtoul

LEMMA EmptyContent == Empty \in Contents
<1>1. Empty \in [{} -> Text]
    BY DEF Empty
<1> QED
    BY <1>1 DEF Contents

LEMMA ContentPart ==
    ASSUME NEW file \in Contents, NEW K \in SUBSET DOMAIN file
    PROVE  [k \in K |-> file[k]] \in Contents
<1>1. PICK J \in SUBSET Keys : file \in [J -> Text]
    BY DEF Contents
<1>2. [k \in K |-> file[k]] \in [K -> Text] /\ K \in SUBSET Keys
    BY <1>1
<1> QED
    BY <1>2 DEF Contents

LEMMA TransferredContent ==
    ASSUME NEW file \in Contents \cup {NoFile}, NEW read \in Transferred(file)
    PROVE  /\ read \in Contents \cup {NoFile}
           /\ file # NoFile => read \in Contents
BY ContentPart DEF Transferred

(* Without read and write errors a file is transferred whole. *)
LEMMA TransferredWhole ==
    ASSUME NEW file, "io" \notin Faults
    PROVE  Transferred(file) = {file}
BY DEF Transferred

LEMMA BrowseValid ==
    ASSUME NEW file \in Contents \cup {NoFile}
    PROVE  Browse(file) \in ValidLists
<1> DEFINE value(k) ==
        IF file # NoFile /\ k \in DOMAIN file /\ Valid(k, Strtoul(file[k]))
        THEN Strtoul(file[k]) ELSE DefaultValue[k]
<1>1. ASSUME NEW k \in Keys
      PROVE  value(k) \in Val /\ Valid(k, value(k))
    <2>1. CASE file # NoFile /\ k \in DOMAIN file /\ Valid(k, Strtoul(file[k]))
        <3>1. file[k] \in Text
            BY <2>1 DEF Contents
        <3> QED
            BY <2>1, <3>1, StrtoulVal
    <2>2. CASE ~(file # NoFile /\ k \in DOMAIN file /\ Valid(k, Strtoul(file[k])))
        BY <2>2, DefaultAssumption DEF ValidLists, ValueLists
    <2> QED
        BY <2>1, <2>2
<1>2. Browse(file) = [k \in Keys |-> value(k)]
    BY DEF Browse
<1> HIDE DEF value
<1> QED
    BY <1>1, <1>2 DEF ValidLists, ValueLists

LEMMA SavedContent ==
    ASSUME NEW vals \in ValueLists
    PROVE  Saved(vals) \in Contents
<1> DEFINE K == {j \in Keys : Valid(j, vals[j]) /\ vals[j] # DefaultValue[j]}
<1>1. Saved(vals) \in [K -> Text]
    BY PrintedText DEF Saved, ValueLists
<1> QED
    BY <1>1 DEF Contents

LEMMA AppliedValid ==
    ASSUME NEW vals \in ValueLists
    PROVE  Applied(vals) \in ValidLists
BY DefaultAssumption DEF Applied, ValidLists, ValueLists

(* The round trip: a list written by SetConfigValues is read back by Load  *)
(* as the list SetConfigValues leaves in memory.                           *)
LEMMA RoundTrip ==
    ASSUME NEW vals \in ValueLists
    PROVE  Browse(Saved(vals)) = Applied(vals)
<1>1. Saved(vals) # NoFile
    BY SavedContent, FilesAssumption
<1>2. ASSUME NEW k \in Keys
      PROVE  Browse(Saved(vals))[k] = Applied(vals)[k]
    <2>1. vals[k] \in Val
        BY DEF ValueLists
    <2>2. CASE Valid(k, vals[k]) /\ vals[k] # DefaultValue[k]
        <3>1. k \in DOMAIN Saved(vals) /\ Saved(vals)[k] = Printed(vals[k])
            BY <2>2 DEF Saved
        <3>2. Strtoul(Saved(vals)[k]) = vals[k]
            BY <2>1, <3>1, StrtoulPrinted
        <3> QED
            BY <1>1, <2>2, <3>1, <3>2 DEF Browse, Applied
    <2>3. CASE ~(Valid(k, vals[k]) /\ vals[k] # DefaultValue[k])
        <3>1. k \notin DOMAIN Saved(vals)
            BY <2>3 DEF Saved
        <3> QED
            BY <2>3, <3>1 DEF Browse, Applied
    <2> QED
        BY <2>2, <2>3
<1> QED
    BY <1>2 DEF Browse, Applied

(* A missing file and an empty section read as the defaults. *)
LEMMA BrowseNothing ==
    Browse(NoFile) = DefaultValue /\ Browse(Empty) = DefaultValue
BY DefaultAssumption DEF Browse, Empty, ValidLists, ValueLists
-------------------------------------------------------------------------------
(* Every variable keeps its type.                                          *)

LEMMA TypeInit == Init => TypeOK
<1> SUFFICES ASSUME Init PROVE TypeOK
    OBVIOUS
<1>1. disk \in Contents \cup {NoFile} /\ temp \in Contents \cup {NoFile}
    BY FilesAssumption DEF Init
<1>2. Browse(disk) \in ValidLists
    BY <1>1, BrowseValid
<1>3. DefaultValue \in ValidLists /\ DefaultValue \in ValueLists
    BY DefaultAssumption DEF ValidLists
<1> QED
    BY <1>1, <1>2, <1>3 DEF Init, TypeOK, Calls

LEMMA TypeNext == TypeOK /\ [Next]_vars => TypeOK'
<1> SUFFICES ASSUME TypeOK, [Next]_vars PROVE TypeOK'
    OBVIOUS
<1> USE DEF TypeOK
<1>d. DefaultValue \in ValidLists /\ DefaultValue \in ValueLists
    BY DefaultAssumption DEF ValidLists
<1>n. NewStamps \subseteq Stamps
    BY DEF NewStamps
<1>1. ASSUME NEW t \in Threads, RefreshHit(t) PROVE TypeOK'
    BY <1>1 DEF RefreshHit, vars, memory, callers, card, history
<1>2. ASSUME NEW t \in Threads, RefreshBegin(t) PROVE TypeOK'
    BY <1>2 DEF RefreshBegin, Lock, Calls, card, history
<1>3. ASSUME NEW t \in Threads, LoadStat(t) PROVE TypeOK'
    BY <1>3, <1>d DEF LoadStat, Goto, CheckModificationTime, Calls, card, history
<1>4. ASSUME NEW t \in Threads, LoadMissing(t) PROVE TypeOK'
    BY <1>4, <1>d DEF LoadMissing, Loaded, Unlock, Calls, card
<1>5. ASSUME NEW t \in Threads, LoadBrowse(t) PROVE TypeOK'
    <2>1. PICK file \in Transferred(disk) : Loaded(t, Browse(file))
        BY <1>5 DEF LoadBrowse
    <2>2. Browse(file) \in ValidLists
        BY TransferredContent, BrowseValid
    <2> QED
        BY <1>5, <2>1, <2>2, <1>d DEF LoadBrowse, Loaded, Unlock, Calls, card
<1>6. ASSUME NEW t \in Threads, HasLoaded(t) PROVE TypeOK'
    BY <1>6 DEF HasLoaded, memory, callers, card
<1>7. ASSUME NEW t \in Threads, GetConfigValues(t) PROVE TypeOK'
    BY <1>7 DEF GetConfigValues, memory, callers, card
<1>8. ASSUME NEW t \in Threads, NEW b \in BOOLEAN, SetEnabled(t, b) PROVE TypeOK'
    BY <1>8 DEF SetEnabled, callers, card, history
<1>9. ASSUME NEW t \in Threads, NEW vals \in Requests, SetConfigValues(t, vals)
      PROVE  TypeOK'
    <2>1. vals \in ValueLists
        BY RequestsAssumption
    <2>2. Browse(disk) \in ValidLists /\ Applied(vals) \in ValidLists
        BY <2>1, BrowseValid, AppliedValid
    <2> QED
        BY <1>9, <2>1, <2>2 DEF SetConfigValues, Lock, Calls, card
<1>10. ASSUME NEW t \in Threads, SaveFailed(t) PROVE TypeOK'
    BY <1>10, <1>d DEF SaveFailed, Unlock, Calls, card, history
<1>11. ASSUME NEW t \in Threads, CreateFile(t) PROVE TypeOK'
    BY <1>11, <1>n, EmptyContent DEF CreateFile, Goto, Calls, memory, history
<1>12. ASSUME NEW t \in Threads, FillFile(t) PROVE TypeOK'
    <2>1. disk' \in Contents \cup {NoFile}
        BY <1>12, SavedContent, TransferredContent DEF FillFile
    <2> QED
        BY <1>12, <2>1, <1>n DEF FillFile, Goto, Calls, memory, history
<1>13. ASSUME NEW t \in Threads, OpenTemp(t) PROVE TypeOK'
    BY <1>13, EmptyContent DEF OpenTemp, Goto, Calls, memory, history
<1>14. ASSUME NEW t \in Threads, CopyToTemp(t) PROVE TypeOK'
    <2>1. temp' \in Contents \cup {NoFile}
        BY <1>14, SavedContent, TransferredContent DEF CopyToTemp
    <2> QED
        BY <1>14, <2>1 DEF CopyToTemp, Goto, Calls, memory, history
<1>15. ASSUME NEW t \in Threads, RemoveOld(t) PROVE TypeOK'
    BY <1>15 DEF RemoveOld, Goto, Calls, memory, history
<1>16. ASSUME NEW t \in Threads, RenameTemp(t) PROVE TypeOK'
    BY <1>16, <1>n DEF RenameTemp, Goto, Calls, memory, history, card
<1>17. ASSUME NEW t \in Threads, Apply(t) PROVE TypeOK'
    <2>1. Applied(arg[t]) \in ValidLists
        BY AppliedValid
    <2> QED
        BY <1>17, <2>1, <1>d DEF Apply, Unlock, Calls, card
<1>18. CASE Destroy
    BY <1>18, <1>d DEF Destroy, Forget, Calls, card
<1>19. CASE Crash
    BY <1>19, <1>d DEF Crash, Forget, Calls, card
<1>20. CASE Construct
    BY <1>20 DEF Construct, callers, card, history
<1>21. CASE Edit
    BY <1>21, <1>n, FilesAssumption DEF Edit, memory, callers, history
<1>22. CASE UNCHANGED vars
    BY <1>22 DEF vars, memory, callers, card, history
<1> QED
    BY <1>1, <1>2, <1>3, <1>4, <1>5, <1>6, <1>7, <1>8, <1>9, <1>10, <1>11, <1>12,
       <1>13, <1>14, <1>15, <1>16, <1>17, <1>18, <1>19, <1>20, <1>21, <1>22
    DEF Next, Step, Refresh, Load, PutSection

(* Every variable keeps its type: whatever text the file holds and         *)
(* whatever list a client requests, the values in memory are valid.        *)
THEOREM TypeCorrect == Spec => []TypeOK
BY TypeInit, TypeNext, PTL DEF Spec
-------------------------------------------------------------------------------
(* The mutex.                                                              *)

LEMMA MutexNext == TypeOK /\ MutexGuardsFile /\ [Next]_vars => MutexGuardsFile'
<1> SUFFICES ASSUME TypeOK, MutexGuardsFile, [Next]_vars PROVE MutexGuardsFile'
    OBVIOUS
<1> USE ThreadsAssumption DEF TypeOK, MutexGuardsFile
<1>1. ASSUME NEW t \in Threads, NEW at \in Calls \ {"idle"}, Lock(t, at)
      PROVE  MutexGuardsFile'
    BY <1>1 DEF Lock
<1>2. ASSUME NEW t \in Threads, call[t] # "idle", Unlock(t)
      PROVE  MutexGuardsFile'
    BY <1>2 DEF Unlock
<1>3. ASSUME NEW t \in Threads, NEW at \in Calls \ {"idle"},
             call[t] # "idle", Goto(t, at), configMutex' = configMutex
      PROVE  MutexGuardsFile'
    BY <1>3 DEF Goto
<1>4. ASSUME configMutex' = configMutex, call' = call
      PROVE  MutexGuardsFile'
    BY <1>4
<1>5. ASSUME Forget PROVE MutexGuardsFile'
    BY <1>5 DEF Forget
<1>6. ASSUME NEW t \in Threads, Step(t) PROVE MutexGuardsFile'
    <2>1. CASE RefreshHit(t) \/ HasLoaded(t) \/ GetConfigValues(t)
               \/ \E b \in BOOLEAN : SetEnabled(t, b)
        BY <2>1, <1>4 DEF RefreshHit, HasLoaded, GetConfigValues, SetEnabled,
                          vars, memory, callers
    <2>2. CASE RefreshBegin(t) \/ \E vals \in Requests : SetConfigValues(t, vals)
        BY <2>2, <1>1 DEF RefreshBegin, SetConfigValues, Calls
    <2>3. CASE LoadMissing(t) \/ LoadBrowse(t) \/ SaveFailed(t) \/ Apply(t)
        BY <2>3, <1>2 DEF LoadMissing, LoadBrowse, Loaded, SaveFailed, Apply
    <2>4. CASE \/ LoadStat(t) \/ CreateFile(t) \/ FillFile(t) \/ OpenTemp(t)
               \/ CopyToTemp(t) \/ RemoveOld(t) \/ RenameTemp(t)
        BY <2>4, <1>3 DEF LoadStat, CreateFile, FillFile, OpenTemp, CopyToTemp,
                          RemoveOld, RenameTemp, Calls, memory
    <2> QED
        BY <1>6, <2>1, <2>2, <2>3, <2>4 DEF Step, Refresh, Load, PutSection
<1>7. CASE Destroy \/ Crash
    BY <1>7, <1>5 DEF Destroy, Crash
<1>8. CASE Construct \/ Edit \/ UNCHANGED vars
    BY <1>8, <1>4 DEF Construct, Edit, vars, memory, callers
<1> QED
    BY <1>6, <1>7, <1>8 DEF Next

(* At any moment at most one thread is inside Load or ini_putsection: the  *)
(* holder of configMutex.                                                  *)
THEOREM MutualExclusion == Spec => []MutexGuardsFile
<1>1. Init => MutexGuardsFile
    BY ThreadsAssumption DEF Init, MutexGuardsFile
<1> QED
    BY <1>1, MutexNext, TypeCorrect, PTL DEF Spec

(* Nobody else works on the file while a thread does. *)
LEMMA Alone ==
    ASSUME MutexGuardsFile, NEW t \in Threads, call[t] # "idle"
    PROVE  /\ configMutex = t
           /\ \A u \in Threads \ {t} : call[u] = "idle"
BY DEF MutexGuardsFile

LEMMA AllIdle ==
    ASSUME MutexGuardsFile, configMutex = NoThread, NEW t \in Threads
    PROVE  call[t] = "idle"
BY ThreadsAssumption DEF MutexGuardsFile
-------------------------------------------------------------------------------
(* What readers see.  Outside the one window of Load in which the values   *)
(* are reset, memory is what was last published: the defaults a reload     *)
(* passes through and the cleared loaded flag exist only while a thread is *)
(* at "browse", and then it holds the mutex.                               *)
Quiet ==
    (\A t \in Threads : call[t] # "browse")
        => published = configValues /\ ready = loaded

LEMMA QuietNext ==
    TypeOK /\ MutexGuardsFile /\ Quiet /\ [Next]_vars => Quiet'
<1> SUFFICES ASSUME TypeOK, MutexGuardsFile, Quiet, [Next]_vars PROVE Quiet'
    OBVIOUS
<1> USE DEF TypeOK
<1> DEFINE same == UNCHANGED <<published, configValues, ready, loaded>>
<1>1. ASSUME same, call' = call PROVE Quiet'
    BY <1>1 DEF Quiet
<1>2. ASSUME NEW t \in Threads, NEW at, same, call[t] # "browse",
             call' = [call EXCEPT ![t] = at]
      PROVE  Quiet'
    BY <1>2 DEF Quiet
<1>3. ASSUME NEW t \in Threads, Step(t) PROVE Quiet'
    <2>1. CASE RefreshHit(t) \/ HasLoaded(t) \/ GetConfigValues(t)
               \/ \E b \in BOOLEAN : SetEnabled(t, b)
        BY <2>1, <1>1 DEF RefreshHit, HasLoaded, GetConfigValues, SetEnabled,
                          vars, memory, callers, history
    <2>2. CASE RefreshBegin(t) \/ \E vals \in Requests : SetConfigValues(t, vals)
        BY <2>2, <1>2 DEF RefreshBegin, SetConfigValues, Lock, history
    <2>3. CASE LoadStat(t)
        BY <2>3 DEF LoadStat, Goto, Quiet
    <2>4. CASE LoadMissing(t) \/ LoadBrowse(t)
        <3>1. published' = configValues' /\ ready' = loaded'
            BY <2>4 DEF LoadMissing, LoadBrowse, Loaded
        <3> QED
            BY <3>1 DEF Quiet
    <2>5. CASE SaveFailed(t)
        BY <2>5, <1>2 DEF SaveFailed, Unlock, history
    <2>6. CASE PutSection(t) /\ ~SaveFailed(t)
        BY <2>6, <1>2 DEF PutSection, CreateFile, FillFile, OpenTemp, CopyToTemp,
                          RemoveOld, RenameTemp, Goto, memory, history
    <2>7. CASE Apply(t)
        <3>1. \A u \in Threads : call[u] # "browse"
            BY <2>7, Alone DEF Apply
        <3> QED
            BY <2>7, <3>1 DEF Apply, Quiet
    <2> QED
        BY <1>3, <2>1, <2>2, <2>3, <2>4, <2>5, <2>6, <2>7
        DEF Step, Refresh, Load
<1>4. CASE Destroy \/ Crash
    BY <1>4 DEF Destroy, Crash, Forget, Quiet
<1>5. CASE Construct \/ Edit \/ UNCHANGED vars
    BY <1>5, <1>1 DEF Construct, Edit, vars, memory, callers, history
<1> QED
    BY <1>3, <1>4, <1>5 DEF Next

LEMMA QuietAlways == Spec => [](TypeOK /\ MutexGuardsFile /\ Quiet)
<1>1. Init => Quiet
    BY DEF Init, Quiet
<1> QED
    BY <1>1, QuietNext, TypeCorrect, MutualExclusion, PTL DEF Spec

(* Between two critical sections loaded never goes back to false, so the   *)
(* IPC handler may trust an earlier HasLoaded.                             *)
THEOREM LoadedStable == Spec => []LoadedIsStable
<1>1. TypeOK /\ MutexGuardsFile /\ Quiet => LoadedIsStable
    BY AllIdle DEF Quiet, LoadedIsStable
<1> QED
    BY <1>1, QuietAlways, PTL
-------------------------------------------------------------------------------
(* The refinement: seen from its readers the object is the store.          *)

LEMMA StoreStep ==
    TypeOK /\ TypeOK' /\ MutexGuardsFile /\ Quiet /\ [Next]_vars
        => [Store!Next]_(Store!vars)
<1> SUFFICES ASSUME TypeOK, TypeOK', MutexGuardsFile, Quiet, [Next]_vars
             PROVE  [Store!Next]_(Store!vars)
    OBVIOUS
<1>1. ASSUME UNCHANGED <<published, ready, view, told>>
      PROVE  [Store!Next]_(Store!vars)
    BY <1>1 DEF Store!vars
<1>2. ASSUME NEW t \in Threads, Step(t) PROVE [Store!Next]_(Store!vars)
    <2>1. CASE LoadMissing(t) \/ LoadBrowse(t) \/ Apply(t)
        <3>1. published' \in ValidLists
            BY DEF TypeOK
        <3>2. ready' \in {ready, TRUE} /\ UNCHANGED <<view, told>>
            BY <2>1 DEF LoadMissing, LoadBrowse, Apply, Loaded
        <3> QED
            BY <3>1, <3>2 DEF Store!Next, Store!Publish
    <2>2. CASE HasLoaded(t)
        <3>1. ready = loaded
            BY <2>2, AllIdle DEF HasLoaded, Quiet
        <3> QED
            BY <2>2, <3>1 DEF HasLoaded, Store!Next, Store!ReadReady
    <2>3. CASE GetConfigValues(t)
        <3>1. published = configValues
            BY <2>3, AllIdle DEF GetConfigValues, Quiet
        <3> QED
            BY <2>3, <3>1 DEF GetConfigValues, Store!Next, Store!ReadValues
    <2>4. CASE RefreshHit(t) \/ RefreshBegin(t) \/ LoadStat(t)
               \/ (\E b \in BOOLEAN : SetEnabled(t, b))
               \/ (\E vals \in Requests : SetConfigValues(t, vals))
        BY <2>4, <1>1 DEF RefreshHit, RefreshBegin, LoadStat, SetEnabled,
                          SetConfigValues, vars, history
    <2>5. CASE PutSection(t)
        BY <2>5, <1>1 DEF PutSection, SaveFailed, CreateFile, FillFile, OpenTemp,
                          CopyToTemp, RemoveOld, RenameTemp, history
    <2> QED
        BY <1>2, <2>1, <2>2, <2>3, <2>4, <2>5 DEF Step, Refresh, Load
<1>3. CASE Destroy \/ Crash
    BY <1>3 DEF Destroy, Crash, Forget, Store!Next, Store!Reset
<1>4. CASE Construct \/ Edit \/ UNCHANGED vars
    BY <1>4, <1>1 DEF Construct, Edit, vars, history
<1> QED
    BY <1>2, <1>3, <1>4 DEF Next

(* Readers only ever see whole published lists of valid values, and an     *)
(* announced load is never taken back: Config implements ConfigStore.      *)
THEOREM StoreImplemented == Spec => ImplementsStore
<1>1. Init => Store!Init
    BY DEF Init, Store!Init
<1> QED
    BY <1>1, StoreStep, QuietAlways, TypeCorrect, PTL
    DEF Spec, ImplementsStore, Store!Spec
-------------------------------------------------------------------------------
(* Staleness.  What is needed besides StaleIsNoticed itself: while a save  *)
(* is under way and until the values are applied, the file it leaves has a *)
(* time that differs from the remembered one, or there is no file.         *)
FreshStamp == disk = NoFile \/ mtime # stamp

StaleInv ==
    /\ loaded /\ ~FreshStamp => configValues = Browse(disk)
    /\ \A t \in Threads : call[t] \in {"fill", "rename", "apply"} => FreshStamp

LEMMA StaleNext ==
    ASSUME Faults \cap {"io", "sameStamp"} = {}
    PROVE  TypeOK /\ MutexGuardsFile /\ StaleInv /\ [Next]_vars => StaleInv'
<1> SUFFICES ASSUME TypeOK, MutexGuardsFile, StaleInv, [Next]_vars PROVE StaleInv'
    OBVIOUS
<1> USE DEF TypeOK
<1>w. "io" \notin Faults /\ NewStamps = Stamps \ {stamp, mtime}
    BY DEF NewStamps
<1>1. ASSUME UNCHANGED <<loaded, mtime, configValues, disk, stamp>>, call' = call
      PROVE  StaleInv'
    BY <1>1 DEF StaleInv, FreshStamp, Browse
<1>2. ASSUME NEW t \in Threads, NEW at \in Calls \ {"fill", "rename", "apply"},
             UNCHANGED <<loaded, mtime, configValues, disk, stamp>>,
             call' = [call EXCEPT ![t] = at]
      PROVE  StaleInv'
    BY <1>2 DEF StaleInv, FreshStamp, Browse
<1>3. ASSUME FreshStamp' PROVE StaleInv'
    BY <1>3 DEF StaleInv
<1>4. ASSUME NEW t \in Threads, Step(t) PROVE StaleInv'
    <2>1. CASE RefreshHit(t) \/ HasLoaded(t) \/ GetConfigValues(t)
               \/ \E b \in BOOLEAN : SetEnabled(t, b)
        BY <2>1, <1>1 DEF RefreshHit, HasLoaded, GetConfigValues, SetEnabled,
                          vars, memory, callers, card
    <2>2. CASE RefreshBegin(t) \/ \E vals \in Requests : SetConfigValues(t, vals)
        BY <2>2, <1>2 DEF RefreshBegin, SetConfigValues, Lock, Calls, card
    <2>3. CASE LoadStat(t)
        <3>1. \A u \in Threads : call'[u] \notin {"fill", "rename", "apply"}
            BY <2>3, Alone DEF LoadStat, Goto
        <3>2. ~loaded'
            BY <2>3 DEF LoadStat
        <3> QED
            BY <3>1, <3>2 DEF StaleInv
    <2>4. CASE LoadMissing(t)
        <3>1. disk' = NoFile
            BY <2>4, StampsAssumption DEF LoadMissing, CheckModificationTime, card
        <3> QED
            BY <3>1, <1>3 DEF FreshStamp
    <2>5. CASE LoadBrowse(t)
        <3>1. \A u \in Threads : call'[u] \notin {"fill", "rename", "apply"}
            BY <2>5, Alone DEF LoadBrowse, Loaded, Unlock
        <3>2. configValues' = Browse(disk) /\ disk' = disk
            BY <2>5, <1>w, TransferredWhole DEF LoadBrowse, Loaded, card
        <3>3. Browse(disk)' = Browse(disk)
            BY <3>2 DEF Browse
        <3> QED
            BY <3>1, <3>2, <3>3 DEF StaleInv
    <2>6. CASE SaveFailed(t)
        BY <2>6, <1>w DEF SaveFailed
    <2>7. CASE CreateFile(t) \/ FillFile(t)
        <3>1. FreshStamp'
            BY <2>7, <1>w DEF CreateFile, FillFile, FreshStamp, memory
        <3> QED
            BY <3>1, <1>3
    <2>8. CASE OpenTemp(t) \/ CopyToTemp(t)
        BY <2>8, <1>2 DEF OpenTemp, CopyToTemp, Goto, Calls, memory
    <2>9. CASE RemoveOld(t)
        <3>1. FreshStamp'
            BY <2>9, <1>w DEF RemoveOld, FreshStamp
        <3> QED
            BY <3>1, <1>3
    <2>10. CASE RenameTemp(t)
        <3>1. FreshStamp
            BY <2>10 DEF RenameTemp, StaleInv
        <3>2. FreshStamp'
            BY <2>10, <1>w, <3>1 DEF RenameTemp, FreshStamp, memory, card
        <3> QED
            BY <3>2, <1>3
    <2>11. CASE Apply(t)
        <3>1. FreshStamp'
            BY <2>11 DEF Apply, StaleInv, FreshStamp, card
        <3> QED
            BY <3>1, <1>3
    <2> QED
        BY <1>4, <2>1, <2>2, <2>3, <2>4, <2>5, <2>6, <2>7, <2>8, <2>9, <2>10, <2>11
        DEF Step, Refresh, Load, PutSection
<1>5. CASE Destroy \/ Crash
    BY <1>5 DEF Destroy, Crash, Forget, StaleInv
<1>6. CASE Construct \/ UNCHANGED vars
    BY <1>6, <1>1 DEF Construct, vars, memory, callers, card
<1>7. CASE Edit
    <2>1. FreshStamp'
        BY <1>7, <1>w DEF Edit, FreshStamp, memory
    <2> QED
        BY <2>1, <1>3
<1> QED
    BY <1>4, <1>5, <1>6, <1>7 DEF Next

(* As long as file operations succeed and modification times are distinct, *)
(* no interleaving of saves, loads, edits and crashes hides a difference   *)
(* between memory and the file from the next Refresh.                      *)
THEOREM StaleNoticed ==
    ASSUME Faults \cap {"io", "sameStamp"} = {}
    PROVE  Spec => []StaleIsNoticed
<1>1. Init => StaleInv
    BY DEF Init, StaleInv
<1>2. StaleInv => StaleIsNoticed
    BY DEF StaleInv, FreshStamp, StaleIsNoticed, CheckModificationTime
<1> QED
    BY <1>1, <1>2, StaleNext, TypeCorrect, MutualExclusion, PTL DEF Spec
-------------------------------------------------------------------------------
(* Durability.  Where the old and the new values are, at each file         *)
(* operation of a save: the file holds the old ones until it is removed,   *)
(* and by then the temporary holds the new ones.                           *)
SaveStage(t) ==
    /\ call[t] = "save"   => Browse(disk) = save.old
    /\ call[t] = "fill"   => Browse(disk) = save.old
    /\ call[t] = "copy"   => Browse(disk) = save.old
    /\ call[t] = "remove" => Browse(disk) = save.old /\ temp = Saved(arg[t])
    /\ call[t] = "rename" => disk = NoFile /\ temp = Saved(arg[t])
    /\ call[t] = "apply"  => disk = Saved(arg[t])

Saving == {"save", "fill", "copy", "remove", "rename", "apply"}

OwnInv ==
    /\ \A t \in Threads : call[t] \in Saving =>
          ~save.done /\ save.new = Applied(arg[t]) /\ SaveStage(t)
    /\ save.done => Browse(disk) = save.new
    /\ save.done /\ ready /\ (\A t \in Threads : call[t] # "browse")
          => configValues = save.new
    /\ CrashSafe

(* A save begins: whatever was edited before, the file holds the old values. *)
LEMMA SaveBegins ==
    ASSUME TypeOK, MutexGuardsFile, NEW t \in Threads, NEW vals \in Requests,
           SetConfigValues(t, vals)
    PROVE  OwnInv'
<1> USE DEF TypeOK
<1>1. \A u \in Threads \ {t} : call'[u] = "idle"
    BY AllIdle DEF SetConfigValues, Lock
<1>2. call'[t] = "save" /\ arg'[t] = vals /\ disk' = disk
    BY DEF SetConfigValues, Lock, card
<1>3. save' = [old |-> Browse(disk), new |-> Applied(vals), done |-> FALSE, alone |-> TRUE]
    BY DEF SetConfigValues
<1>4. Browse(disk)' = Browse(disk) /\ Applied(arg[t])' = Applied(vals)
    BY <1>2 DEF Browse, Applied
<1>5. save'.old = Browse(disk) /\ save'.new = Applied(vals) /\ ~save'.done
    BY <1>3
<1>6. SaveStage(t)' /\ CrashSafe'
    BY <1>2, <1>4, <1>5 DEF SaveStage, CrashSafe
<1> QED
    BY <1>1, <1>2, <1>4, <1>5, <1>6 DEF OwnInv, Saving

LEMMA OwnNext ==
    ASSUME "io" \notin Faults
    PROVE  TypeOK /\ MutexGuardsFile /\ OwnInv /\ [Next]_vars => Edit \/ OwnInv'
<1> SUFFICES ASSUME TypeOK, MutexGuardsFile, OwnInv, [Next]_vars, ~Edit PROVE OwnInv'
    OBVIOUS
<1> USE DEF TypeOK
<1>w. "io" \notin Faults
    OBVIOUS
<1>b. ASSUME disk' = disk PROVE Browse(disk)' = Browse(disk)
    BY <1>b DEF Browse
<1>1. ASSUME UNCHANGED <<call, arg, disk, temp, save, ready, configValues>>
      PROVE  OwnInv'
    <2>1. Browse(disk)' = Browse(disk) /\ CrashSafe' = CrashSafe
        BY <1>1 DEF Browse, CrashSafe
    <2>2. \A t \in Threads : Saved(arg[t])' = Saved(arg[t]) /\ Applied(arg[t])' = Applied(arg[t])
        BY <1>1 DEF Saved, Applied
    <2>3. \A t \in Threads : SaveStage(t)' <=> SaveStage(t)
        BY <1>1, <2>1, <2>2 DEF SaveStage
    <2> QED
        BY <1>1, <2>1, <2>2, <2>3 DEF OwnInv
<1>2. ASSUME UNCHANGED <<disk, temp, save>>,
             \A t \in Threads : call'[t] \notin Saving,
             save.done /\ ready' /\ (\A t \in Threads : call'[t] # "browse")
                => configValues' = save.new
      PROVE  OwnInv'
    BY <1>2 DEF OwnInv, CrashSafe, Browse
(* One file operation of a save. *)
<1>3. ASSUME NEW t \in Threads, call[t] \in Saving, call'[t] \in Saving,
             \A u \in Threads \ {t} : call'[u] = call[u],
             UNCHANGED <<arg, save>>, SaveStage(t)', CrashSafe'
      PROVE  OwnInv'
    <2>1. \A u \in Threads \ {t} : call'[u] = "idle"
        BY <1>3, Alone DEF Saving
    <2>2. ~save.done /\ save.new = Applied(arg[t])
        BY <1>3 DEF OwnInv
    <2>3. save.new' = Applied(arg[t])'
        BY <1>3, <2>2 DEF Applied
    <2> QED
        BY <1>3, <2>1, <2>2, <2>3 DEF OwnInv, Saving
<1>4. ASSUME NEW t \in Threads, Step(t) PROVE OwnInv'
    <2>1. CASE RefreshHit(t) \/ HasLoaded(t) \/ GetConfigValues(t)
               \/ \E b \in BOOLEAN : SetEnabled(t, b)
        BY <2>1, <1>1 DEF RefreshHit, HasLoaded, GetConfigValues, SetEnabled,
                          vars, memory, callers, card, history
    <2>2. CASE RefreshBegin(t)
        <3>1. \A u \in Threads : call[u] = "idle"
            BY <2>2, AllIdle DEF RefreshBegin, Lock
        <3>2. \A u \in Threads : call'[u] \notin Saving
            BY <2>2, <3>1 DEF RefreshBegin, Lock, Saving
        <3>3. save.done /\ ready => configValues = save.new
            BY <3>1 DEF OwnInv
        <3> QED
            BY <2>2, <3>2, <3>3, <1>2 DEF RefreshBegin, card, history
    <2>3. CASE LoadStat(t)
        <3>1. \A u \in Threads : call'[u] \notin Saving
            BY <2>3, Alone DEF LoadStat, Goto, Saving
        <3>2. call'[t] = "browse"
            BY <2>3 DEF LoadStat, Goto
        <3> QED
            BY <2>3, <3>1, <3>2, <1>2 DEF LoadStat, card, history
    <2>4. CASE LoadMissing(t) \/ LoadBrowse(t)
        <3>1. \A u \in Threads : call'[u] \notin Saving
            BY <2>4, Alone DEF LoadMissing, LoadBrowse, Loaded, Unlock, Saving
        <3>2. configValues' = Browse(disk)
            <4>1. CASE LoadMissing(t)
                <5>1. disk = NoFile
                    BY <4>1, StampsAssumption DEF LoadMissing, CheckModificationTime
                <5> QED
                    BY <4>1, <5>1, BrowseNothing DEF LoadMissing, Loaded
            <4>2. CASE LoadBrowse(t)
                BY <4>2, <1>w, TransferredWhole DEF LoadBrowse, Loaded
            <4> QED
                BY <2>4, <4>1, <4>2
        <3>3. save.done => configValues' = save.new
            BY <3>2 DEF OwnInv
        <3> QED
            BY <2>4, <3>1, <3>3, <1>2 DEF LoadMissing, LoadBrowse, card
    <2>5. CASE \E vals \in Requests : SetConfigValues(t, vals)
        BY <2>5, SaveBegins
    <2>6. CASE SaveFailed(t)
        BY <2>6, <1>w DEF SaveFailed
    <2>7. CASE CreateFile(t)
        <3>1. save.old = DefaultValue
            BY <2>7, <1>w, BrowseNothing DEF CreateFile, OwnInv, SaveStage, Saving
        <3>2. disk' = Empty /\ Browse(disk)' = save.old
            BY <2>7, <3>1, BrowseNothing DEF CreateFile, Browse
        <3>3. call'[t] = "fill" /\ UNCHANGED save
            BY <2>7 DEF CreateFile, Goto, history
        <3>4. SaveStage(t)' /\ CrashSafe'
            BY <3>2, <3>3 DEF SaveStage, CrashSafe
        <3> QED
            BY <2>7, <3>3, <3>4, <1>3 DEF CreateFile, Goto, Saving, history
    <2>8. CASE FillFile(t)
        <3>1. disk' = Saved(arg[t])
            BY <2>8, <1>w, TransferredWhole DEF FillFile
        <3>2. call'[t] = "apply" /\ UNCHANGED <<save, arg>>
            BY <2>8 DEF FillFile, Goto, history
        <3>3. SaveStage(t)'
            BY <3>1, <3>2 DEF SaveStage, Saved
        <3>4. save.new = Browse(Saved(arg[t]))
            BY <2>8, RoundTrip DEF FillFile, OwnInv, Saving
        <3>5. CrashSafe'
            BY <3>1, <3>2, <3>4 DEF CrashSafe, Browse, Saved
        <3> QED
            BY <2>8, <3>2, <3>3, <3>5, <1>3 DEF FillFile, Goto, Saving
    <2>9. CASE OpenTemp(t) \/ CopyToTemp(t)
        <3>1. Browse(disk)' = save.old /\ UNCHANGED <<save, arg>>
            BY <2>9, <1>b DEF OpenTemp, CopyToTemp, OwnInv, SaveStage, Saving, history
        <3>2. \/ call'[t] = "copy"
              \/ call'[t] = "remove" /\ temp' = Saved(arg[t])
            BY <2>9, <1>w, TransferredWhole DEF OpenTemp, CopyToTemp, Goto
        <3>3. SaveStage(t)' /\ CrashSafe'
            BY <3>1, <3>2 DEF SaveStage, CrashSafe, Saved
        <3> QED
            BY <2>9, <3>1, <3>2, <3>3, <1>3 DEF OpenTemp, CopyToTemp, Goto, Saving
    <2>10. CASE RemoveOld(t)
        <3>1. disk' = NoFile /\ temp' = Saved(arg[t]) /\ UNCHANGED <<save, arg>>
            BY <2>10, <1>w DEF RemoveOld, OwnInv, SaveStage, Saving, history
        <3>2. call'[t] = "rename"
            BY <2>10 DEF RemoveOld, Goto
        <3>3. save.new = Browse(Saved(arg[t])) /\ Saved(arg[t]) # NoFile
            BY <2>10, RoundTrip, SavedContent, FilesAssumption
            DEF RemoveOld, OwnInv, Saving
        <3>4. SaveStage(t)' /\ CrashSafe'
            BY <3>1, <3>2, <3>3 DEF SaveStage, CrashSafe, Saved, Browse
        <3> QED
            BY <2>10, <3>1, <3>2, <3>4, <1>3 DEF RemoveOld, Goto, Saving
    <2>11. CASE RenameTemp(t)
        <3>1. disk = NoFile /\ temp = Saved(arg[t])
            BY <2>11 DEF RenameTemp, OwnInv, SaveStage, Saving
        <3>2. disk' = Saved(arg[t]) /\ UNCHANGED <<save, arg>>
            BY <2>11, <3>1, <1>w DEF RenameTemp, history
        <3>3. call'[t] = "apply"
            BY <2>11 DEF RenameTemp, Goto
        <3>4. save.new = Browse(Saved(arg[t]))
            BY <2>11, RoundTrip DEF RenameTemp, OwnInv, Saving
        <3>5. SaveStage(t)' /\ CrashSafe'
            BY <3>2, <3>3, <3>4 DEF SaveStage, CrashSafe, Saved, Browse
        <3> QED
            BY <2>11, <3>2, <3>3, <3>5, <1>3 DEF RenameTemp, Goto, Saving
    <2>12. CASE Apply(t)
        <3>1. disk = Saved(arg[t]) /\ save.new = Applied(arg[t])
            BY <2>12 DEF Apply, OwnInv, SaveStage, Saving
        <3>2. Browse(disk) = save.new
            BY <3>1, RoundTrip
        <3>3. save'.new = save.new /\ save'.old = save.old
            BY <2>12 DEF Apply
        <3>4. \A u \in Threads : call'[u] = "idle"
            BY <2>12, Alone DEF Apply, Unlock
        <3>5. Browse(disk)' = save'.new /\ configValues' = save'.new
            BY <2>12, <3>1, <3>2, <3>3, <1>b DEF Apply, card
        <3> QED
            BY <3>4, <3>5 DEF OwnInv, CrashSafe, Saving
    <2> QED
        BY <1>4, <2>1, <2>2, <2>3, <2>4, <2>5, <2>6, <2>7, <2>8, <2>9, <2>10,
           <2>11, <2>12 DEF Step, Refresh, Load, PutSection
<1>5. CASE Destroy \/ Crash
    BY <1>5, <1>2 DEF Destroy, Crash, Forget, Saving, card
<1>6. CASE Construct \/ UNCHANGED vars
    BY <1>6, <1>1 DEF Construct, vars, memory, callers, card, history
<1> QED
    BY <1>4, <1>5, <1>6 DEF Next

(* The file is as the latest save left it until somebody else writes it. *)
DurableInv == save.alone => OwnInv

LEMMA DurableNext ==
    ASSUME "io" \notin Faults
    PROVE  TypeOK /\ MutexGuardsFile /\ DurableInv /\ [Next]_vars => DurableInv'
<1> SUFFICES ASSUME TypeOK, MutexGuardsFile, DurableInv, [Next]_vars PROVE DurableInv'
    OBVIOUS
<1> USE DEF TypeOK
<1>1. CASE Edit
    BY <1>1 DEF Edit, DurableInv
<1>2. ASSUME NEW t \in Threads, NEW vals \in Requests, SetConfigValues(t, vals)
      PROVE  DurableInv'
    BY <1>2, SaveBegins DEF DurableInv
<1>3. ASSUME ~Edit, save'.alone = save.alone PROVE DurableInv'
    BY <1>3, OwnNext DEF DurableInv
<1>4. ASSUME UNCHANGED save, ~Edit PROVE DurableInv'
    BY <1>3, <1>4
<1>5. ASSUME NEW t \in Threads, Step(t), ~Edit PROVE DurableInv'
    <2>1. CASE RefreshHit(t) \/ RefreshBegin(t) \/ Load(t) \/ HasLoaded(t)
               \/ GetConfigValues(t) \/ (\E b \in BOOLEAN : SetEnabled(t, b))
        BY <2>1, <1>4, <1>5 DEF RefreshHit, RefreshBegin, Load, LoadStat, LoadMissing,
                     LoadBrowse, HasLoaded, GetConfigValues, SetEnabled, vars, history
    <2>2. CASE PutSection(t)
        BY <2>2, <1>4, <1>5 DEF PutSection, SaveFailed, CreateFile, FillFile, OpenTemp,
                     CopyToTemp, RemoveOld, RenameTemp, history
    <2>3. CASE Apply(t)
        BY <2>3, <1>3, <1>5 DEF Apply
    <2> QED
        BY <1>2, <1>5, <2>1, <2>2, <2>3 DEF Step, Refresh
<1>6. CASE (Destroy \/ Crash \/ Construct \/ UNCHANGED vars) /\ ~Edit
    BY <1>6, <1>4 DEF Destroy, Crash, Forget, Construct, vars, history
<1> QED
    BY <1>1, <1>5, <1>6 DEF Next

LEMMA DurableAlways ==
    ASSUME "io" \notin Faults
    PROVE  Spec => [](MutexGuardsFile /\ DurableInv)
<1>1. Init => DurableInv
    BY DEF Init, DurableInv, OwnInv, CrashSafe, Saving
<1> QED
    BY <1>1, DurableNext, TypeCorrect, MutualExclusion, PTL DEF Spec

(* On a working card an accepted save is what the file and, after any      *)
(* reload, restart or crash, memory hold until the next save begins or     *)
(* somebody else writes the file.                                          *)
THEOREM SaveDurable ==
    ASSUME "io" \notin Faults
    PROVE  Spec => []SaveIsDurable
<1>1. MutexGuardsFile /\ DurableInv => SaveIsDurable
    BY AllIdle DEF DurableInv, OwnInv, SaveIsDurable
<1> QED
    BY <1>1, DurableAlways, PTL

(* Wherever a save is interrupted, the old values or the new ones are on   *)
(* the card, complete, unless somebody else wrote there.                   *)
THEOREM InterruptedSave ==
    ASSUME "io" \notin Faults
    PROVE  Spec => []CrashSafe
<1>1. DurableInv => CrashSafe
    BY DEF DurableInv, OwnInv, CrashSafe
<1> QED
    BY <1>1, DurableAlways, PTL
===============================================================================
