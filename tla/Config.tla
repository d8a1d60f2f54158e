-------------------------------- MODULE Config --------------------------------
(***************************************************************************)
(* class Config of the sysmodule (sysmodule/source/config.cpp): the        *)
(* configuration values in memory, the mutex that guards them, the INI     *)
(* file they are loaded from and saved to, and the temporary file          *)
(* ini_putsection rewrites it through.                                     *)
(*                                                                         *)
(* A method that takes configMutex and only reads is one step.  Load and   *)
(* SetConfigValues hold the mutex across file operations and are split     *)
(* where the other thread, the outside world or a crash can come between:  *)
(* call[t] says which file operation thread t does next.                   *)
(*                                                                         *)
(* A file is abstracted to the numeric texts of the [values] section.      *)
(***************************************************************************)
EXTENDS Integers

CONSTANTS
    Threads,       \* threads that call into the object
    NoThread,      \* "the mutex is free"
    Keys,          \* SysHeloConfigValue without EnumMax
    SignBit,       \* 2^63 in the program: values are below 2 * SignBit
    DefaultValue,  \* sysHeloDefaultConfigValue
    Requests,      \* the lists SetConfigValues is called with
    NoFile,        \* stands for a file that does not exist
    Files,         \* what an outside writer may leave at the path
    Stamps,        \* modification times
    Faults         \* what may go wrong: see FaultsAssumption

VARIABLES
    alive,         \* the object has been constructed and not destroyed
    configMutex,   \* its holder, or NoThread
    loaded, mtime, configValues, enabled,   \* the members of the object
    call,          \* call[t]: what thread t does next inside the object
    arg,           \* arg[t]: the list thread t is saving
    disk, stamp,   \* the file at the path and its modification time
    temp,          \* the file at the temporary name
    \* history, read by properties only:
    view, told,    \* what readers were last answered
    published, ready,  \* values and loaded flag when last unlocked by a writer
    save           \* the latest save: file values before, after, accepted,
                   \* and nobody else has written the file since it began

memory  == <<alive, configMutex, loaded, mtime, configValues, enabled>>
callers == <<call, arg>>
card    == <<disk, stamp, temp>>
history == <<view, told, published, ready, save>>
vars    == <<memory, callers, card, history>>
-------------------------------------------------------------------------------
(* Values, and their text in the file.                                     *)

Val == 0 .. 2 * SignBit - 1
ValueLists == [Keys -> Val]

(* sysHeloValidConfigValue *)
Valid(k, v) == v > 0
ValidLists == {vals \in ValueLists : \A k \in Keys : Valid(k, vals[k])}

(* The numeric texts of the keys present in the section.  A text that is   *)
(* no number reads as 0; the extreme ones stand for all that overflow.     *)
Text == -2 * SignBit .. 2 * SignBit
Contents == UNION {[K -> Text] : K \in SUBSET Keys}
Empty == [k \in {} |-> 0]

ASSUME ThreadsAssumption  == NoThread \notin Threads
ASSUME SignBitAssumption  == SignBit \in Nat \ {0}
ASSUME DefaultAssumption  == DefaultValue \in ValidLists
ASSUME RequestsAssumption == Requests \subseteq ValueLists
ASSUME FilesAssumption    == NoFile \notin Contents /\ Files \subseteq Contents \cup {NoFile}
ASSUME StampsAssumption   == Stamps \subseteq Nat \ {0}
ASSUME FaultsAssumption   == Faults \subseteq
    { "edit",        \* someone else writes or deletes the file
      "sameStamp",   \* two writes within the granularity of the clock
      "io",          \* opening, reading, writing, removing or renaming fails
      "crash" }      \* the process dies at any point

(* snprintf("%ld") prints the unsigned value as a signed one *)
Printed(v) == IF v < SignBit THEN v ELSE v - 2 * SignBit

(* mutant of Strtoul: read as a signed number (strtol), clipped at 0 *)
StrtoulSigned(n) ==
    IF n >= SignBit THEN SignBit - 1 ELSE IF n < 0 THEN 0 ELSE n

(* strtoul negates modulo 2^64 after a minus sign and saturates on overflow *)
Strtoul(n) ==
    IF n >= 2 * SignBit \/ n <= -2 * SignBit THEN 2 * SignBit - 1
    ELSE IF n < 0 THEN n + 2 * SignBit ELSE n

(* mutant of Browse: without the validity check *)
BrowseUnchecked(file) ==
    [k \in Keys |->
        IF file # NoFile /\ k \in DOMAIN file THEN Strtoul(file[k]) ELSE DefaultValue[k]]

(* ini_browse with BrowseIniFunc, over values just reset to the defaults *)
Browse(file) ==
    [k \in Keys |->
        IF file # NoFile /\ k \in DOMAIN file /\ Valid(k, Strtoul(file[k]))
        THEN Strtoul(file[k])
        ELSE DefaultValue[k]]

(* The section SetConfigValues hands to ini_putsection *)
Saved(vals) ==
    [k \in {j \in Keys : Valid(j, vals[j]) /\ vals[j] # DefaultValue[j]}
        |-> Printed(vals[k])]

(* What SetConfigValues leaves in memory *)
Applied(vals) ==
    [k \in Keys |-> IF Valid(k, vals[k]) THEN vals[k] ELSE DefaultValue[k]]

(* The outcomes of reading or writing a whole file: parts of it get lost   *)
(* when the operation fails half way, which the library does not report.   *)
Transferred(file) ==
    IF file # NoFile /\ "io" \in Faults
    THEN {[k \in K |-> file[k]] : K \in SUBSET DOMAIN file}
    ELSE {file}

(* CheckModificationTime: 0 when stat fails *)
CheckModificationTime == IF disk = NoFile THEN 0 ELSE stamp

(* A modification time given to a file: different from the times that can *)
(* still be compared with it, unless the clock is too coarse.              *)
NewStamps == IF "sameStamp" \in Faults THEN Stamps ELSE Stamps \ {stamp, mtime}
-------------------------------------------------------------------------------
(* Before the object is constructed *)
Init ==
    /\ alive = FALSE
    /\ configMutex = NoThread
    /\ loaded = FALSE
    /\ mtime = 0
    /\ configValues = DefaultValue
    /\ enabled = FALSE
    /\ call = [t \in Threads |-> "idle"]
    /\ arg = [t \in Threads |-> DefaultValue]
    /\ view = DefaultValue
    /\ told = FALSE
    /\ published = DefaultValue
    /\ ready = FALSE
    /\ disk \in Files
    /\ stamp \in Stamps
    /\ temp = NoFile
    /\ save = [old |-> Browse(disk), new |-> Browse(disk), done |-> FALSE, alone |-> TRUE]

(* Taking and releasing the scoped_lock *)
Lock(t, at) ==
    /\ alive
    /\ call[t] = "idle"
    /\ configMutex = NoThread
    /\ configMutex' = t
    /\ call' = [call EXCEPT ![t] = at]

Unlock(t) ==
    /\ configMutex' = NoThread
    /\ call' = [call EXCEPT ![t] = "idle"]
    /\ arg' = [arg EXCEPT ![t] = DefaultValue]

Goto(t, at) == call' = [call EXCEPT ![t] = at]
-------------------------------------------------------------------------------
(* Refresh and Load                                                        *)

(* mutant of UpToDate: reads the file once *)
UpToDateOnceLoaded == loaded

UpToDate == loaded /\ mtime = CheckModificationTime

RefreshHit(t) ==
    /\ alive
    /\ call[t] = "idle"
    /\ configMutex = NoThread
    /\ UpToDate
    /\ UNCHANGED vars

RefreshBegin(t) ==
    /\ ~UpToDate
    /\ Lock(t, "load")
    /\ UNCHANGED <<alive, loaded, mtime, configValues, enabled, arg, card, history>>

(* Close, then stat the path a second time *)
LoadStat(t) ==
    /\ call[t] = "load"
    /\ CheckModificationTime # 0
    /\ loaded' = FALSE
    /\ configValues' = DefaultValue
    /\ mtime' = CheckModificationTime
    /\ Goto(t, "browse")
    /\ UNCHANGED <<alive, configMutex, enabled, arg, card, history>>

Loaded(t, vals) ==
    /\ loaded' = TRUE
    /\ configValues' = vals
    /\ Unlock(t)
    /\ published' = vals
    /\ ready' = TRUE

LoadMissing(t) ==
    /\ call[t] = "load"
    /\ CheckModificationTime = 0
    /\ mtime' = 0
    /\ Loaded(t, DefaultValue)
    /\ UNCHANGED <<alive, enabled, card, view, told, save>>

(* The file may have gone since the stat: ini_browse then fails and the    *)
(* defaults stay.                                                          *)
LoadBrowse(t) ==
    /\ call[t] = "browse"
    /\ \E file \in Transferred(disk) : Loaded(t, Browse(file))
    /\ UNCHANGED <<alive, mtime, enabled, card, view, told, save>>
-------------------------------------------------------------------------------
(* The readers                                                             *)

HasLoaded(t) ==
    /\ alive
    /\ call[t] = "idle"
    /\ configMutex = NoThread
    /\ told' = loaded
    /\ UNCHANGED <<memory, callers, card, view, published, ready, save>>

(* mutant of GetConfigValues: copies without the lock *)
GetConfigValuesUnlocked(t) ==
    /\ alive
    /\ call[t] = "idle"
    /\ view' = configValues
    /\ UNCHANGED <<memory, callers, card, told, published, ready, save>>

(* GetConfigValue(s) *)
GetConfigValues(t) ==
    /\ alive
    /\ call[t] = "idle"
    /\ configMutex = NoThread
    /\ view' = configValues
    /\ UNCHANGED <<memory, callers, card, told, published, ready, save>>

(* An atomic_bool, outside the mutex *)
SetEnabled(t, b) ==
    /\ alive
    /\ call[t] = "idle"
    /\ enabled' = b
    /\ UNCHANGED <<alive, configMutex, loaded, mtime, configValues, callers, card, history>>
-------------------------------------------------------------------------------
(* SetConfigValues and ini_putsection                                      *)

SetConfigValues(t, vals) ==
    /\ Lock(t, "save")
    /\ arg' = [arg EXCEPT ![t] = vals]
    /\ save' = [old |-> Browse(disk), new |-> Applied(vals), done |-> FALSE, alone |-> TRUE]
    /\ UNCHANGED <<alive, loaded, mtime, configValues, enabled, card,
                   view, told, published, ready>>

(* Neither the file nor its temporary could be opened for writing: the     *)
(* only failure ini_putsection reports.                                    *)
SaveFailed(t) ==
    /\ call[t] = "save"
    /\ "io" \in Faults
    /\ Unlock(t)
    /\ UNCHANGED <<alive, loaded, mtime, configValues, enabled, card, history>>

(* No file to read: fopen(path, "wb") creates it in place, and truncates a *)
(* file that could not be opened for reading.                              *)
CreateFile(t) ==
    /\ call[t] = "save"
    /\ disk = NoFile \/ "io" \in Faults
    /\ disk' = Empty
    /\ stamp' \in NewStamps
    /\ Goto(t, "fill")
    /\ UNCHANGED <<memory, arg, temp, history>>

FillFile(t) ==
    /\ call[t] = "fill"
    /\ disk' \in Transferred(Saved(arg[t]))
    /\ stamp' \in NewStamps
    /\ Goto(t, "apply")
    /\ UNCHANGED <<memory, arg, temp, history>>

(* mutant of OpenTemp: rewrites the file itself (ini_openrewrite) *)
OpenInPlace(t) ==
    /\ call[t] = "save"
    /\ disk # NoFile
    /\ disk' = Empty
    /\ stamp' \in NewStamps
    /\ Goto(t, "fill")
    /\ UNCHANGED <<memory, arg, temp, history>>

OpenTemp(t) ==
    /\ call[t] = "save"
    /\ disk # NoFile
    /\ temp' = Empty
    /\ Goto(t, "copy")
    /\ UNCHANGED <<memory, arg, disk, stamp, history>>

CopyToTemp(t) ==
    /\ call[t] = "copy"
    /\ temp' \in Transferred(Saved(arg[t]))
    /\ Goto(t, "remove")
    /\ UNCHANGED <<memory, arg, disk, stamp, history>>

(* close_rename ignores what remove and rename return *)
RemoveOld(t) ==
    /\ call[t] = "remove"
    /\ \/ disk' = NoFile
       \/ "io" \in Faults /\ disk' = disk
    /\ Goto(t, "rename")
    /\ UNCHANGED <<memory, arg, stamp, temp, history>>

RenameTemp(t) ==
    /\ call[t] = "rename"
    /\ \/ /\ disk = NoFile
          /\ disk' = temp
          /\ temp' = NoFile
          /\ stamp' \in NewStamps
       \/ /\ disk # NoFile \/ "io" \in Faults
          /\ UNCHANGED card
    /\ Goto(t, "apply")
    /\ UNCHANGED <<memory, arg, history>>

(* mutant of Apply: remembers the time of what it believes it wrote *)
ApplyRemembersTime(t) ==
    /\ call[t] = "apply"
    /\ configValues' = Applied(arg[t])
    /\ mtime' = CheckModificationTime
    /\ Unlock(t)
    /\ published' = Applied(arg[t])
    /\ save' = [save EXCEPT !.done = TRUE]
    /\ UNCHANGED <<alive, loaded, enabled, card, view, told, ready>>

(* The in-memory half; its one caller passes immediate = true *)
Apply(t) ==
    /\ call[t] = "apply"
    /\ configValues' = Applied(arg[t])
    /\ Unlock(t)
    /\ published' = Applied(arg[t])
    /\ save' = [save EXCEPT !.done = TRUE]
    /\ UNCHANGED <<alive, loaded, mtime, enabled, card, view, told, ready>>
-------------------------------------------------------------------------------
(* The life of the object and the world around it                          *)

Forget ==
    /\ alive' = FALSE
    /\ configMutex' = NoThread
    /\ loaded' = FALSE
    /\ mtime' = 0
    /\ configValues' = DefaultValue
    /\ enabled' = FALSE
    /\ call' = [t \in Threads |-> "idle"]
    /\ arg' = [t \in Threads |-> DefaultValue]
    /\ view' = DefaultValue
    /\ told' = FALSE
    /\ published' = DefaultValue
    /\ ready' = FALSE
    /\ UNCHANGED <<card, save>>

(* ~Config: its owner calls it when no other thread uses the object *)
Destroy ==
    /\ alive
    /\ configMutex = NoThread
    /\ Forget

Crash ==
    /\ "crash" \in Faults
    /\ alive
    /\ Forget

(* The constructor: memory is as in Init *)
Construct ==
    /\ ~alive
    /\ alive' = TRUE
    /\ UNCHANGED <<configMutex, loaded, mtime, configValues, enabled,
                   callers, card, history>>

(* Someone else's program writes, replaces or deletes the file: not while  *)
(* it is open for writing or being copied.                                 *)
Edit ==
    /\ "edit" \in Faults
    /\ \A t \in Threads : call[t] \notin {"fill", "copy"}
    /\ disk' \in Files
    /\ stamp' \in NewStamps
    /\ save' = [save EXCEPT !.alone = FALSE]
    /\ UNCHANGED <<memory, callers, temp, view, told, published, ready>>

Refresh(t) == RefreshHit(t) \/ RefreshBegin(t)

Load(t) == LoadStat(t) \/ LoadMissing(t) \/ LoadBrowse(t)

PutSection(t) ==
    \/ SaveFailed(t) \/ CreateFile(t) \/ FillFile(t)
    \/ OpenTemp(t) \/ CopyToTemp(t) \/ RemoveOld(t) \/ RenameTemp(t)

Step(t) ==
    \/ Refresh(t) \/ Load(t)
    \/ HasLoaded(t) \/ GetConfigValues(t)
    \/ \E b \in BOOLEAN : SetEnabled(t, b)
    \/ \E vals \in Requests : SetConfigValues(t, vals)
    \/ PutSection(t) \/ Apply(t)

Next ==
    \/ \E t \in Threads : Step(t)
    \/ Destroy \/ Crash \/ Construct \/ Edit

Spec == Init /\ [][Next]_vars
-------------------------------------------------------------------------------
Calls == {"idle", "load", "browse", "save", "fill", "copy", "remove", "rename", "apply"}

(* The type of every variable; in particular whatever text the file holds  *)
(* and whatever list is requested, memory only ever holds valid values.    *)
TypeOK ==
    /\ alive \in BOOLEAN
    /\ configMutex \in Threads \cup {NoThread}
    /\ loaded \in BOOLEAN
    /\ mtime \in Stamps \cup {0}
    /\ configValues \in ValidLists
    /\ enabled \in BOOLEAN
    /\ call \in [Threads -> Calls]
    /\ arg \in [Threads -> ValueLists]
    /\ disk \in Contents \cup {NoFile}
    /\ stamp \in Stamps
    /\ temp \in Contents \cup {NoFile}
    /\ view \in ValidLists
    /\ told \in BOOLEAN
    /\ published \in ValidLists
    /\ ready \in BOOLEAN
    /\ save \in [old : ValidLists, new : ValidLists, done : BOOLEAN, alone : BOOLEAN]

(* Only the holder of configMutex is inside Load or ini_putsection, so two *)
(* threads never work on the file, the temporary or the values at once.    *)
MutexGuardsFile ==
    \A t \in Threads : call[t] # "idle" <=> configMutex = t

(* The IPC handler asks HasLoaded and takes the values in a second         *)
(* critical section.  A "yes" cannot go stale in between: after the first  *)
(* load, whoever gets the mutex finds loaded set, although every later     *)
(* Refresh clears it while it reads the file.                              *)
LoadedIsStable ==
    ready /\ configMutex = NoThread => loaded

(* A difference between memory and an existing file is one the next        *)
(* Refresh will notice: the modification times differ.  In particular a    *)
(* save, which does not touch mtime, cannot hide a later edit.  Read       *)
(* errors and a coarse clock (faults "io", "sameStamp") break this.        *)
StaleIsNoticed ==
    configMutex = NoThread /\ loaded /\ disk # NoFile /\ configValues # Browse(disk)
        => mtime # CheckModificationTime

(* A save that was accepted stays accepted: until the next save begins or  *)
(* somebody else writes the file, it reads back as the values applied to   *)
(* memory, and so does memory after any later Refresh or restart, whatever *)
(* crashes in between and whatever was edited before.  (The card works.)   *)
SaveIsDurable ==
    save.done /\ save.alone =>
        /\ Browse(disk) = save.new
        /\ ready /\ configMutex = NoThread => configValues = save.new

(* A save that is interrupted at any point leaves the old values or the    *)
(* new ones, or -- between remove and rename -- no file and the new values *)
(* complete under the temporary name: never a mixture, never nothing.      *)
CrashSafe ==
    save.alone =>
        \/ Browse(disk) \in {save.old, save.new}
        \/ disk = NoFile /\ temp # NoFile /\ Browse(temp) = save.new

(* The comment in SetConfigValues: changes are applied in memory only      *)
(* after a successful save, that is when the file holds them.              *)
ApplyOnlyAfterSave ==
    \A t \in Threads :
        call[t] = "apply" => disk # NoFile /\ disk = Saved(arg[t])

(* Readers see one whole published list, never the defaults a reload       *)
(* passes through, and loads are never unannounced: the object implements  *)
(* the store of module ConfigStore.                                        *)
Store == INSTANCE ConfigStore WITH
    Lists <- ValidLists, Default <- DefaultValue, committed <- published

ImplementsStore == Store!Spec
===============================================================================
