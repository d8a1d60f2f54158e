# sys-helo: TLA+ models, checks and proofs

sys-helo is a background process (sysmodule) for the Horizon operating system. It looks at
which application is in the foreground, keeps a small configuration in an INI file on the SD card
and answers clients (an overlay) over IPC. This directory models what makes that correct: two
threads, two mutexes, a file that others edit too, a card that fails, clients that die, applications
that come and go.

## 1. Inventory

| Component | State it keeps | Operations | Where |
|---|---|---|---|
| `Config` | `configValues`, `loaded`, `mtime`, `enabled` (atomic), `configMutex`, the file | `Refresh`, `Load`, `Close`, `HasLoaded`, `Get/SetConfigValues`, `SetEnabled` | `sysmodule/source/config.*` |
| minIni | the file and its `~` temporary, a line cache during a rewrite | `ini_browse`, `ini_putsection` (the functions the program calls); `ini_puts`, `ini_putl`, `ini_gets`, `ini_getl`, `ini_getsection`, `ini_getkey` | `sysmodule/lib/minIni/dev/minIni.c` |
| main loop, `HeloManager` | `running`, `context`, `contextMutex` | start, `Tick`, `WaitForNextTick`, shutdown, the `catch` of `main` | `sysmodule/source/main.cpp`, `helo_manager.*` |
| `ProcessManagement` | none | foreground application by two system calls | `sysmodule/source/process_management.*` |
| `IpcService` | the IPC thread, `running` | start, cancel and join the thread; one handler per command | `sysmodule/source/icp_service.cpp`, `ipc_service.h` |
| nxExt `ipc_server` | `handles[]`, `count`, `max` | wait, accept, receive, reply, delete, exit | `sysmodule/lib/nxExt/src/ipc_server.c` |
| client library | session, `g_refCnt` | probe, initialize, exit, one function per command | `common/source/client/ipc.c` |
| overlay | none of its own | probe, connect, compare versions; draws static text | `overlay/source` |
| `FileUtils` | mounted card, log flag, log mutex | initialize, exit, log | `sysmodule/source/file_utils.*` |
| errors | none | a failed assertion throws | `sysmodule/source/errors.*` |
| nxExt hardware access | cached readings and when they were taken, mapped addresses, a session with the fuel gauge, counted sessions with `apm` | clock and load readings, power readings, initialize and exit; linked and never called by the program | `sysmodule/lib/nxExt/src/{max17050,t210,apm_ext}.c` |
| deployment tools | none | copy files over FTP | `src/tools` |

How they interact. `main()` constructs the manager (which constructs `Config`) and the service,
sets `running` and `enabled`, starts the IPC thread, and loops: a tick, a sleep. A tick holds
`contextMutex` throughout: it copies `enabled`, looks up the foreground application and then either
sleeps one interval (the context changed) or refreshes the configuration, which holds `configMutex`
over a stat and a read of the file. The IPC thread serves one message at a time and calls straight
into the manager and the configuration: `GetCurrentContext` takes `contextMutex`, the value commands
take `configMutex`, `Exit` and `SetEnabled` write atomics. `SetConfigValues` rewrites the file with
`configMutex` held. On `Exit` the main thread leaves its loop, cancels the IPC thread's wait, joins it
and deletes the manager.

What is hard here, and what has to be right:

* **Config.** A reload passes through "not loaded" and the defaults; a save writes the file in five
  steps that fail or stop one by one; the cached modification time has to notice every edit although
  a save does not update it. *Readers see whole published lists; `loaded` never goes stale; no edit
  is missed; a save is durable, and an interrupted one leaves old or new.*
* **Two threads.** Start and shutdown order, mutexes held over sleeps and I/O, requests that arrive
  as soon as the service runs, an exception in the loop. *No use after free, no deadlock, no lost
  `Exit`, context answers are whole and right while no exception ends a tick.*
* **Process lookup.** Process and program are asked for apart. *The id published was in the
  foreground.*
* **IPC server.** Sessions are removed from the middle of a handle array while an index is in hand;
  clients die between request and reply; two limits (port, array) have to agree. *The table is
  exact, replies go to the sender, no session is refused, everybody is answered or told.*
* **Client and overlay.** Asking whether the sysmodule runs is done by taking its name; everything asked
  can have changed when the answer is used. *No session left behind, a start finds its name
  taken only by a probe, every overlay comes to show something or waits for a reason.*
* **FileUtils.** A cached flag shared by two threads, an `Exit` without the mutex. *The flag is
  recent, lines are whole, the card outlives them.*
* **minIni.** Rewrites that interleave two cursors and a cache over one buffer; values that need quotes,
  escapes and truncation. *Only the section, or the one setting, that is written changes; what was
  written reads back; listing a file in two ways gives the same; it ends.*
* **nxExt hardware access.** Readings are cached for an interval that starts whether or not the
  measurement succeeds, and an update may stop half-way. *No answer is older than an interval without a
  reason in that interval; sessions are open exactly while someone holds them.*

## 2. Modules

| Module | What it is |
|---|---|
| `ConfigStore` | abstract: what the configuration promises its readers |
| `Config` | the configuration object, its mutex, its file, crashes, failures, outside edits |
| `ConfigProofs` | theorems about `Config` |
| `SysHelo` | the process: main thread and IPC thread over an instance of `Config`, with clients, applications and an editor |
| `SysHeloProofs` | theorems about `SysHelo` |
| `IpcServer` | the IPC server and the kernel's ports and sessions |
| `IpcServerProofs` | theorems about `IpcServer` |
| `FileUtils` | the log of both threads, its flag and the card |
| `FileUtilsProofs` | theorems about `FileUtils` |
| `IpcClient` | the overlay and the client library against a sysmodule that comes and goes |
| `IpcClientProofs` | theorems about `IpcClient` |
| `NxExt` | the hardware access of nxExt: cached readings, counted sessions |
| `NxExtProofs` | theorems about `NxExt` |
| `IniFile` | the lines of the file: what is read out of them, what a rewrite should make of them |
| `PutSection` | the copy loop of `ini_putsection`, with its two positions, its cache and its one buffer |
| `PutSectionProofs` | theorems about `PutSection` |
| `IniText` | the text of a value, character by character: quoting, escaping, comments, truncation, numbers |
| `PutString` | `ini_puts` on top of `PutSection`'s buffer and copying, and the functions that read one setting or list a file |
| `PutStringProofs` | theorems about `PutString` and the text functions of `IniText` |
| `MCConfig`, `MCSysHelo`, `MCIpcServer`, `MCPutSection`, `MCPutString`, `MCFileUtils`, `MCIpcClient` | instances for the model checker |

`SysHelo` composes: `Cfg == INSTANCE Config WITH Threads <- {main, ipc}` and every action of a thread
that calls the object is a conjunction of a step of the thread and the action of `Config`. `IpcServer` is
the level below `SysHelo`'s `ReceiveRequest` and is checked by itself: it knows messages, sessions and
handles, and not what a command does.

### Config

State and code correspond one to one (`configMutex`, `loaded`, `mtime`, `configValues`, `enabled`);
`call[t]` is the place of thread `t` inside a method and `arg[t]` the list it saves; `disk`, `stamp`
and `temp` are the file, its modification time and the temporary. Methods that only read are one
step, for they hold the mutex and read nothing outside. `Refresh`/`Load` are split at the second stat
and at the read: `RefreshHit`, `RefreshBegin`, `LoadStat`, `LoadMissing`, `LoadBrowse`. A save is
split at every file operation: `SetConfigValues`, then `CreateFile` and `FillFile` (no file yet) or
`OpenTemp`, `CopyToTemp`, `RemoveOld`, `RenameTemp`, then `Apply`; `SaveFailed` is the only failure
`ini_putsection` reports. Each of the others may go wrong silently under fault `"io"`.

A file is a function from the keys present in `[values]` to the number its text stands for: `Printed`
is `snprintf("%ld")` of an unsigned number and `Strtoul` is `strtoul` with its modular minus and
saturation, both at width `2 * SignBit`. Text that is no number is 0, which no key accepts. What
stands elsewhere in the file is beneath this module.

`Faults` says what may go wrong: outside edits, edits within one tick of the clock, I/O errors,
crashes. Properties that need a well-behaved environment are checked in a run that leaves out
exactly the fault they cannot stand, and the theorems have that as their hypothesis.

`save` is a history variable: the values before and after the last save, whether it was accepted, and
whether nobody else has written the file since (`alone`). `SaveIsDurable` and `CrashSafe` promise something
only while `alone` holds, for a save that somebody overwrites is not lost by this code.

Abstracted: the parameter `immediate` (its one caller passes `true`), `GetConfigValueName` and
`Enabled()` (a read of an atomic, used by `SysHelo` directly).

### SysHelo

`mainPc` walks through `main()` and `HeloManager::Tick`, `ipcPc` through a command. Two accesses with
a system call, a lock or a wait between them are two steps. `Throw` is any `Result` that is no
success in the part of `main` under `try`; it releases the `scoped_lock` of the tick, over a context
that may have changed in part, and leaves the IPC thread running. `JoinIpc` is the join and the end of the
service; its assertions are in a destructor, where an exception ends the process on the spot (`DestructorThrows`).
`contextMutex` is taken by the main thread for a whole tick and by the IPC thread
for one step. `Settle` and `WaitForNextTick` are the two sleeps; `Nanoseconds` is what they pass to
`svcSleepThread`: the product of two `uint64_t`, modulo the width of the values, converted to the `s64` the call
takes (`NsPerMs` stands for 1000000). `Launch`, `Quit` and `Edit` are the environment.

The main thread unmounts the card in `FilesExit`, on the exception path with the IPC thread still running. From
then on a save goes through `PutSectionUnmounted`: nothing can be opened, removed or renamed, what is still
written to an open file may be lost, and `ini_putsection` answers 1 unless it could not open a file. `Unmounted`
is the same object with failing file operations. A save that begins after that is refused and loses nothing. The
history variable `cut` says that one was under way at that moment: it may be lost and reported as done.

### IpcServer

`sessions[i]` is `handles[i]`; handle 0, the port, is implicit, so `server->count` is
`Len(sessions) + 1` and the array has `MaxSessions + 1` places. `client[s]` and `server[s]` are the two
ends of a session: the kernel counts a session against the port's limit until both are closed.
`Scan`, `Block`, `Wake` and `Cancelled` are `svcWaitSynchronization`: lowest signalled handle first,
the cancel flag only when it would block. `Receive` and `Reply` are the two halves of
`_ipcServerProcessSession` around the handler; `DeleteSession` with `Without` is the loop that moves
later handles down. `CloseHandle` tells a waiting client. The `ELSE` of `Accept` (no room) is in the
code and can be proved never to be taken (`NoRefusal`).

### FileUtils

The globals of `file_utils.cpp` keep their names. `pc[t]` is the place of a thread in `LogLine`:
`RefreshFlags` reads the clock, `Look` opens the flag file (later, though the time remembered is the one
read before), `Open` decides and opens the log, `Write` writes and closes it. `mainPc` is `main()` cut down
to what the log can tell: `Initialize` and the line it ends with, a time in which both threads log, the
end of the loop by a join or by an exception, the last line, and `Exit` in three steps. `SysHelo` has
the same order in more detail and the card as a flag; here the lines in progress are visible. What a
line says and the file it goes to are left out.

### IpcClient

`owner` is who has the service name with the service manager, `sysmodule` the life of the process that
serves it, `session` the one of the client library; `pc` walks through `loadInitialGui` and
`exitServices`. Taken from Horizon: `smGetService` waits until somebody registers the name; a process that
ends gives up its names and handles. There is one overlay at a time (the overlay menu loads one), in a
new process each time, so the globals start from zero. Any call to the service manager may fail for a reason
of its own: `sysheloIpcRunning` takes such a failure of `smRegisterService` for a sysmodule that runs (`Probe`) and
does not look at what `smUnregisterService` returns (`Unregister`); `GetService` and `GetServiceRefused` are the
two ways `smGetService` fails. The history variable `refused` says that this happened in the last probe. `Serve` stands for what lies between `ipcServerInit` and the start of
the IPC thread: requests wait there.

### IniFile and PutSection

A file is a sequence of lines; a line is a heading (with its section, and whether it is indented), an
opening bracket without a closing one, an entry, some other text or blank. `Read` is `ini_browse` with
`BrowseIniFunc`: exact section name, last entry for a key. `Replaced` is the reference: the new section
in the place of the first match (compared without case), up to the next line with a bracket. The code
may put a blank line in front of a section it adds, and `Rewritten` allows it.

`PutSection` is the code: `rpos` is the file position, `mark` and `cachelen` the lines accumulated and
not yet copied, `buffer` and `wiped` what `sp` points into. One action per pass through one of the
three loops, and one per stretch between them: `SearchLine`, `SearchEnd`, `Found`, `SectionLine`,
`SectionEnd`, `Replace`, `RestLine`, `RestEnd`. All lines count the same against the buffer. Opening,
failing and renaming are steps of `Config` (`OpenTemp`, `RemoveOld`, `RenameTemp`); the whole of a
rewrite is its `CopyToTemp`, which is proved (`CopyIsOneStep`, below).

### IniText and PutString

`IniText` translates the functions on one text: `RawText` is what `writekey` puts behind the `=`
(`check_enquote`, `ini_strncpy` with enquoting), `ReadText` what `getkeystring` takes out of it
(`cleanstring`, dequoting, the copy to the caller's buffer); `Long2Str` and `GetL` are the numbers. Each loop
over characters is a recursive function of the position (`Escaped`, `Unescaped`, `CommentFrom`) or of the
number (`Decimal`, `Number`). `Decimal` takes the digits off the signed number, as `long2str` does, with division
that rounds to zero (`Quotient`) and the sign taken from each digit (`LastDigit`): the number is not negated
as a whole, which its most negative value would not survive at the width of a `long`. So the length of a buffer and of a text are the only bounds. `Escaped` gives
what a prefix becomes; `CopyEnquote` takes the longest one that fits, which is where the loop of
`ini_strncpy` stops.

`PutString` has one action per loop pass of `ini_puts`, as `PutSection` has: `NewFile`, `KeepValue` (nothing
to do), `RewriteInPlace` (same length), else `OpenCopy`, `PutSearchLine`/`PutSearchEnd` up to the section,
`PutFound`, `PutKeyLine`/`PutKeysEnd` up to the key, `PutKey`, and `PutSection`'s `RestLine`/`RestEnd`.
`Edited` is the reference: the file with that one change. `Gets` is `ini_gets`. Two keys that differ in case
stand for all matching without case.

`Enumerated` lists a file as `test.c` does, by `ini_getsection` and `ini_getkey` called with one index after the
other until there is no line for it. `getkeystring` counts the lines it passes, so the line with index `n` is
the one with `n` others before it (`HasIndex`, `WithIndex`, `Indexes`): among the headings, or among the entries
under the first heading with the name (`Under`). `Browsed` are the entries that `ini_browse` reports in a
section. `EnumerationIsBrowse` compares the two: the same entries, and the order of the indexes is the order in
the file. It is about files in which no name of a section occurs twice (in others `ini_getkey` sees the first
one only) and no bracket stands alone (which ends a section for `ini_getkey` and not for `ini_browse`).

### NxExt

A reading is the time it was measured at, not a number; what can be missing is named: an address the
kernel refuses (`mapped`), the clock or reset of the GPU (`gpuOn`), an activity monitor that does not run
(`monitors`: enabling one costs this reading, for it then reports the value it is initialised with), the
session with the fuel gauge, a register that cannot be read. One action per hardware access of
`_clock_update_freqs` and of `_max17050_update`, and time passes between any two. `off` remembers when
each thing was last found missing. `apm_ext.c` is the reference count and the two sessions, with
`smGetService` failing for either.

One caller at a time: the program has none. The reference count of `apm_ext.c` is atomic, but the calls
are not: an exit that has counted down to zero closes the sessions after another thread has counted itself
in. `ApmIsCounted` says what holds for one caller.

## 3. Runs

| Run | Question | Properties |
|---|---|---|
| `config_faults` | two threads, everything may go wrong | `TypeOK`, `ImplementsStore` |
| `config_card` | two keys; saves, refreshes, outside edits, crashes | `StaleIsNoticed`, `SaveIsDurable`, `CrashSafe` |
| `config_io` | a failing card (*violation*) | `ApplyOnlyAfterSave` |
| `syshelo_safety` | start, loop, shutdown, exception; services fail | `TypeOK`, `NoUseAfterFree`, `RequestsOutliveStart`, `CommandsAfterLoad`, `AppIdWasForeground`, `ContextAnswersAreWhole` |
| `syshelo_live` | fair threads, an edit, intervals of which one is too long | `ExitEnds`, `CommandsAreAnswered`, `ContextCatchesUp`, `FileIsLoaded`, `TickPaces` |
| `file_utils` | two threads log while the flag comes and goes | `TypeOK`, `FlagIsRecent`, `LinesAreSerial`, `CardOutlivesLines` |
| `ipc_client` | overlays against a sysmodule that starts, ends and dies, and a service manager that refuses calls | `TypeOK`, `SessionIsCounted`, `WaitsHaveAReason`, `StartFailsOnlyOnProbe`, `OverlayDecides` |
| `ipc_server` | four clients, three places, a fair server | `TypeOK`, `TableIsExact`, `ReplyGoesToSender`, `NoSessionRefused`, `MessagesAreAnswered`, `CancelEndsServer` |
| `putsection` | every file of up to five lines | `TypeOK`, `RewritesSection` (and the saved values read back), `Terminates` |
| `putsection_flag` | an indented heading (*violation*) | `FlagMeansHeading` |
| `put_string` | every file of up to five lines, every value of up to four characters | `EditsOneKey`, `PutIsGot`, `EnumerationIsBrowse`, `PutAdvances` |
| `nx_ext` | readings while things go missing, initializations that fail | `ReadingsAreRecent`, `ApmIsCounted` |

What `config_io` shows: the comment in `SetConfigValues` says changes are only applied in memory after a
successful save, but `ini_putsection` answers 1 whatever its writes, its remove and its rename
returned. The counterexample is short: the file is created, the write of the section fails, and the
call goes on to apply.

What `putsection_flag` shows: `sp` keeps pointing into `LocalBuffer` after `cache_flush` has put a
`'\0'` at its start. That ends an unindented line and hides it; behind an indentation the `[` of the old
heading is still there. If that heading is the last line of the file, `flag` says that another section
follows. A section with an entry is then written, one line too many is accumulated, and the last
`cache_flush` reads for ever at the end of the file with `configMutex` held (state `"reading"`): the
IPC thread never answers and the next tick blocks. `Terminates` therefore leaves out files
that end in such a line (`EndsInHeading`). A file of that form is legal for `ini_browse`. That it happens with
these files only is the theorem `FlagConfined`. An earlier form of `EndsInHeading` named the heading in one
spelling and not in the others that match without case; the attempt to prove the theorem showed it, and the
run now has an indented heading in both.

What `RewritesSection` says about reading back is restricted to plain files, and has to be: with two
matching sections, or a bare bracket inside
the section, entries stay behind that the next `Load` reads after the new ones, and the reload that
follows every save takes the value back.

### Bounds, and why they are enough

* `SignBit = 2` gives values 0..3: the invalid 0, a value below the sign bit, the default 2 (above it,
  so its text is negative), and 3; texts run from -4 to 4, so both saturations occur. One key is
  enough where interleavings are the question; `config_card` has two, for mixtures of old and new, with
  lists that differ in both and files that lack a key or hold numbers out of range.
* Three stamps are the fewest for which a new time differs from both the file's and the remembered
  one; `config_faults` has two and allows equal ones.
* Two threads are what the program has. `ConfigProofs` is for any number.
* `MaxRequests`, `MaxLaunches`, `MaxEdits` (`SysHelo`) bound what the environment does; three commands
  are enough for a value command in flight, an `Exit` and one more; two applications make the
  lookup see three answers between its two calls.
* Files of up to five lines out of nine kinds reach a section before, at and behind every other line,
  twice, at the start and the end; two lines fit into the cache, so it is flushed in the middle of
  a copy. A deviation needs a heading, something in it, something behind it and a full cache: four.
* `syshelo_live` has two commands, one application and one edit. Values are four bits wide and a
  millisecond has two nanoseconds: clients ask for 1, the default is 2, and the editor writes 4,
  whose nanoseconds have the sign bit set and become -8. `NsPerMs` and the width matter to `TickPaces` only by the
  largest interval that fits.
* In both runs of `SysHelo` the first time stamp is fixed, for stamps are only compared with each other.
  `syshelo_safety` starts with or without a file, so that a save is under way in either form when the
  exception path unmounts the card.
* `put_string` has lines of nine characters (`LineSize`), four of which are not for the value: a value
  of four characters with quotes is cut off at every place, in the middle of an escape too. The numbers
  reach from -128 to 127, the width of a byte. One line holds a value with a leading blank between quotes,
  and one call writes that value: it is there already, which is the one case where a blank survives that a
  write would lose. The run has seven million distinct states and takes about two minutes.
* `nx_ext` lasts three or four intervals (`MaxTime`): a reading is taken, cached, renewed, missed and missed
  again. The two intervals differ; a call takes from no time to all of it. Three initializations
  (`MaxHeld`) leave one in the middle.
* Four sessions at a limit of three make the port refuse, the table full and removals from the middle
  reach every position. `MaxSent`, five, bounds connections and messages together.
* `file_utils` runs two intervals and a half: a look is cached, is renewed, and becomes old again.
  `ipc_client` has no bound but the width of the count, four values, which is enough to wrap.
* Deadlock is not checked for `IpcServer`: when the bound is spent and all is closed it stops; nor for `PutSection`,
  which ends (`put_string` has a step for the return and checks that nothing else stops). All other runs check it; `SysHelo` has a step `Terminated` for the end of the process and may stop
  nowhere else, which shows that the threads never wait for each other.

### Fairness

`SysHelo!FairSpec`: weak fairness of the main thread (the scheduler runs it; its waits are on a mutex
the IPC thread holds for a bounded time) and strong fairness of the IPC thread: `Tick` releases and
retakes `contextMutex` in every iteration, and libnx mutexes hand a contended mutex to the waiter
(`svcArbitrateUnlock`), so a thread that waits for a lock that is released again and again gets
it. Nothing is assumed of clients, applications and editors; the bounds on them are what "come to
rest" means in `ContextCatchesUp` and `FileIsLoaded`.
`IpcServer!FairSpec`: weak fairness of the server thread.
`PutSection!FairSpec`: the loop goes on.
`IpcClient!FairSpec`: weak fairness of the overlay while it has something to do, and of a sysmodule
that has begun to start or to end. Nobody has to start it or to end it.

### Known limits of what holds

* `StaleIsNoticed` and `FileIsLoaded` speak of an existing file. A file that was missing at the last
  load, then saved, then deleted again before the next refresh has time 0 both times, and memory
  keeps the saved values. Two edits within one tick of the clock and a read error are likewise not
  noticed (faults `sameStamp` and `io`).
* The part of `NoUseAfterFree` about the card excludes the exception path: there the IPC thread runs on after the card is
  unmounted and until the process ends. The manager is safe there too, because that path frees
  nothing.
* A save that is under way when the exception path unmounts the card may be lost and reported to the client as
  done (`cut`). `SaveIsDurable`, `CrashSafe` and `StaleIsNoticed` are not claimed of the process after that; the
  theorems `ProcessKeepsSaves` and `ProcessNoticesEdits` claim them of everything else.
* `ContextAnswersAreWhole` has one exception: an exception in the lookup of the application ends the tick after
  `RefreshContext` changed `enabled`. Until the process ends, clients may be told the new flag beside
  the application of the last whole tick.
* `TickPaces` says that a sleep lasts the interval if its nanoseconds fit a signed 64-bit number, and is too short
  if they do not. `sysHeloValidConfigValue` accepts every value but 0, so such an interval is taken over, and
  `svcSleepThread` is then given what is left of the product, which may be nothing or a negative number.
* `EditsOneKey` excludes one call, of the keys above the first section being deleted in a file that begins
  with a heading: `ini_puts` skips the first line as if it were the heading of the section it deletes
  and the heading is lost. The program never makes that call.
* What `ini_puts` wrote is read back without the blanks around it, unless the value is put between quotes.
  It stays whole if the file holds it already, between quotes an editor typed: `ini_puts` then leaves the file
  alone. `PutIsGot` says so. An earlier form of it claimed that blanks are lost in every case; no file of the
  run had such a line, and the attempt to prove it showed the gap.
* A client that reads the values, changes one and writes all of them back undoes what another client or
  an editor changed in between. Nothing in the protocol promises otherwise, so no property covers it.
* `ReadingsAreRecent` excuses an answer by anything it needs and was found missing in the last interval: a
  failed update is not repeated before the interval is over, and a GPU that is off keeps the memory loads
  old too. In the first interval after tick 0 the answers are 0.
* `CardOutlivesLines` excludes the exception path too: a line of the IPC thread may be open when the
  card is unmounted.
* `OverlayDecides` has two ends: the overlay shows something, or it waits in `smGetService`.
  `WaitsHaveAReason` names the two ways into that wait: the sysmodule ended after the probe, or the service manager
  refused the registration, which the probe takes for a sysmodule that runs. Nothing in the code ends the
  wait: it lasts until the sysmodule is started.
* A sysmodule that starts in the middle of a probe throws and ends, and so does one that starts while an overlay
  lives that could not give the name back (`StartFailsOnlyOnProbe`). It may also fail with the name free, when the
  service manager refuses its own call.
* `MessagesAreAnswered` holds for boundedly many messages: the wait prefers low handles, so clients
  that never pause there starve the others and new sessions on handle 0 starve everybody.

## 4. Proofs

All theorems hold for every value of the constants under the named assumptions of the modules
(`SignBit` positive, a valid default, requests within the width, files within `Contents`, `NoFile` and
`NoThread` distinct from what they stand beside; `MaxSessions` positive, finitely many sessions; files that
are sequences of lines, saves with finitely many keys, a buffer of at least two lines; a millisecond has at
least one nanosecond (`UnitAssumption`); settings in the section the matching of headings knows, values that
are sequences of characters, lines of at least eight of them, into which each number of `ini_putl` fits,
`NumbersAssumption`: 19 digits and a sign against the 512 of `INI_BUFFERSIZE`).

`ConfigProofs`, for any number of threads, keys, values, files and stamps:

| Theorem | States |
|---|---|
| `TypeCorrect` | `Spec => []TypeOK`: only valid values in memory |
| `MutualExclusion` | `Spec => []MutexGuardsFile` |
| `LoadedStable` | `Spec => []LoadedIsStable` |
| `StoreImplemented` | `Spec => Store!Spec`: refinement of `ConfigStore` |
| `StaleNoticed` | without `"io"` and `"sameStamp"`: `Spec => []StaleIsNoticed` |
| `SaveDurable` | without `"io"`: `Spec => []SaveIsDurable` |
| `InterruptedSave` | without `"io"`: `Spec => []CrashSafe` |

The argument. `TypeOK` and `MutexGuardsFile` are inductive together. From them, `Quiet` says that
while no thread is between `LoadStat` and `LoadBrowse` the members are what was last published: `LoadedIsStable` and the
refinement follow, with `published` for the abstract list. `StaleIsNoticed` is not inductive: in the
middle of a save the file is missing, or holds what memory does not have yet. `StaleInv` says that in
those states (`"fill"`, `"rename"`, `"apply"`) the time of the file, or the time it will get, is not the
remembered one, and that memory agrees with the file whenever the times are equal.
`SaveIsDurable` and `CrashSafe` rest on `DurableInv`: as long as nobody else has written (`save.alone`),
`OwnInv` names what `disk` and `temp` hold in every state of a save; an edit ends that, and the next save
restores it, and on the lemma `RoundTrip`: `Browse(Saved(vals)) = Applied(vals)`, the number format
round-trips at every width.

`IpcServerProofs`, for any limit, any number of sessions and messages:

| Theorem | States |
|---|---|
| `TypeCorrect` | `Spec => []TypeOK`: no index out of the table, no table beyond its array |
| `TableExact` | `Spec => []TableIsExact` |
| `ReplyToSender` | `Spec => []ReplyGoesToSender` |
| `NoRefusal` | `Spec => NoSessionRefused` |

The argument. None of the four is inductive alone. `Inv` joins them with `IndexInHand` (an index is
only held between wait and reply) and `PortLimit` (the kernel's count). The table is a bijection onto
the open handles, which gives its length as a cardinality (`TableLength`); a queued session is one
more in use, so there is room for it (`RoomForQueued`). `DeleteKeeps` is the lemma about the loop.

`FileUtilsProofs`, for every interval and every length of time:

| Theorem | States |
|---|---|
| `TypeCorrect` | `Spec => []TypeOK` |
| `LinesSerial` | `Spec => []LinesAreSerial` |
| `FlagRecent` | `Spec => []FlagIsRecent` |
| `CardOutlives` | `Spec => []CardOutlivesLines` |

`FlagIsRecent` rests on a look some other line made. `Known` is what that line left for all later ones: the
flag file was what `g_log_enabled` says at some time not before `g_last_flag_check`. `Order` bounds the
age of that time, and `Places` says which thread can be where, from which `CardOutlivesLines` follows.

`IpcClientProofs`, for every width of the reference count:

| Theorem | States |
|---|---|
| `TypeCorrect` | `Spec => []TypeOK` |
| `SessionCounted` | `Spec => []SessionIsCounted` |
| `WaitsExplained` | `Spec => []WaitsHaveAReason` |
| `StartFails` | `Spec => StartFailsOnlyOnProbe` |

`Counts` gives count and session at each place of the overlay (0, 1, or one less than zero), `Names` ties
the name to its owner.

`SysHeloProofs`, for any number of commands, applications and edits, any values and files:

| Theorem | States |
|---|---|
| `TypeCorrect` | `Spec => []TypeOK` |
| `SafeShutdown` | `Spec => []NoUseAfterFree` |
| `RequestsKept` | `Spec => []RequestsOutliveStart` |
| `NothingBeforeLoad` | `Spec => []CommandsAfterLoad` |
| `LookUpRight` | `Spec => []AppIdWasForeground` |
| `AnswersWhole` | `Spec => ContextAnswersAreWhole` |
| `NoCircularWait` | `Spec => []WaitsEnd` |

`Places` says which thread can be where together (no IPC thread before the loop, none after the join),
`Calls` what each then does with the configuration object; these two carry the first theorem.
`Reads` adds that only a load, which holds the mutex, makes `loaded` false again, `Asked` that both flags
are set before the first command can come, `Holding` that `contextMutex` is held for a whole tick,
`LookUp` that the menu was in the foreground if the process is gone. They assume of the threads only
that they are two, and `CallSteps` is the lemma that opens the actions of `Config`.

`WaitsEnd` is about the waits of the two threads for each other: for `configMutex`, for `contextMutex`, and that
of `main()` for the end of the IPC thread. `MainWaitsFor` and `IpcWaitsFor` say whom a thread has to wait for at
the step it is at. A tick holds `contextMutex` while it waits for `configMutex`, so a cycle is not out of the
question. `Holders` excludes it: `configMutex` is held only in a load and in a save, and neither takes another
mutex. At the join the IPC thread waits for no mutex, and its wait for a message is cancelled. Together with
fairness this is why `ExitEnds` and `CommandsAreAnswered` hold in the run.

The composition is proved too: `ProcessUsesConfig`, `Spec => Object!Spec`, where `Object` is an instance of
`ConfigProofs` with the variables of the process and two threads. Every step of the process is a step of `Config`
or leaves its variables alone: an operation of a thread (`OperationsAgree`), a step of a save without the card
(`UnmountedAgrees`), an edit, the construction of the object, which starts from the values of `Config`'s `Init`
because nobody touches it before (`Vacant`), or the end of the process by an exception, which stops a save
wherever it is and is a crash to the object. Therefore `Object` has the faults `"crash"` and `"io"` added to those
of the process. What is proved of `Config` with these faults then holds inside the process, whatever the two
threads do with it. What needs a working card is proved of `Working`, the same object with `"crash"` only, as
long as `cut` is false: until the card goes each step is one of `Working`, and afterwards a save that was
not under way gets no further than the file it cannot open (`NoSaveAfter`, `FailedSave`).

| Theorem | States |
|---|---|
| `ProcessUsesConfig` | `Spec => Object!Spec` |
| `ProcessServesReaders` | `Spec => Object!ImplementsStore` |
| `ProcessNoticesEdits` | without `"io"` and `"sameStamp"`: `Spec => [](~cut => Cfg!StaleIsNoticed)` |
| `ProcessKeepsSaves` | without `"io"`: `Spec => [](~cut => Cfg!SaveIsDurable /\ Cfg!CrashSafe)` |
| `LoopSleeps` | `Spec => TickPaces` |

`LoopSleeps` is the first use of it: memory holds only valid values (`Object!TypeOK`), so both sleeps are of a
positive interval, and `NanosecondsGiven` is the arithmetic of the product and its conversion: exact below the sign
bit, and too small from there on.

`NxExtProofs`, for every interval, every length of time and any number of initializations:

| Theorem | States |
|---|---|
| `TypeCorrect` | `Spec => []TypeOK` |
| `Recency` | `Spec => []ReadingsAreRecent` |
| `ApmCounted` | `Spec => []ApmIsCounted` |

`ReadingsAreRecent` speaks of the end of a call and is not inductive. `Done` is the set of readings that an
update has dealt with at each of its steps and `Settled` says each of them was taken since the update
began, or something it needs was missing since then; `Interval` says the update began at most
an interval before the call.

`PutSectionProofs`, for every file, every save and every size of the buffer:

| Theorem | States |
|---|---|
| `TypeCorrect` | `Spec => []TypeOK`: what is accumulated fits into the buffer |
| `RewriteRight` | `Spec => []RewritesSection` |
| `CopyProgress` | `Spec => [][Advances]_vars` |
| `FlagConfined` | `Spec => []FlagErrsOnlyThere` |
| `CopyIsOneStep` | `Spec => [][Plain => Object!CopyToTemp(thread)]_(Object!vars)`: refinement of a step of `Config` |
| `NewFileReadsBack` | `\A v \in Saves : Read(Section(v)) = v` |

The inductive invariant says in every state how far the copy has come. `Searching`: `out` is the file up to
the mark, and nothing up to the read position matches. `Skipping`: `out` is the file up to the heading, and
the mark has passed no bracket; at the end of this loop it is `Following`, and `Flag` is set if there is a
line to go on with. `Resuming`: `out` is `Target`, the reference as far as the mark. Only there the read
position may be off, when nothing is behind the section, and then only the end of the loop can come. No
induction is needed because `First` and `Following` are unique (`FirstIs`, `FollowingIs`). That the saved
values are read back is `ReadsBack`: of lines without the section, the section, and lines without it that begin
with a heading, exactly the new entries are read (`EntriesRead`), each key from one place.

`FlagConfined` needs to know what the one buffer holds (`Looked`): in the loop over the section the line read last,
and still that line, wiped, when the loop ended with the file. A set flag then means that the last line has a
bracket behind an indentation, and since the loop has passed no bracket that line is the heading itself.

`CopyIsOneStep` connects the two models of a save. `Object` is an instance of `Config` whose variables are given by
those of the rewrite: the file and the temporary file as `ini_browse` would read them, the thread at the operation
`"copy"` until the rewrite is done. With the section that `Config` says is saved, `Saved(list)`, every step of the
loops leaves the variables of `Config` alone but the last, which is its `CopyToTemp`. `NewFileReadsBack` is the
same for the section that is written to a new file, `Config`'s `FillFile`. So what is proved about `Config`, and
about the process over it, rests on what the loops do, for plain files and reads and writes that succeed.

`PutStringProofs`, for every file, every setting, every size of the cache and of a line:

| Theorem | States |
|---|---|
| `PutTypeCorrect` | `PutSpec => []PutTypeOK` |
| `PutEditsOneKey` | `PutSpec => []EditsOneKey` |
| `PutProgress` | `PutSpec => PutAdvances` |
| `PutFinds` | `PutSpec => []WrittenIsFound` |
| `PutReadsBack` | `PutSpec => []PutIsGot` |
| `PutEnumerates` | `PutSpec => []EnumerationIsBrowse` |

The first three rest on `PutInv`, which says at each loop what has been copied: everything up to the mark
before and inside the section (`PutSearching`, `PutFinding`, `PutInside`), except the section that goes; behind it
`Splice`, the file with the lines of the change taken out and the new one in their place (`PutResuming`). The
line at which the loop over the keys stopped is read a second time, and whether it is copied or dropped
there is where the two cursors have to agree. `PutPlaces` adds where the new line stands in what is written
(`Placed`: behind the right heading, with no line before it that a lookup would stop at), which gives
`WrittenIsFound`: a lookup after the call reads the line that was written.

`PutReadsBack` adds the text. `QuotedComesBack` and `PlainComesBack` say what `ReadText` makes of what `RawText`
made of a value: between quotes all of it comes back, quotes and backslashes and semicolons in it, because no
comment begins inside (`QuotedNoComment`) and unescaping undoes escaping (`UnescapedBack`); without quotes there is
nothing to escape (`NoComment`) and the blanks around it go. Cut off by the line, a prefix comes back.
`NumberComesBack` is the same for numbers of either sign (`LastDigitOff`, `DecimalReads`, `NumberAppends`). These are inductions over positions
and over numbers. The induction theorems of the library take an operator, which the provers cannot
instantiate; here induction is about a set (`Induction`, from `Least`: a set of numbers that is not empty has a
smallest), and `Recursion` shows from it that a function that is defined by recursion along a number that goes
down exists, so that its equation may be used.

`PutEnumerates` holds of any file that is left (`EnumerationAgrees`). A later line of a set has a greater index
(`IndexGrows`); the indexes leave none out, so the one of each line is asked for and leads to it
(`IndexReached`, an induction), and what an index that is asked for leads to has that index (`IndexBack`); so a
greater index means a later line (`IndexOrder`). An entry stands under exactly one heading if no name occurs twice.

`MutexGuardsFile` and `LoadedIsStable` are proved and in no run: the first is what every other
property of `Config` rests on, and a violation of either shows as one of `ImplementsStore`.

Only model-checked is liveness: `ExitEnds`, `CommandsAreAnswered`, `ContextCatchesUp`, `FileIsLoaded`,
`OverlayDecides`, `MessagesAreAnswered`, `CancelEndsServer`, `Terminates` (fairness and `ENABLED` are beyond the
prover). A part of some of them is no liveness and is proved: `NoCircularWait` for the waits of the process, and
`CopyProgress`, with the range of `rpos`, for the loops of `Terminates`.

## 5. Not modelled

* The wording of the log; tick statistics; the Horizon start-up glue
  (`__appInit`), heap sizes and priorities.
* Register values of the hardware access of nxExt and the arithmetic on them, the division by the frequency
  of the memory or the dividers of the GPU among it. Deployment scripts.
* `overrideMutex` and `threadMutex` are never contended and have no state of their own to guard.
* In minIni: lines longer than `INI_BUFFERSIZE`, file operations that fail inside `ini_puts` (those of
  `ini_putsection` are in `Config`), `ini_getbool`, the functions for floating point numbers (`INI_REAL` is
  not defined in this build) and the C++ wrapper `wxMinIni.h`, which only forwards.

## 6. Plan

1. Two threads in `apm_ext.c`, should a caller ever appear.
2. File operations that fail inside `ini_puts`, should the program begin to use it.
