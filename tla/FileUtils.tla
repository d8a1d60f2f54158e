------------------------------- MODULE FileUtils -------------------------------
(***************************************************************************)
(* FileUtils: the SD card and the log, used by the main thread and by the  *)
(* IPC thread.  A line is only written while a flag file exists; the file  *)
(* is looked for again when the last look is an interval old.  Exit does   *)
(* not take the mutex that LogLine holds.                                  *)
(***************************************************************************)
EXTENDS Integers

CONSTANTS
    main, ipc,      \* the two threads
    NoThread,       \* holder of a free mutex
    Interval,       \* FILE_FLAG_CHECK_INTERVAL_NS
    MaxClock        \* bound on the clock

ASSUME IntervalAssumption == Interval \in Nat \ {0} /\ MaxClock \in Nat
ASSUME ThreadsAssumption == main # ipc /\ NoThread \notin {main, ipc}

VARIABLES
    g_has_initialized, g_log_enabled, g_last_flag_check,
    g_log_mutex,    \* its holder
    pc, now,        \* for each thread: its place in LogLine, its local variable
    mainPc,         \* where main() is
    ipcRuns,        \* the IPC thread has been started and has not ended
    caught,         \* an exception ended the main loop
    mounted,        \* the SD card
    clock, flag,    \* time; whether the flag file exists
    seen            \* history: <<time, whether the flag file existed then>>

utilVars == <<g_has_initialized, g_log_enabled, g_last_flag_check>>
lineVars == <<g_log_mutex, pc, now>>
mainVars == <<mainPc, ipcRuns, caught>>
cardVars == <<clock, flag, seen>>
vars == <<utilVars, lineVars, mainVars, mounted, cardVars>>

Threads == {main, ipc}
-------------------------------------------------------------------------------
Init ==
    /\ g_has_initialized = FALSE
    /\ g_log_enabled = FALSE
    /\ g_last_flag_check = 0
    /\ g_log_mutex = NoThread
    /\ pc = [t \in Threads |-> "idle"]
    /\ now = [t \in Threads |-> 0]
    /\ mainPc = "start"
    /\ ipcRuns = FALSE
    /\ caught = FALSE
    /\ mounted = FALSE
    /\ clock = 0
    /\ flag \in BOOLEAN
    /\ seen = {<<0, flag>>}
-------------------------------------------------------------------------------
(* LogLine                                                                 *)

Step(t, at, next) == pc[t] = at /\ pc' = [pc EXCEPT ![t] = next]
Unlock == g_log_mutex' = NoThread

(* mutant of Lock: no scoped_lock in LogLine *)
LockIgnored(t) == UNCHANGED g_log_mutex

Lock(t) == g_log_mutex = NoThread /\ g_log_mutex' = t

(* main logs whenever it likes and a last line before Exit, the IPC thread *)
(* while it runs.  Without initialization nothing happens.                 *)
LogLine(t) ==
    /\ IF t = main THEN mainPc \in {"run", "exit"} ELSE ipcRuns
    /\ g_has_initialized
    /\ Step(t, "idle", "refresh")
    /\ Lock(t)
    /\ mainPc' = IF t = main /\ mainPc = "exit" THEN "finish" ELSE mainPc
    /\ UNCHANGED <<utilVars, now, ipcRuns, caught, mounted, cardVars>>

(* mutant of RefreshFlags: every call counts as a look at the flag *)
RefreshFlagsPostponed(t) ==
    /\ now' = [now EXCEPT ![t] = clock]
    /\ g_last_flag_check' = clock
    /\ Step(t, "refresh", IF clock - g_last_flag_check < Interval THEN "decide" ELSE "look")
    /\ UNCHANGED <<g_has_initialized, g_log_enabled, g_log_mutex, mainVars, mounted, cardVars>>

RefreshFlags(t) ==
    /\ now' = [now EXCEPT ![t] = clock]
    /\ Step(t, "refresh", IF clock - g_last_flag_check < Interval THEN "decide" ELSE "look")
    /\ UNCHANGED <<utilVars, g_log_mutex, mainVars, mounted, cardVars>>

(* mutant of Look: stores when to look next, where the last time belongs *)
LookDeadline(t) ==
    /\ Step(t, "look", "decide")
    /\ g_log_enabled' = (mounted /\ flag)
    /\ g_last_flag_check' = now[t] + Interval
    /\ UNCHANGED <<g_has_initialized, g_log_mutex, now, mainVars, mounted, cardVars>>

(* The time remembered is the one read before the file was looked for. *)
Look(t) ==
    /\ Step(t, "look", "decide")
    /\ g_log_enabled' = (mounted /\ flag)
    /\ g_last_flag_check' = now[t]
    /\ UNCHANGED <<g_has_initialized, g_log_mutex, now, mainVars, mounted, cardVars>>

(* fopen of the log; it may fail, and does when the card is gone. *)
Open(t) ==
    /\ \/ g_log_enabled /\ mounted /\ Step(t, "decide", "write") /\ UNCHANGED g_log_mutex
       \/ Step(t, "decide", "idle") /\ Unlock
    /\ UNCHANGED <<utilVars, now, mainVars, mounted, cardVars>>

Write(t) ==
    /\ Step(t, "write", "idle")
    /\ Unlock
    /\ UNCHANGED <<utilVars, now, mainVars, mounted, cardVars>>
-------------------------------------------------------------------------------
(* main()                                                                  *)

Main(at, next) == pc[main] = "idle" /\ mainPc = at /\ mainPc' = next

(* Initialize: mounts, looks at the flag whatever the time and begins the  *)
(* first line.  Failing is fatal.                                          *)
Initialize ==
    /\ \/ /\ Main("start", "run")
          /\ mounted' = TRUE
          /\ g_log_enabled' = flag
          /\ g_last_flag_check' = clock
          /\ g_has_initialized' = TRUE
          /\ Step(main, "idle", "refresh")
          /\ g_log_mutex' = main
       \/ Main("start", "done") /\ UNCHANGED <<utilVars, g_log_mutex, pc, mounted>>
    /\ UNCHANGED <<now, ipcRuns, caught, cardVars>>

StartIpc ==
    /\ Main("run", "run")
    /\ ~ipcRuns
    /\ ipcRuns' = TRUE
    /\ UNCHANGED <<utilVars, lineVars, caught, mounted, cardVars>>

(* mutant of JoinIpc: does not wait for the end of the thread *)
JoinIpcNot ==
    /\ Main("run", "exit")
    /\ UNCHANGED <<utilVars, lineVars, ipcRuns, caught, mounted, cardVars>>

(* The loop is left: the IPC thread is cancelled, which it only notices    *)
(* between two lines, and waited for.                                      *)
JoinIpc ==
    /\ Main("run", "exit")
    /\ pc[ipc] = "idle"
    /\ ipcRuns' = FALSE
    /\ UNCHANGED <<utilVars, lineVars, caught, mounted, cardVars>>

(* An exception leaves the loop and the IPC thread alone. *)
Catch ==
    /\ Main("run", "exit")
    /\ caught' = TRUE
    /\ UNCHANGED <<utilVars, lineVars, ipcRuns, mounted, cardVars>>

(* Exit, in steps: the thread that logs may be anywhere between them.      *)
ExitInitialized ==
    /\ Main("finish", "disable")
    /\ g_has_initialized
    /\ g_has_initialized' = FALSE
    /\ UNCHANGED <<g_log_enabled, g_last_flag_check, lineVars, ipcRuns, caught, mounted, cardVars>>

ExitEnabled ==
    /\ Main("disable", "unmount")
    /\ g_log_enabled' = FALSE
    /\ UNCHANGED <<g_has_initialized, g_last_flag_check, lineVars, ipcRuns, caught, mounted, cardVars>>

ExitUnmount ==
    /\ Main("unmount", "done")
    /\ mounted' = FALSE
    /\ UNCHANGED <<utilVars, lineVars, ipcRuns, caught, cardVars>>
-------------------------------------------------------------------------------
(* Environment *)

Tick ==
    /\ clock < MaxClock
    /\ clock' = clock + 1
    /\ seen' = seen \union {<<clock', flag>>}
    /\ UNCHANGED <<utilVars, lineVars, mainVars, mounted, flag>>

(* Somebody creates or removes the flag file. *)
Switch ==
    /\ flag' = ~flag
    /\ seen' = seen \union {<<clock, flag'>>}
    /\ UNCHANGED <<utilVars, lineVars, mainVars, mounted, clock>>

Next ==
    \/ \E t \in Threads : LogLine(t) \/ RefreshFlags(t) \/ Look(t) \/ Open(t) \/ Write(t)
    \/ Initialize \/ StartIpc \/ JoinIpc \/ Catch
    \/ ExitInitialized \/ ExitEnabled \/ ExitUnmount
    \/ Tick \/ Switch

Spec == Init /\ [][Next]_vars
-------------------------------------------------------------------------------
(* Types: the clock and everything taken from it stay within the bound.    *)
TypeOK ==
    /\ g_has_initialized \in BOOLEAN /\ g_log_enabled \in BOOLEAN
    /\ g_last_flag_check \in 0..MaxClock
    /\ g_log_mutex \in Threads \union {NoThread}
    /\ pc \in [Threads -> {"idle", "refresh", "look", "decide", "write"}]
    /\ now \in [Threads -> 0..MaxClock]
    /\ mainPc \in {"start", "run", "exit", "finish", "disable", "unmount", "done"}
    /\ ipcRuns \in BOOLEAN /\ caught \in BOOLEAN /\ mounted \in BOOLEAN
    /\ clock \in 0..MaxClock /\ flag \in BOOLEAN
    /\ seen \subseteq (0..MaxClock) \X BOOLEAN

(* Whether a line is written is decided by what the flag file was at some  *)
(* moment of the last interval, however many lines were logged meanwhile   *)
(* and by whom: neither a flag that was removed nor one that was created   *)
(* stays unnoticed for longer (RefreshFlags).                              *)
FlagIsRecent ==
    \A t \in Threads :
        pc[t] = "decide" /\ g_has_initialized =>
            \E s \in seen : s[1] + Interval > now[t] /\ s[2] = g_log_enabled

(* Lines are written one after the other, and no line computes the         *)
(* unsigned age of a look at the flag that happened later than its own     *)
(* reading of the clock, which would be an age of centuries (LogLine).     *)
LinesAreSerial ==
    /\ \A t, u \in Threads : pc[t] # "idle" /\ pc[u] # "idle" => t = u
    /\ \A t \in Threads : pc[t] \in {"look", "decide"} => g_last_flag_check <= now[t]

(* Unless an exception ended the loop, the card is never unmounted under   *)
(* an open log file, though Exit does not take the mutex (FileUtils::Exit).*)
CardOutlivesLines == ~caught => \A t \in Threads : pc[t] = "write" => mounted
================================================================================
