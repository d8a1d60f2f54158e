--------------------------------- MODULE NxExt ---------------------------------
(***************************************************************************)
(* The hardware access of nxExt: t210.c measures clocks and memory loads,  *)
(* max17050.c asks the fuel gauge for the power, apm_ext.c keeps sessions  *)
(* with the performance manager.  The program links them and does not call *)
(* them; here one caller does.  They share no state, so in one behaviour   *)
(* it calls one library.                                                   *)
(*                                                                         *)
(* t210.c and max17050.c answer from globals that an update renews once in *)
(* an interval.  A reading is the time it was measured at; 0, the time of  *)
(* the start, also stands for none.  Time passes while hardware is read.   *)
(***************************************************************************)
EXTENDS Integers

CONSTANTS
    ClockWait,   \* WAIT_NS
    PowerWait,   \* MAX17050_WAIT_NS
    MaxTime,     \* bound: the time a behaviour takes
    MaxHeld      \* bound: initializations of apm_ext at a time

ASSUME WaitAssumption == ClockWait \in Nat /\ PowerWait \in Nat
ASSUME BoundAssumption == MaxTime \in Nat /\ MaxHeld \in Nat

VARIABLES
    library,     \* the one that is called
    now,         \* armGetSystemTick, in nanoseconds
    pc,          \* what the call does next
    asked,       \* when the call looked at the clock
    update,      \* g_update_ticks
    taken,       \* the readings (g_cpu_freq, ..., g_power_avg), by time
    \* t210.c
    mapped,      \* of g_clk_base, g_gpu_base, g_act_base those that are not 0
    gpuOn,       \* hardware: the GPU has its clock and is out of reset
    monitors,    \* hardware: activity monitors that run
    \* max17050.c
    session,     \* g_i2c_session is active
    current,     \* when the current register was read
    \* apm_ext.c
    refCnt,      \* g_refCnt
    services,    \* g_apmSrv, g_apmSysSrv: those that are active
    \* history
    off,         \* when something needed for a reading was last missing
    held         \* successful apmExtInitialize without their apmExtExit

hardware == <<gpuOn, monitors>>
clocks == <<mapped, hardware>>
power == <<session, current>>
apm == <<refCnt, services, held>>
vars == <<library, now, pc, asked, update, taken, clocks, power, apm, off>>

Frequencies == {"cpu", "mem", "gpu"}
Loads == {"all", "cpuLoad"}          \* of the memory, by everybody and by the CPU
Powers == {"now", "avg"}
Readings == Frequencies \cup Loads \cup Powers
Bases == {"clk", "gpuBase", "act"}
Services == {"apm", "apm:sys"}

(* What a reading needs: registers, a GPU that is on, a monitor that ran   *)
(* before (one just enabled reports the half it is initialised with, which *)
(* is no measurement), a session, answers of the gauge.                    *)
Needs(r) ==
    CASE r \in {"cpu", "mem"} -> {"clk"}
      [] r = "gpu"            -> {"clk", "gpuBase", "gpuOn"}
      [] r \in Loads          -> {"clk", "gpuBase", "gpuOn", "act", r}
      [] r \in Powers         -> {"session", r}

Needed == Bases \cup {"gpuOn", "session"} \cup Loads \cup Powers

ReadingsOf == IF library = "t210" THEN Frequencies \cup Loads ELSE Powers
Wait == IF library = "t210" THEN ClockWait ELSE PowerWait

Init ==
    /\ library \in {"t210", "max17050", "apm"}
    /\ now = 0
    /\ pc = "idle"
    /\ asked = 0
    /\ update = 0
    /\ taken = [r \in Readings |-> 0]
    /\ mapped = {}
    /\ gpuOn \in BOOLEAN
    /\ monitors \in SUBSET Loads
    /\ session = FALSE
    /\ current = 0
    /\ refCnt = 0
    /\ services = {}
    /\ off = [x \in Needed |-> 0]
    /\ held = 0

(* A step of a call *)
Go(from, to) == pc = from /\ pc' = to /\ UNCHANGED <<library, now, gpuOn>>

(* A step of an update that leaves the other libraries alone *)
GoOn(from, to) == Go(from, to) /\ UNCHANGED <<asked, update, apm>>

Take(r, time) == taken' = [taken EXCEPT ![r] = time]
Missing(X) == off' = [x \in Needed |-> IF x \in X THEN now ELSE off[x]]
-------------------------------------------------------------------------------
(* mutant of Begin: the ticks are stored before the early return *)
BeginStamped(first) ==
    /\ asked' = now
    /\ update' = now
    /\ Go("idle", IF now - update <= Wait THEN "answer" ELSE first)

(* _clock_update_freqs and _max17050_update begin alike: the interval      *)
(* starts now, whatever becomes of the update.                             *)
Begin(first) ==
    /\ asked' = now
    /\ IF now - update <= Wait
       THEN Go("idle", "answer") /\ UNCHANGED update
       ELSE Go("idle", first) /\ update' = now

(* The eight functions that return a reading differ only in which. *)
Answer == GoOn("answer", "idle") /\ UNCHANGED <<taken, mapped, monitors, power, off>>
-------------------------------------------------------------------------------
(* t210.c: _clock_update_freqs                                             *)

ClockUpdate ==
    /\ library = "t210"
    /\ Begin("map")
    /\ UNCHANGED <<taken, mapped, monitors, power, apm, off>>

(* The kernel is asked for a base address until it has given it. *)
QueryIoMapping(base) == mapped' \in {mapped, mapped \cup {base}}

MapClocks ==
    /\ QueryIoMapping("clk")
    /\ GoOn("map", IF "clk" \in mapped' THEN "mem" ELSE "answer")
    /\ Missing({"clk"} \ mapped')
    /\ UNCHANGED <<taken, monitors, power>>

(* _clock_get_dev_freq *)
GetDevFreq(r, next) ==
    /\ GoOn(r, next)
    /\ Take(r, now)
    /\ UNCHANGED <<mapped, monitors, power, off>>

(* A GPU that is off ends the update: the loads are not renewed either. *)
MeasureGpu ==
    /\ QueryIoMapping("gpuBase")
    /\ IF "gpuBase" \in mapped' /\ gpuOn
       THEN GoOn("gpu", "loads") /\ Take("gpu", now)
       ELSE GoOn("gpu", "answer") /\ UNCHANGED taken
    /\ Missing(({"gpuBase"} \ mapped') \cup (IF gpuOn THEN {} ELSE {"gpuOn"}))
    /\ UNCHANGED <<monitors, power>>

(* Monitors that do not run are enabled. *)
MeasureLoads ==
    /\ QueryIoMapping("act")
    /\ GoOn("loads", "answer")
    /\ IF "act" \in mapped'
       THEN /\ monitors' = Loads
            /\ taken' = [r \in Readings |-> IF r \in monitors THEN now ELSE taken[r]]
            /\ Missing(Loads \ monitors)
       ELSE Missing({"act"}) /\ UNCHANGED <<monitors, taken>>
    /\ UNCHANGED power
-------------------------------------------------------------------------------
(* max17050.c                                                              *)

(* max17050Initialize that succeeds, max17050Exit *)
SetSession(open) ==
    /\ library = "max17050"
    /\ session = ~open
    /\ session' = open
    /\ Go("idle", "idle")
    /\ UNCHANGED <<asked, update, taken, mapped, monitors, current, apm, off>>

(* _max17050_update *)
PowerUpdate ==
    /\ library = "max17050"
    /\ Begin(IF session THEN "Current" ELSE "answer")
    /\ Missing(IF session \/ now - update <= Wait THEN {} ELSE {"session"})
    /\ UNCHANGED <<taken, mapped, monitors, power, apm>>

(* _max17050_get_power: the current, then the voltage.  A register that    *)
(* cannot be read leaves the reading as it is; the next one is tried.      *)
ReadCurrent(r, creg, vreg, next) ==
    /\ \/ GoOn(creg, vreg) /\ current' = now /\ UNCHANGED off
       \/ GoOn(creg, next) /\ Missing({r}) /\ UNCHANGED current
    /\ UNCHANGED <<taken, mapped, monitors, session>>

ReadVoltage(r, vreg, next) ==
    /\ GoOn(vreg, next)
    /\ \/ Take(r, current) /\ UNCHANGED off
       \/ Missing({r}) /\ UNCHANGED taken
    /\ UNCHANGED <<mapped, monitors, power>>

GetPowerNow ==
    \/ ReadCurrent("now", "Current", "VCELL", "AvgCurrent")
    \/ ReadVoltage("now", "VCELL", "AvgCurrent")

GetPowerAvg ==
    \/ ReadCurrent("avg", "AvgCurrent", "AvgVCELL", "answer")
    \/ ReadVoltage("avg", "AvgVCELL", "answer")
-------------------------------------------------------------------------------
(* apm_ext.c                                                               *)

OtherThanApm == UNCHANGED <<asked, update, taken, mapped, monitors, power, off>>

(* mutant of Release: the sessions are closed with the first exit *)
ReleaseAll == refCnt' = refCnt - 1 /\ services' = {}

(* apmExtExit, up to the reference of the caller *)
Release ==
    /\ refCnt' = refCnt - 1
    /\ services' = IF refCnt = 1 THEN {} ELSE services

ApmInitialize ==
    /\ library = "apm"
    /\ held < MaxHeld
    /\ refCnt' = refCnt + 1
    /\ IF "apm" \in services
       THEN Go("idle", "idle") /\ held' = held + 1
       ELSE Go("idle", "apm") /\ UNCHANGED held
    /\ UNCHANGED services
    /\ OtherThanApm

(* smGetService; a failure gives back what was got *)
GetService(name, next) ==
    /\ \/ /\ Go(name, next)
          /\ services' = services \cup {name}
          /\ held' = IF next = "idle" THEN held + 1 ELSE held
          /\ UNCHANGED refCnt
       \/ Go(name, "idle") /\ Release /\ UNCHANGED held
    /\ OtherThanApm

ApmExit ==
    /\ library = "apm"
    /\ held > 0
    /\ held' = held - 1
    /\ Go("idle", "idle")
    /\ Release
    /\ OtherThanApm
-------------------------------------------------------------------------------
(* Time passes, also within a call: a measurement takes 500 microseconds. *)
Tick ==
    /\ now < MaxTime
    /\ now' = now + 1
    /\ UNCHANGED <<library, pc, asked, update, taken, clocks, power, apm, off>>

(* The system switches the GPU; it stops the monitors when it sleeps. *)
SwitchGpu ==
    /\ gpuOn' = ~gpuOn
    /\ UNCHANGED <<library, now, pc, asked, update, taken, mapped, monitors, power, apm, off>>

StopMonitors ==
    /\ monitors' \in SUBSET monitors
    /\ UNCHANGED <<library, now, pc, asked, update, taken, mapped, gpuOn, power, apm, off>>

ClockStep ==
    \/ ClockUpdate \/ MapClocks
    \/ GetDevFreq("mem", "cpu") \/ GetDevFreq("cpu", "gpu")
    \/ MeasureGpu \/ MeasureLoads

PowerStep ==
    \/ SetSession(TRUE) \/ SetSession(FALSE)
    \/ PowerUpdate \/ GetPowerNow \/ GetPowerAvg

ApmStep ==
    \/ ApmInitialize
    \/ GetService("apm", "apm:sys") \/ GetService("apm:sys", "idle")
    \/ ApmExit

Next ==
    \/ ClockStep \/ PowerStep \/ ApmStep \/ Answer
    \/ Tick \/ SwitchGpu \/ StopMonitors

Spec == Init /\ [][Next]_vars
-------------------------------------------------------------------------------
TypeOK ==
    /\ library \in {"t210", "max17050", "apm"}
    /\ now \in Nat /\ asked \in Nat /\ update \in Nat /\ current \in Nat
    /\ pc \in {"idle", "answer", "map", "mem", "cpu", "gpu", "loads",
               "Current", "VCELL", "AvgCurrent", "AvgVCELL", "apm", "apm:sys"}
    /\ taken \in [Readings -> Nat]
    /\ mapped \subseteq Bases
    /\ gpuOn \in BOOLEAN
    /\ monitors \subseteq Loads
    /\ session \in BOOLEAN
    /\ refCnt \in Nat /\ held \in Nat
    /\ services \subseteq Services
    /\ off \in [Needed -> Nat]

(* A time that lies at most one interval before the call *)
Recent(time) == asked - time <= Wait

(* What is answered was measured at most one interval before the call, or   *)
(* something it needs was missing within that time: t210.c and max17050.c   *)
(* start the interval before they measure and keep the reading of a failed  *)
(* update.  In the first interval after tick 0 nothing need be measured.    *)
ReadingsAreRecent ==
    pc = "answer" =>
        \A r \in ReadingsOf : \/ Recent(taken[r])
                              \/ \E x \in Needs(r) : Recent(off[x])

(* Between the calls of apm_ext.c the count is that of the initializations  *)
(* that succeeded and were not undone, and both sessions are open exactly   *)
(* when there are any: one that got only the first gives it back, and no    *)
(* exit closes what another initialization still uses.                      *)
ApmIsCounted ==
    pc = "idle" =>
        /\ refCnt = held
        /\ services = IF held > 0 THEN Services ELSE {}
================================================================================
