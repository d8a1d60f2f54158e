------------------------------ MODULE NxExtProofs ------------------------------
(***************************************************************************)
(* Proofs about NxExt for every interval and any number of                 *)
(* initializations.                                                        *)
(*                                                                         *)
(* The globals of t210.c and max17050.c are recent because an update deals *)
(* with its readings one after the other: each it has dealt with was taken *)
(* since the update began, or something it needs was missing since then    *)
(* (Settled).  The update itself began at most one interval before the     *)
(* call that answers.                                                      *)
(***************************************************************************)
EXTENDS NxExt, TLAPS

Clocks == {"map", "mem", "cpu", "gpu", "loads"}
Gauge == {"Current", "VCELL", "AvgCurrent", "AvgVCELL"}

(* A step belongs to the library that is called. *)
PcOwned ==
    /\ pc \in Clocks => library = "t210"
    /\ pc \in Gauge => library = "max17050"
    /\ pc \in {"apm", "apm:sys"} => library = "apm"

(* The interval of the globals contains the call. *)
Interval ==
    /\ update <= asked /\ asked <= now
    /\ pc \in {"answer"} \cup Clocks \cup Gauge => Recent(update)

(* The readings the update has dealt with *)
Done ==
    CASE pc \in {"map", "mem", "Current", "VCELL"} -> {}
      [] pc = "cpu" -> {"mem"}
      [] pc = "gpu" -> {"mem", "cpu"}
      [] pc = "loads" -> Frequencies
      [] pc \in {"AvgCurrent", "AvgVCELL"} -> {"now"}
      [] pc \in {"idle", "answer", "apm", "apm:sys"} -> ReadingsOf

Since(r) == taken[r] >= update \/ \E x \in Needs(r) : off[x] >= update

Settled ==
    /\ \A r \in Done : Since(r)
    /\ pc \in {"VCELL", "AvgVCELL"} => current >= update

Counted ==
    /\ pc = "apm" => held = 0 /\ refCnt = 1 /\ services = {}
    /\ pc = "apm:sys" => held = 0 /\ refCnt = 1 /\ services = {"apm"}
    /\ pc \notin {"apm", "apm:sys"} =>
           /\ refCnt = held
           /\ services = IF held > 0 THEN Services ELSE {}

Inv == TypeOK /\ PcOwned /\ Interval /\ Settled /\ Counted
-------------------------------------------------------------------------------
(* What a reading needs is among the things whose absence is remembered. *)
LEMMA NeedsType == \A r \in Readings : Needs(r) \subseteq Needed
BY DEF Needs, Needed, Readings, Frequencies, Loads, Powers, Bases

LEMMA ClockNeeds ==
    /\ Needs("cpu") = {"clk"} /\ Needs("mem") = {"clk"}
    /\ Needs("gpu") = {"clk", "gpuBase", "gpuOn"}
    /\ Needs("all") = {"clk", "gpuBase", "gpuOn", "act", "all"}
    /\ Needs("cpuLoad") = {"clk", "gpuBase", "gpuOn", "act", "cpuLoad"}
BY DEF Needs, Loads, Powers

(* A step that notes what is missing, or notes nothing, does not unsettle   *)
(* a reading that is not taken again, because the clock does not go back.   *)
LEMMA StillSince ==
    ASSUME TypeOK, update <= now, update' = update,
           NEW X, Missing(X) \/ UNCHANGED off,
           NEW r \in Readings, Since(r), taken'[r] >= update \/ taken'[r] = taken[r]
    PROVE  Since(r)'
<1>1. \A x \in Needed : off[x] >= update => off'[x] >= update
  BY DEF TypeOK, Missing
<1>2. CASE taken[r] >= update
  BY <1>2 DEF Since, TypeOK
<1>3. CASE \E x \in Needs(r) : off[x] >= update
  BY <1>1, <1>3, NeedsType DEF Since
<1>. QED BY <1>2, <1>3 DEF Since

(* What a reading needs is missing now: it is settled. *)
LEMMA SinceMissing ==
    ASSUME TypeOK, update <= now, update' = update,
           NEW X, Missing(X),
           NEW r \in Readings, NEW x \in X, x \in Needs(r)
    PROVE  Since(r)'
<1>1. x \in Needed
  BY NeedsType
<1>2. off'[x] = now
  BY <1>1 DEF Missing
<1>. QED BY <1>2 DEF Since, TypeOK
-------------------------------------------------------------------------------
LEMMA InitInv == Init => Inv
<1>. SUFFICES ASSUME Init PROVE Inv
  OBVIOUS
<1>1. TypeOK
  BY DEF Init, TypeOK, Loads, Bases, Services, Needed
<1>2. PcOwned /\ Counted
  BY DEF Init, PcOwned, Counted, Clocks, Gauge
<1>3. Interval
  BY WaitAssumption DEF Init, Interval, Recent, Clocks, Gauge
<1>4. Settled
  BY DEF Init, Settled, Since, Done, ReadingsOf, Readings, Frequencies, Loads, Powers
<1>. QED BY <1>1, <1>2, <1>3, <1>4 DEF Inv
-------------------------------------------------------------------------------
LEMMA TypeNext == TypeOK /\ Counted /\ [Next]_vars => TypeOK'
<1>. SUFFICES ASSUME TypeOK, Counted, [Next]_vars PROVE TypeOK'
  OBVIOUS
<1>. USE DEF TypeOK, Go, GoOn, Readings, Frequencies, Loads, Powers, Bases, Services
<1>1. CASE ClockStep
  <2>1. CASE ClockUpdate
    BY <2>1 DEF ClockUpdate, Begin, power, apm
  <2>2. CASE MapClocks
    BY <2>2 DEF MapClocks, QueryIoMapping, Missing, power, apm
  <2>3. CASE GetDevFreq("mem", "cpu") \/ GetDevFreq("cpu", "gpu")
    BY <2>3 DEF GetDevFreq, Take, power, apm
  <2>4. CASE MeasureGpu
    BY <2>4 DEF MeasureGpu, QueryIoMapping, Take, Missing, power, apm
  <2>5. CASE MeasureLoads
    <3>1. taken' \in [Readings -> Nat] /\ off' \in [Needed -> Nat] /\ monitors' \subseteq Loads
      BY <2>5 DEF MeasureLoads, Missing
    <3>. QED BY <2>5, <3>1 DEF MeasureLoads, QueryIoMapping, power, apm
  <2>. QED BY <1>1, <2>1, <2>2, <2>3, <2>4, <2>5 DEF ClockStep
<1>2. CASE PowerStep
  <2>1. CASE SetSession(TRUE) \/ SetSession(FALSE)
    BY <2>1 DEF SetSession, apm
  <2>2. CASE PowerUpdate
    BY <2>2 DEF PowerUpdate, Begin, Missing, power, apm
  <2>3. CASE GetPowerNow
    BY <2>3 DEF GetPowerNow, ReadCurrent, ReadVoltage, Take, Missing, power, apm
  <2>4. CASE GetPowerAvg
    BY <2>4 DEF GetPowerAvg, ReadCurrent, ReadVoltage, Take, Missing, power, apm
  <2>. QED BY <1>2, <2>1, <2>2, <2>3, <2>4 DEF PowerStep
<1>3. CASE ApmStep
  <2>1. CASE ApmInitialize
    BY <2>1 DEF ApmInitialize, OtherThanApm, power
  <2>2. ASSUME NEW name \in Services, NEW next \in {"apm:sys", "idle"}, GetService(name, next)
        PROVE  TypeOK'
    <3>1. refCnt' \in Nat /\ held' \in Nat /\ services' \subseteq Services
      <4>1. pc = name /\ refCnt = 1 /\ held = 0
        BY <2>2 DEF GetService, Counted
      <4>2. CASE UNCHANGED held /\ Release
        BY <4>1, <4>2 DEF Release
      <4>3. CASE UNCHANGED refCnt /\ held' \in {held, held + 1} /\ services' = services \cup {name}
        BY <4>3
      <4>. QED BY <2>2, <4>2, <4>3 DEF GetService
    <3>. QED BY <2>2, <3>1 DEF GetService, OtherThanApm, power
  <2>3. CASE ApmExit
    BY <2>3 DEF ApmExit, Release, OtherThanApm, power, Counted
  <2>. QED BY <1>3, <2>1, <2>2, <2>3 DEF ApmStep
<1>4. CASE Answer \/ Tick \/ SwitchGpu \/ StopMonitors \/ UNCHANGED vars
  <2>1. CASE Answer
    BY <2>1 DEF Answer, power, apm
  <2>2. CASE Tick
    BY <2>2 DEF Tick, clocks, hardware, power, apm
  <2>3. CASE SwitchGpu \/ StopMonitors
    BY <2>3 DEF SwitchGpu, StopMonitors, power, apm
  <2>4. CASE UNCHANGED vars
    BY <2>4 DEF vars, clocks, hardware, power, apm
  <2>. QED BY <1>4, <2>1, <2>2, <2>3, <2>4
<1>. QED BY <1>1, <1>2, <1>3, <1>4 DEF Next

LEMMA OwnedNext == PcOwned /\ [Next]_vars => PcOwned'
<1>. SUFFICES ASSUME PcOwned, [Next]_vars PROVE PcOwned'
  OBVIOUS
<1>. USE DEF PcOwned, Go, GoOn, Clocks, Gauge
<1>1. CASE ClockStep
  BY <1>1 DEF ClockStep, ClockUpdate, Begin, MapClocks, GetDevFreq, MeasureGpu, MeasureLoads
<1>2. CASE PowerStep
  BY <1>2 DEF PowerStep, SetSession, PowerUpdate, Begin, GetPowerNow, GetPowerAvg,
              ReadCurrent, ReadVoltage
<1>3. CASE ApmStep
  BY <1>3 DEF ApmStep, ApmInitialize, GetService, ApmExit
<1>4. CASE Answer \/ Tick \/ SwitchGpu \/ StopMonitors \/ UNCHANGED vars
  BY <1>4 DEF Answer, Tick, SwitchGpu, StopMonitors, vars
<1>. QED BY <1>1, <1>2, <1>3, <1>4 DEF Next

(* Only the beginning of an update moves its time; it looks at the clock.  *)
LEMMA IntervalNext == TypeOK /\ Interval /\ [Next]_vars => Interval'
<1>. SUFFICES ASSUME TypeOK, Interval, [Next]_vars PROVE Interval'
  OBVIOUS
<1>. USE DEF TypeOK, Interval, Recent, Wait, Go, GoOn, Clocks, Gauge
<1>1. CASE ClockUpdate
  BY <1>1, WaitAssumption DEF ClockUpdate, Begin
<1>2. CASE PowerUpdate
  BY <1>2, WaitAssumption DEF PowerUpdate, Begin
<1>3. CASE ClockStep /\ ~ClockUpdate
  BY <1>3 DEF ClockStep, MapClocks, GetDevFreq, MeasureGpu, MeasureLoads
<1>4. CASE PowerStep /\ ~PowerUpdate
  BY <1>4 DEF PowerStep, SetSession, GetPowerNow, GetPowerAvg, ReadCurrent, ReadVoltage
<1>5. CASE ApmStep
  BY <1>5 DEF ApmStep, ApmInitialize, GetService, ApmExit, OtherThanApm
<1>6. CASE Answer \/ Tick \/ SwitchGpu \/ StopMonitors \/ UNCHANGED vars
  BY <1>6 DEF Answer, Tick, SwitchGpu, StopMonitors, vars
<1>. QED BY <1>1, <1>2, <1>3, <1>4, <1>5, <1>6 DEF Next, ClockStep, PowerStep

LEMMA CountedNext == TypeOK /\ Counted /\ [Next]_vars => Counted'
<1>. SUFFICES ASSUME TypeOK, Counted, [Next]_vars PROVE Counted'
  OBVIOUS
<1>. USE DEF TypeOK, Counted, Go, GoOn, Services
<1>1. CASE ClockStep
  BY <1>1 DEF ClockStep, ClockUpdate, Begin, MapClocks, GetDevFreq, MeasureGpu, MeasureLoads, apm
<1>2. CASE PowerStep
  BY <1>2 DEF PowerStep, SetSession, PowerUpdate, Begin, GetPowerNow, GetPowerAvg,
              ReadCurrent, ReadVoltage, apm
<1>3. CASE ApmInitialize
  BY <1>3 DEF ApmInitialize
<1>4. CASE GetService("apm", "apm:sys")
  <2>1. held = 0 /\ refCnt = 1 /\ services = {} /\ UNCHANGED held
    BY <1>4 DEF GetService
  <2>2. CASE pc' = "apm:sys" /\ services' = {"apm"} /\ UNCHANGED refCnt
    BY <2>1, <2>2
  <2>3. CASE pc' = "idle" /\ Release
    BY <2>1, <2>3 DEF Release
  <2>. QED BY <1>4, <2>1, <2>2, <2>3 DEF GetService
<1>5. CASE GetService("apm:sys", "idle")
  BY <1>5 DEF GetService, Release
<1>6. CASE ApmExit
  <2>1. /\ refCnt = held /\ held > 0 /\ services = Services
        /\ pc' = "idle" /\ refCnt' = refCnt - 1 /\ held' = held - 1
        /\ services' = IF refCnt = 1 THEN {} ELSE services
    BY <1>6 DEF ApmExit, Release
  <2>. QED BY <2>1
<1>7. CASE Answer \/ Tick \/ SwitchGpu \/ StopMonitors \/ UNCHANGED vars
  BY <1>7 DEF Answer, Tick, SwitchGpu, StopMonitors, apm, vars
<1>. QED BY <1>1, <1>2, <1>3, <1>4, <1>5, <1>6, <1>7 DEF Next, ApmStep

(* The readings an update has dealt with stay settled, and each of its      *)
(* steps settles the readings it is about, or all that are left when it     *)
(* gives up.                                                                *)
LEMMA SettledNext ==
    TypeOK /\ PcOwned /\ Interval /\ Settled /\ [Next]_vars => Settled'
<1>. SUFFICES ASSUME TypeOK, PcOwned, Interval, Settled, [Next]_vars PROVE Settled'
  OBVIOUS
<1>a. update <= now /\ now \in Nat /\ update \in Nat /\ asked \in Nat
  BY DEF TypeOK, Interval
<1>b. Done \subseteq Readings
  BY DEF TypeOK, Done, ReadingsOf, Readings, Frequencies, Loads, Powers
<1>c. ASSUME NEW X, Missing(X) \/ UNCHANGED off, update' = update,
             \A r \in Readings : taken'[r] >= update \/ taken'[r] = taken[r],
             \A r \in Done' : r \in Done \/ Since(r)',
             pc' \in {"VCELL", "AvgVCELL"} => current' >= update
      PROVE  Settled'
  <2>1. \A r \in Done : Since(r)'
    BY <1>a, <1>b, <1>c, StillSince DEF Settled
  <2>. QED BY <1>c, <2>1 DEF Settled
<1>d. ASSUME NEW X, Missing(X), update' = update,
             NEW r \in Readings, NEW x \in X, x \in Needs(r)
      PROVE  Since(r)'
  BY <1>a, <1>d, SinceMissing
<1>e. ASSUME NEW r \in Readings, Take(r, now), update' = update
      PROVE  /\ Since(r)'
             /\ \A s \in Readings : taken'[s] >= update \/ taken'[s] = taken[s]
  BY <1>a, <1>e DEF Take, Since, TypeOK
<1>1. CASE ClockUpdate
  <2>1. CASE pc' = "answer" /\ UNCHANGED update
    BY <1>1, <2>1, <1>c DEF ClockUpdate, Begin, Go, Done, ReadingsOf
  <2>2. CASE pc' = "map"
    BY <2>2 DEF Settled, Done
  <2>. QED BY <1>1, <2>1, <2>2 DEF ClockUpdate, Begin, Go
<1>2. CASE MapClocks
  <2>1. PICK X : Missing(X) /\ X = {"clk"} \ mapped'
    BY <1>2 DEF MapClocks
  <2>2. pc = "map" /\ library = "t210" /\ UNCHANGED <<update, taken, library>>
    BY <1>2 DEF MapClocks, GoOn, Go, PcOwned, Clocks
  <2>3. CASE pc' = "mem"
    BY <2>3 DEF Settled, Done
  <2>4. CASE pc' = "answer" /\ "clk" \in X
    <3>1. \A r \in Frequencies \cup Loads : "clk" \in Needs(r) /\ r \in Readings
      BY ClockNeeds DEF Frequencies, Loads, Readings
    <3>2. \A r \in Frequencies \cup Loads : Since(r)'
      BY <2>1, <2>2, <2>4, <3>1, <1>d
    <3>. QED BY <2>2, <2>4, <3>2 DEF Settled, Done, ReadingsOf
  <2>. QED BY <1>2, <2>1, <2>3, <2>4 DEF MapClocks, GoOn, Go
<1>3. CASE GetDevFreq("mem", "cpu")
  <2>1. /\ Take("mem", now) /\ "mem" \in Readings /\ pc' = "cpu"
        /\ UNCHANGED <<update, off>>
    BY <1>3 DEF GetDevFreq, GoOn, Go, Readings, Frequencies
  <2>2. Since("mem")'
    BY <2>1, <1>e
  <2>. QED BY <2>1, <2>2 DEF Settled, Done
<1>4. CASE GetDevFreq("cpu", "gpu")
  <2>1. /\ Take("cpu", now) /\ "cpu" \in Readings /\ pc = "cpu" /\ pc' = "gpu"
        /\ UNCHANGED <<update, off>>
    BY <1>4 DEF GetDevFreq, GoOn, Go, Readings, Frequencies
  <2>2. Since("cpu")' /\ \A s \in Readings : taken'[s] >= update \/ taken'[s] = taken[s]
    BY <2>1, <1>e
  <2>. QED BY <2>1, <2>2, <1>c DEF Done
<1>5. CASE MeasureGpu
  <2>. DEFINE X == ({"gpuBase"} \ mapped') \cup (IF gpuOn THEN {} ELSE {"gpuOn"})
  <2>1. pc = "gpu" /\ library = "t210" /\ UNCHANGED <<update, library>> /\ Missing(X)
    BY <1>5 DEF MeasureGpu, GoOn, Go, PcOwned, Clocks
  <2>2. CASE pc' = "loads" /\ Take("gpu", now)
    <3>1. Since("gpu")' /\ \A s \in Readings : taken'[s] >= update \/ taken'[s] = taken[s]
      BY <2>1, <2>2, <1>e DEF Readings, Frequencies
    <3>2. \A r \in Done' : r \in Done \/ Since(r)'
      BY <2>1, <2>2, <3>1 DEF Done, Frequencies
    <3>. QED BY <2>1, <2>2, <3>1, <3>2, <1>c
  <2>3. CASE pc' = "answer" /\ X # {} /\ UNCHANGED taken
    <3>1. PICK x \in X : TRUE
      BY <2>3
    <3>2. \A r \in {"gpu"} \cup Loads : x \in Needs(r) /\ r \in Readings
      BY <3>1, ClockNeeds DEF Loads, Readings, Frequencies
    <3>3. \A r \in {"gpu"} \cup Loads : Since(r)'
      BY <2>1, <3>1, <3>2, <1>d
    <3>4. \A r \in Done' : r \in Done \/ Since(r)'
      BY <2>1, <2>3, <3>3 DEF Done, ReadingsOf, Frequencies
    <3>. QED BY <2>1, <2>3, <3>4, <1>c
  <2>4. \/ pc' = "loads" /\ Take("gpu", now)
        \/ pc' = "answer" /\ X # {} /\ UNCHANGED taken
    BY <1>5 DEF MeasureGpu, GoOn, Go
  <2>. QED BY <2>2, <2>3, <2>4
<1>6. CASE MeasureLoads
  <2>1. /\ pc = "loads" /\ pc' = "answer" /\ library = "t210"
        /\ UNCHANGED <<update, library>>
    BY <1>6 DEF MeasureLoads, GoOn, Go, PcOwned, Clocks
  <2>2. \A r \in Done' : r \in Done \/ r \in Loads
    BY <2>1 DEF Done, ReadingsOf
  <2>3. \A r \in Loads : r \in Readings /\ r \in Needs(r) /\ "act" \in Needs(r)
    BY ClockNeeds DEF Loads, Readings
  <2>4. CASE /\ Missing(Loads \ monitors)
             /\ taken' = [r \in Readings |-> IF r \in monitors THEN now ELSE taken[r]]
    <3>1. \A r \in Loads : Since(r)'
      <4>. SUFFICES ASSUME NEW r \in Loads PROVE Since(r)'
        OBVIOUS
      <4>1. CASE r \in monitors
        BY <4>1, <2>1, <2>3, <2>4, <1>a DEF Since
      <4>2. CASE r \notin monitors
        BY <4>2, <2>1, <2>3, <2>4, <1>d
      <4>. QED BY <4>1, <4>2
    <3>2. \A r \in Readings : taken'[r] >= update \/ taken'[r] = taken[r]
      BY <2>4, <1>a
    <3>. QED BY <2>1, <2>2, <2>4, <3>1, <3>2, <1>c
  <2>5. CASE Missing({"act"}) /\ UNCHANGED taken
    <3>1. \A r \in Loads : Since(r)'
      BY <2>1, <2>3, <2>5, <1>d
    <3>. QED BY <2>1, <2>2, <2>5, <3>1, <1>c
  <2>. QED BY <1>6, <2>4, <2>5 DEF MeasureLoads
<1>7. CASE PowerUpdate
  <2>1. library = "max17050" /\ UNCHANGED <<library, taken>> /\ pc = "idle"
    BY <1>7 DEF PowerUpdate, Begin, Go
  <2>2. CASE pc' = "answer" /\ UNCHANGED update
    BY <1>7, <2>1, <2>2, <1>c DEF PowerUpdate, Done, ReadingsOf
  <2>3. CASE pc' = "Current"
    BY <2>3 DEF Settled, Done
  <2>4. CASE pc' = "answer" /\ update' = now /\ Missing({"session"})
    <3>1. off'["session"] = now
      BY <2>4 DEF Missing, Needed
    <3>2. \A r \in Powers : Since(r)'
      BY <2>4, <3>1, <1>a DEF Since, Needs, Powers
    <3>. QED BY <2>1, <2>4, <3>2 DEF Settled, Done, ReadingsOf
  <2>. QED BY <1>7, <2>2, <2>3, <2>4 DEF PowerUpdate, Begin, Go
<1>8. ASSUME NEW r \in Powers, NEW creg, NEW vreg, NEW next, ReadCurrent(r, creg, vreg, next),
             \/ r = "now" /\ creg = "Current" /\ vreg = "VCELL" /\ next = "AvgCurrent"
             \/ r = "avg" /\ creg = "AvgCurrent" /\ vreg = "AvgVCELL" /\ next = "answer"
      PROVE  Settled'
  <2>1. pc = creg /\ library = "max17050" /\ UNCHANGED <<library, update, taken>>
    BY <1>8 DEF ReadCurrent, GoOn, Go, PcOwned, Gauge
  <2>2. CASE pc' = vreg /\ current' = now /\ UNCHANGED off
    <3>1. \A s \in Done' : s \in Done
      BY <1>8, <2>1, <2>2 DEF Done
    <3>. QED BY <2>1, <2>2, <3>1, <1>a, <1>c
  <2>3. CASE pc' = next /\ Missing({r})
    <3>1. r \in Readings /\ r \in Needs(r)
      BY DEF Needs, Powers, Readings, Loads
    <3>2. Since(r)'
      BY <2>1, <2>3, <3>1, <1>d
    <3>3. \A s \in Done' : s \in Done \/ s = r
      BY <1>8, <2>1, <2>3 DEF Done, ReadingsOf, Powers
    <3>. QED BY <1>8, <2>1, <2>3, <3>2, <3>3, <1>c
  <2>. QED BY <1>8, <2>2, <2>3 DEF ReadCurrent, GoOn, Go
<1>9. ASSUME NEW r \in Powers, NEW vreg, NEW next, ReadVoltage(r, vreg, next),
             \/ r = "now" /\ vreg = "VCELL" /\ next = "AvgCurrent"
             \/ r = "avg" /\ vreg = "AvgVCELL" /\ next = "answer"
      PROVE  Settled'
  <2>1. /\ pc = vreg /\ pc' = next /\ library = "max17050" /\ UNCHANGED <<library, update>>
        /\ current >= update
    BY <1>9 DEF ReadVoltage, GoOn, Go, PcOwned, Gauge, Settled
  <2>2. r \in Readings /\ r \in Needs(r)
    BY DEF Needs, Powers, Readings, Loads
  <2>3. CASE vreg = "VCELL"
    <3>1. Done' = {r}
      BY <1>9, <2>1, <2>3 DEF Done
    <3>2. Since(r)'
      <4>1. CASE Take(r, current) /\ UNCHANGED off
        BY <4>1, <2>1, <2>2 DEF Take, Since, TypeOK
      <4>2. CASE Missing({r})
        BY <4>2, <2>1, <2>2, <1>d
      <4>. QED BY <1>9, <4>1, <4>2 DEF ReadVoltage
    <3>. QED BY <1>9, <2>1, <2>3, <3>1, <3>2 DEF Settled
  <2>4. CASE vreg = "AvgVCELL"
    <3>1. \A s \in Done' : s \in Done \/ s = r
      BY <1>9, <2>1, <2>4 DEF Done, ReadingsOf, Powers
    <3>2. CASE Take(r, current) /\ UNCHANGED off
      <4>1. Since(r)' /\ \A s \in Readings : taken'[s] >= update \/ taken'[s] = taken[s]
        BY <3>2, <2>1, <2>2 DEF Take, Since, TypeOK
      <4>. QED BY <1>9, <2>1, <2>4, <3>1, <3>2, <4>1, <1>c
    <3>3. CASE Missing({r}) /\ UNCHANGED taken
      <4>1. Since(r)'
        BY <3>3, <2>1, <2>2, <1>d
      <4>. QED BY <1>9, <2>1, <2>4, <3>1, <3>3, <4>1, <1>c
    <3>. QED BY <1>9, <3>2, <3>3 DEF ReadVoltage
  <2>. QED BY <1>9, <2>3, <2>4
<1>10. CASE GetPowerNow \/ GetPowerAvg
  BY <1>10, <1>8, <1>9 DEF GetPowerNow, GetPowerAvg, Powers
<1>11. ASSUME UNCHANGED <<library, update, taken, current, off>>,
              \A s \in Done' : s \in Done,
              pc' \in {"VCELL", "AvgVCELL"} => pc' = pc
       PROVE  Settled'
  BY <1>11, <1>c DEF Settled
<1>12. CASE SetSession(TRUE) \/ SetSession(FALSE)
  BY <1>12, <1>11 DEF SetSession, Go, Done, ReadingsOf
<1>13. CASE ApmStep
  <2>1. /\ pc \in {"idle", "apm", "apm:sys"} /\ pc' \in {"idle", "apm", "apm:sys"}
        /\ UNCHANGED <<library, update, taken, current, off>>
    BY <1>13 DEF ApmStep, ApmInitialize, GetService, ApmExit, Go, OtherThanApm, power
  <2>. QED BY <2>1, <1>11 DEF Done, ReadingsOf
<1>14. CASE Answer
  BY <1>14, <1>11 DEF Answer, GoOn, Go, power, Done, ReadingsOf
<1>15. CASE Tick \/ SwitchGpu \/ StopMonitors \/ UNCHANGED vars
  BY <1>15, <1>11 DEF Tick, SwitchGpu, StopMonitors, vars, power, Done, ReadingsOf
<1>. QED BY <1>1, <1>2, <1>3, <1>4, <1>5, <1>6, <1>7, <1>10, <1>12, <1>13, <1>14, <1>15
         DEF Next, ClockStep, PowerStep
-------------------------------------------------------------------------------
LEMMA Invariance == Spec => []Inv
<1>1. Inv /\ [Next]_vars => Inv'
  BY TypeNext, OwnedNext, IntervalNext, SettledNext, CountedNext DEF Inv
<1>. QED BY InitInv, <1>1, PTL DEF Spec

(* Every variable of the three libraries keeps its type, whatever the       *)
(* intervals: the unsigned reference count of apm_ext.c never wraps.        *)
THEOREM TypeCorrect == Spec => []TypeOK
<1>1. Inv => TypeOK
  BY DEF Inv
<1>. QED BY Invariance, <1>1, PTL

(* An answer of t210.c or max17050.c was measured at most one interval      *)
(* before the call, or something it needs was missing within that time.     *)
THEOREM Recency == Spec => []ReadingsAreRecent
<1>1. Inv => ReadingsAreRecent
  <2>. SUFFICES ASSUME Inv, pc = "answer", NEW r \in ReadingsOf
                PROVE  Recent(taken[r]) \/ \E x \in Needs(r) : Recent(off[x])
    BY DEF ReadingsAreRecent
  <2>1. Recent(update) /\ Since(r) /\ update \in Nat /\ asked \in Nat
    BY DEF Inv, TypeOK, Interval, Settled, Done
  <2>2. r \in Readings
    BY DEF ReadingsOf, Readings
  <2>3. Wait \in Nat
    BY WaitAssumption DEF Wait
  <2>4. \A time \in Nat : time >= update => Recent(time)
    BY <2>1, <2>3 DEF Recent
  <2>5. taken[r] \in Nat /\ \A x \in Needs(r) : off[x] \in Nat
    BY <2>2, NeedsType DEF Inv, TypeOK
  <2>. QED BY <2>1, <2>4, <2>5 DEF Since
<1>. QED BY Invariance, <1>1, PTL

(* Between the calls of apm_ext.c both sessions are open exactly when an    *)
(* initialization was not undone yet, also after one that failed half-way.  *)
THEOREM ApmCounted == Spec => []ApmIsCounted
<1>1. Inv => ApmIsCounted
  BY DEF Inv, Counted, ApmIsCounted
<1>. QED BY Invariance, <1>1, PTL
================================================================================
