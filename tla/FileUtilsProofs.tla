---------------------------- MODULE FileUtilsProofs ----------------------------
(***************************************************************************)
(* Proofs about FileUtils, for every interval and every bound on the clock.*)
(*                                                                         *)
(* FlagIsRecent is not inductive: it speaks of the moment of the decision, *)
(* and the look that it rests on was made by some earlier line of either   *)
(* thread.  Known says what every line may rely on: the flag file was at   *)
(* some time what g_log_enabled says, not before g_last_flag_check.        *)
(***************************************************************************)
EXTENDS FileUtils, TLAPS

(* Who is inside LogLine holds the mutex. *)
Holder == \A t \in Threads : pc[t] # "idle" => g_log_mutex = t

(* The clock does not run backwards for the holder of the mutex. *)
Order ==
    /\ g_last_flag_check <= clock
    /\ \A t \in Threads : pc[t] \in {"look", "decide"} =>
           g_last_flag_check <= now[t] /\ now[t] <= clock
    /\ \A t \in Threads : pc[t] = "decide" => now[t] - g_last_flag_check < Interval

(* Where the two threads can be, by the place of main(). *)
Places ==
    /\ mainPc = "start" => ~g_has_initialized /\ ~ipcRuns /\ pc[ipc] = "idle"
    /\ mainPc \in {"run", "exit", "finish", "disable", "unmount"} => mounted
    /\ mainPc \in {"disable", "unmount", "done"} => ~g_has_initialized
    /\ pc[main] # "idle" => mainPc \in {"run", "finish"}
    /\ (ipcRuns \/ pc[ipc] # "idle") /\ mainPc # "run" => caught

(* What g_log_enabled says was true, and not before the last look. *)
Known ==
    /\ <<clock, flag>> \in seen
    /\ g_has_initialized =>
           \E s \in seen : g_last_flag_check <= s[1] /\ s[2] = g_log_enabled

Inv == TypeOK /\ Holder /\ Order /\ Places /\ Known

LEMMA InitInv == Init => Inv
<1> SUFFICES ASSUME Init PROVE Inv OBVIOUS
<1> USE IntervalAssumption, ThreadsAssumption DEF Init, Threads
<1>1. TypeOK
  <2>1. seen \subseteq (0..MaxClock) \X BOOLEAN OBVIOUS
  <2> QED BY <2>1 DEF TypeOK
<1>2. Holder /\ Order BY DEF Holder, Order
<1>3. Places BY DEF Places
<1>4. Known BY DEF Known
<1> QED BY <1>1, <1>2, <1>3, <1>4 DEF Inv

(* The steps of a line (LogLine, RefreshFlags, fopen, fclose) keep Inv. *)
LEMMA LineInv ==
    ASSUME Inv, NEW t \in Threads,
           LogLine(t) \/ RefreshFlags(t) \/ Look(t) \/ Open(t) \/ Write(t)
    PROVE  Inv'
<1> USE IntervalAssumption, ThreadsAssumption
<1> USE DEF utilVars, mainVars, cardVars, Threads, Inv
<1>1. CASE LogLine(t)
  <2>1. TypeOK' BY <1>1 DEF LogLine, Step, Lock, TypeOK
  <2>2. Holder' BY <1>1 DEF LogLine, Step, Lock, TypeOK, Holder
  <2>3. Order' BY <1>1 DEF LogLine, Step, Lock, TypeOK, Order
  <2>4. Places' BY <1>1 DEF LogLine, Step, Lock, TypeOK, Places
  <2>5. Known' BY <1>1 DEF LogLine, Known
  <2> QED BY <2>1, <2>2, <2>3, <2>4, <2>5
<1>2. CASE RefreshFlags(t)
  <2>1. TypeOK' BY <1>2 DEF RefreshFlags, Step, TypeOK
  <2>2. Holder' BY <1>2 DEF RefreshFlags, Step, TypeOK, Holder
  <2>3. Order' BY <1>2 DEF RefreshFlags, Step, TypeOK, Order
  <2>4. Places' BY <1>2 DEF RefreshFlags, Step, TypeOK, Places
  <2>5. Known' BY <1>2 DEF RefreshFlags, Known
  <2> QED BY <2>1, <2>2, <2>3, <2>4, <2>5
<1>3. CASE Look(t)
  <2>1. TypeOK' BY <1>3 DEF Look, Step, TypeOK, Order
  <2>2. Holder' BY <1>3 DEF Look, Step, TypeOK, Holder
  <2>3. Order' BY <1>3 DEF Look, Step, TypeOK, Order, Holder
  <2>4. Places' BY <1>3 DEF Look, Step, TypeOK, Places
  <2>5. Known'
    <3>1. g_has_initialized => mounted BY DEF Places, TypeOK
    <3>2. g_last_flag_check' <= clock BY <1>3 DEF Look, Step, Order
    <3>3. mounted => g_log_enabled' = flag BY <1>3 DEF Look, TypeOK
    <3>4. <<clock, flag>> \in seen /\ UNCHANGED <<g_has_initialized, clock, flag, seen>>
      BY <1>3 DEF Look, Known
    <3> QED BY <3>1, <3>2, <3>3, <3>4 DEF Known
  <2> QED BY <2>1, <2>2, <2>3, <2>4, <2>5
<1>4. CASE Open(t)
  <2>1. TypeOK' BY <1>4 DEF Open, Step, Unlock, TypeOK
  <2>2. Holder' BY <1>4 DEF Open, Step, Unlock, TypeOK, Holder
  <2>3. Order' BY <1>4 DEF Open, Step, Unlock, TypeOK, Order
  <2>4. Places' BY <1>4 DEF Open, Step, Unlock, TypeOK, Places
  <2>5. Known' BY <1>4 DEF Open, Known
  <2> QED BY <2>1, <2>2, <2>3, <2>4, <2>5
<1>5. CASE Write(t)
  <2>1. TypeOK' BY <1>5 DEF Write, Step, Unlock, TypeOK
  <2>2. Holder' BY <1>5 DEF Write, Step, Unlock, TypeOK, Holder
  <2>3. Order' BY <1>5 DEF Write, Step, Unlock, TypeOK, Order
  <2>4. Places' BY <1>5 DEF Write, Step, Unlock, TypeOK, Places
  <2>5. Known' BY <1>5 DEF Write, Known
  <2> QED BY <2>1, <2>2, <2>3, <2>4, <2>5
<1> QED BY <1>1, <1>2, <1>3, <1>4, <1>5

(* The steps of main() keep Inv; Initialize is the only one that looks. *)
LEMMA MainInv ==
    ASSUME Inv,
           \/ Initialize \/ StartIpc \/ JoinIpc \/ Catch
           \/ ExitInitialized \/ ExitEnabled \/ ExitUnmount
    PROVE  Inv'
<1> USE IntervalAssumption, ThreadsAssumption
<1> USE DEF utilVars, lineVars, cardVars, Threads, Inv, Main
<1>1. CASE Initialize
  <2>1. TypeOK' BY <1>1 DEF Initialize, Step, TypeOK
  <2>2. Holder' BY <1>1 DEF Initialize, Step, TypeOK, Holder, Places
  <2>3. Order' BY <1>1 DEF Initialize, Step, TypeOK, Order, Places
  <2>4. Places' BY <1>1 DEF Initialize, Step, TypeOK, Places
  <2>5. Known'
    <3>1. g_last_flag_check' <= clock \/ ~g_has_initialized'
      BY <1>1 DEF Initialize, TypeOK, Places
    <3> QED BY <1>1, <3>1 DEF Initialize, Known, Places, TypeOK
  <2> QED BY <2>1, <2>2, <2>3, <2>4, <2>5
<1>2. CASE StartIpc
  BY <1>2 DEF StartIpc, TypeOK, Holder, Order, Places, Known
<1>3. CASE JoinIpc
  BY <1>3 DEF JoinIpc, TypeOK, Holder, Order, Places, Known
<1>4. CASE Catch
  BY <1>4 DEF Catch, TypeOK, Holder, Order, Places, Known
<1>5. CASE ExitInitialized
  BY <1>5 DEF ExitInitialized, TypeOK, Holder, Order, Places, Known
<1>6. CASE ExitEnabled
  BY <1>6 DEF ExitEnabled, TypeOK, Holder, Order, Places, Known
<1>7. CASE ExitUnmount
  BY <1>7 DEF ExitUnmount, TypeOK, Holder, Order, Places, Known
<1> QED BY <1>1, <1>2, <1>3, <1>4, <1>5, <1>6, <1>7

(* Time, and the hand that creates and removes the flag file, keep Inv. *)
LEMMA CardInv == ASSUME Inv, Tick \/ Switch PROVE Inv'
<1> USE IntervalAssumption, ThreadsAssumption
<1> USE DEF utilVars, lineVars, mainVars, Threads, Inv
<1>1. CASE Tick
  <2>1. TypeOK' BY <1>1 DEF Tick, TypeOK
  <2>2. Holder' /\ Places' BY <1>1 DEF Tick, Holder, Places
  <2>3. Order' BY <1>1 DEF Tick, TypeOK, Order
  <2>4. Known' BY <1>1 DEF Tick, Known
  <2> QED BY <2>1, <2>2, <2>3, <2>4
<1>2. CASE Switch
  <2>1. TypeOK'
    <3>1. flag' \in BOOLEAN BY <1>2 DEF Switch
    <3>2. seen' \subseteq (0..MaxClock) \X BOOLEAN
      <4>1. <<clock, flag'>> \in (0..MaxClock) \X BOOLEAN BY <3>1 DEF TypeOK
      <4>2. seen' = seen \union {<<clock, flag'>>} BY <1>2 DEF Switch
      <4> QED BY <4>1, <4>2 DEF TypeOK
    <3> QED BY <1>2, <3>1, <3>2 DEF Switch, TypeOK
  <2>2. Holder' /\ Places' /\ Order' BY <1>2 DEF Switch, Holder, Places, Order
  <2>3. Known' BY <1>2 DEF Switch, Known
  <2> QED BY <2>1, <2>2, <2>3
<1> QED BY <1>1, <1>2

LEMMA StutterInv == ASSUME Inv, UNCHANGED vars PROVE Inv'
  BY DEF Inv, TypeOK, Holder, Order, Places, Known,
         vars, utilVars, lineVars, mainVars, cardVars

LEMMA Invariance == Spec => []Inv
<1>1. Inv /\ [Next]_vars => Inv'
  BY LineInv, MainInv, CardInv, StutterInv DEF Next
<1> QED BY InitInv, <1>1, PTL DEF Spec

(* The clock and what is taken from it stay in their range. *)
THEOREM TypeCorrect == Spec => []TypeOK
<1>1. Inv => TypeOK BY DEF Inv
<1> QED BY Invariance, <1>1, PTL

(* Lines exclude each other, and the unsigned age of a look never wraps. *)
THEOREM LinesSerial == Spec => []LinesAreSerial
<1>1. Inv => LinesAreSerial BY DEF Inv, LinesAreSerial, Holder, Order
<1> QED BY Invariance, <1>1, PTL

(* No line is decided by a flag that is out of date by an interval. *)
THEOREM FlagRecent == Spec => []FlagIsRecent
<1>1. Inv => FlagIsRecent
  <2> SUFFICES ASSUME Inv, g_has_initialized,
                      NEW t \in Threads, pc[t] = "decide"
               PROVE  \E s \in seen : s[1] + Interval > now[t] /\ s[2] = g_log_enabled
    BY DEF FlagIsRecent
  <2>1. PICK s \in seen : g_last_flag_check <= s[1] /\ s[2] = g_log_enabled
    BY DEF Inv, Known
  <2>2. s[1] \in Int /\ now[t] \in Int /\ g_last_flag_check \in Int /\ Interval \in Int
    BY IntervalAssumption DEF Inv, TypeOK
  <2>3. now[t] - g_last_flag_check < Interval BY DEF Inv, Order
  <2>4. s[1] + Interval > now[t] BY <2>1, <2>2, <2>3
  <2> QED BY <2>1, <2>4
<1> QED BY Invariance, <1>1, PTL

(* Without an exception the card stays as long as a line is being written. *)
THEOREM CardOutlives == Spec => []CardOutlivesLines
<1>1. Inv => CardOutlivesLines
  BY ThreadsAssumption DEF Inv, CardOutlivesLines, Places, TypeOK, Threads
<1> QED BY Invariance, <1>1, PTL
================================================================================
