----------------------------- MODULE SysProofs -----------------------------
(***************************************************************************)
(* Theorems of the two modules on sys/.  Supervisor, for all timeouts and  *)
(* delays: how long a hang may last, that the watchdog is fed until there  *)
(* is a reason not to, and that the reboot command is obeyed in time.      *)
(* SysTimer, for every length of a second and of a word and any number of  *)
(* interrupts: what a reading of the run time that is interrupted between  *)
(* its halves is worth, and that the local time comes back to the RTC's.   *)
(***************************************************************************)
EXTENDS Supervisor, SysTimer, TLAPS

(***************************************************************************)
(* Supervisor: the invariant.                                              *)
(***************************************************************************)

\* What is set when, apart from the ages.
Order ==
  /\ sysPc \in {"reset", "dead"} => g_disable_feed_wdt
  /\ sysPc = "dead" => wdt_test
  /\ netPc = "init" => ~monitored /\ ~netRan
  /\ netPc # "init" => monitored
  /\ hung => netPc \in {"init", "handle", "log"}
  /\ ~hung => hungAge = 0

\* A network task that works ends a loop every second: the time in its monitor
\* item is never older than two seconds.
NotLate ==
  ~hung =>
    /\ netPc = "enter" => netAge <= IF netRan THEN 0 ELSE 1
    /\ netPc \in {"handle", "log"} => monAge <= IF netRan THEN 0 ELSE 1
    /\ netPc \in {"sleep", "sample", "enter"} => monAge <= IF netRan THEN 1 ELSE 2

\* Whose clock bounds the time of a hang: the watchdog's if Sys_State_Task is
\* locked out or has given up feeding, the monitor's otherwise.
HangBounded ==
  hung =>
    /\ Locked => hungAge <= wdtAge
    /\ ~Locked /\ g_disable_feed_wdt => hungAge <= MonTimeout + wdtAge
    /\ ~Locked /\ ~g_disable_feed_wdt =>
         hungAge <= monAge /\ (sysRan => monAge < MonTimeout)

\* A reboot that was asked for by command, with no longer delay before it.
Rebooting == ~hung /\ ~wdt_test /\ g_reboot_delay <= CliDelay

\* The delay goes with the age of the command, and once it is over a second in
\* which the watchdog is still fed is the last one.
RebootNear ==
  /\ g_reboot_delay_en = 0 => g_reboot_delay = 0 /\ cliAge = -1
  /\ g_reboot_delay_en = 1 => cliAge <= delayAge \/ delayAge = TcpDelay
  /\ Rebooting /\ cliAge >= CliDelay => (sysRan => g_disable_feed_wdt)
  /\ Rebooting /\ cliAge > CliDelay =>
       cliAge = CliDelay + 1 /\ g_disable_feed_wdt /\ ~sysRan

IInv == TypeOK /\ Order /\ NotLate /\ HangBounded /\ RebootNear

(***************************************************************************)
(* Supervisor: the induction.                                              *)
(***************************************************************************)

\* The ages and delays are numbers within their bounds.
Ages ==
  /\ monAge \in 0..MonTimeout /\ netAge \in 0..MonTimeout
  /\ wdtAge \in 0..WdtTimeout /\ hungAge \in 0..(MonTimeout + WdtTimeout + 1)
  /\ g_reboot_delay \in {0, CliDelay, TcpDelay} /\ delayAge \in 0..TcpDelay
  /\ cliAge \in -1..(CliDelay + 2)

\* What the variables are, as facts of their own.
LEMMA Typed ==
  /\ IInv => Ages
  /\ MonTimeout \in Nat /\ MonTimeout > 2 /\ WdtTimeout \in Nat /\ WdtTimeout > 1
  /\ CliDelay \in Nat /\ CliDelay > 0 /\ TcpDelay \in Nat /\ CliDelay <= TcpDelay
BY SupervisorAssumption DEF IInv, TypeOK, Ages

\* A reset leaves the state of a start.
LEMMA StartIInv ==
  ASSUME wdt_test' \in BOOLEAN, ResetState
  PROVE  IInv'
<1>1. TypeOK'
  <2>1. Ages'
    BY Typed DEF ResetState, Ages
  <2>2. QED
    BY <2>1 DEF ResetState, TypeOK, Ages, NetPlaces
<1>2. Order' /\ NotLate' /\ HangBounded'
  BY DEF ResetState, Order, NotLate, HangBounded
<1>3. RebootNear'
  BY Typed DEF ResetState, RebootNear
<1>4. QED
  BY <1>1, <1>2, <1>3 DEF IInv

\* The first state satisfies the invariant.
LEMMA InitIInv == Init => IInv
<1> SUFFICES ASSUME Init PROVE IInv
  OBVIOUS
<1>1. TypeOK
  <2>1. Ages
    BY Typed DEF Init, Start, Ages
  <2>2. QED
    BY <2>1 DEF Init, Start, TypeOK, Ages, NetPlaces
<1>2. Order /\ NotLate /\ HangBounded
  BY DEF Init, Start, Order, NotLate, HangBounded
<1>3. RebootNear
  BY Typed DEF Init, Start, RebootNear
<1>4. QED
  BY <1>1, <1>2, <1>3 DEF IInv

\* A request for a delayed reset: the first one counts, and a command is never
\* older than the delay it relies on.
LEMMA RequestIInv ==
  ASSUME IInv, RebootCommand \/ TcpClientGivesUp \/ UNCHANGED delayVars,
         sysRan' = sysRan, UNCHANGED <<hung, wdt_test, g_disable_feed_wdt>>
  PROVE  /\ RebootNear'
         /\ g_reboot_delay_en' \in {0, 1} /\ g_reboot_delay' \in {0, CliDelay, TcpDelay}
         /\ delayAge' \in 0..TcpDelay /\ cliAge' \in -1..(CliDelay + 2)
<1> USE Typed DEF Ages
<1> g_reboot_delay_en \in {0, 1}
  BY DEF IInv, TypeOK
<1>1. CASE RebootCommand
  <2>1. cliAge' = IF cliAge = -1 THEN 0 ELSE cliAge
    BY <1>1 DEF RebootCommand
  <2>2. CASE g_reboot_delay_en = 0
    <3>1. g_reboot_delay_en' = 1 /\ g_reboot_delay' = CliDelay /\ delayAge' \in {0, 1} /\ cliAge' = 0
      BY <1>1, <2>1, <2>2 DEF RebootCommand, Sys_Delay_Reset, IInv, RebootNear
    <3>2. QED
      BY <3>1 DEF RebootNear, Rebooting
  <2>3. CASE g_reboot_delay_en = 1
    <3>1. UNCHANGED <<g_reboot_delay_en, g_reboot_delay, delayAge>>
      BY <1>1, <2>3 DEF RebootCommand, Sys_Delay_Reset
    <3>2. CASE cliAge = -1
      BY <2>1, <2>3, <3>1, <3>2 DEF IInv, RebootNear, Rebooting
    <3>3. CASE cliAge # -1
      BY <2>1, <2>3, <3>1, <3>3 DEF IInv, RebootNear, Rebooting
    <3>4. QED
      BY <3>2, <3>3
  <2>4. QED
    BY <2>2, <2>3
<1>2. CASE TcpClientGivesUp
  BY <1>2 DEF IInv, RebootNear, TcpClientGivesUp, Sys_Delay_Reset, Rebooting
<1>3. CASE UNCHANGED delayVars
  BY <1>3 DEF IInv, RebootNear, delayVars, Rebooting
<1>4. QED
  BY <1>1, <1>2, <1>3

\* Sys_State_Task, apart from its reset.
LEMMA SysIInv ==
  ASSUME IInv, PeriodHook \/ FeedAndCheck \/ StopFeeding \/ SysWakes
  PROVE  IInv'
<1> USE Typed DEF Ages
<1>1. CASE PeriodHook
  <2>1. /\ sysPc = "hook" /\ sysPc' = "check"
        /\ UNCHANGED <<g_disable_feed_wdt, wdtAge, sysRan, netVars, hung, hungAge, wdt_test>>
        /\ RebootCommand \/ TcpClientGivesUp \/ UNCHANGED delayVars
    BY <1>1 DEF PeriodHook
  <2>2. /\ RebootNear'
        /\ g_reboot_delay_en' \in {0, 1} /\ g_reboot_delay' \in {0, CliDelay, TcpDelay}
        /\ delayAge' \in 0..TcpDelay /\ cliAge' \in -1..(CliDelay + 2)
    BY <2>1, RequestIInv
  <2>3. TypeOK'
    BY <2>1, <2>2 DEF IInv, TypeOK, netVars
  <2>4. Order' /\ NotLate' /\ HangBounded'
    BY <2>1 DEF IInv, Order, NotLate, HangBounded, Locked, netVars
  <2>5. QED
    BY <2>2, <2>3, <2>4 DEF IInv
<1>2. CASE FeedAndCheck
  <2>1. /\ sysPc' = "sleep" /\ sysRan' = TRUE /\ wdtAge' = 0 /\ ~Locked
        /\ ~g_disable_feed_wdt /\ g_disable_feed_wdt' \in BOOLEAN
        /\ DelayOver \/ TaskLate => g_disable_feed_wdt'
        /\ UNCHANGED <<netVars, delayVars, hung, hungAge, wdt_test>>
    BY <1>2 DEF FeedAndCheck, SysMayRun, DelayOver, TaskLate, DelayTorn
  <2>2. TypeOK'
    BY <2>1 DEF IInv, TypeOK, netVars, delayVars
  <2>3. Order' /\ NotLate'
    BY <2>1 DEF IInv, Order, NotLate, netVars
  <2>4. HangBounded'
    <3>1. SUFFICES ASSUME hung PROVE HangBounded'
      BY <2>1 DEF HangBounded
    <3>2. hungAge <= monAge /\ monitored
      BY <2>1, <3>1 DEF IInv, HangBounded, Order, Locked
    <3>3. ~g_disable_feed_wdt' => monAge < MonTimeout
      BY <2>1, <3>2 DEF TaskLate
    <3>4. QED
      BY <2>1, <3>2, <3>3 DEF HangBounded, Locked, netVars, IInv
  <2>5. RebootNear'
    <3>1. Rebooting /\ cliAge >= CliDelay => DelayOver
      BY DEF IInv, RebootNear, Rebooting, DelayOver, TypeOK
    <3>2. ~(Rebooting /\ cliAge > CliDelay)
      BY <2>1 DEF IInv, RebootNear
    <3>3. QED
      BY <2>1, <3>1, <3>2 DEF IInv, RebootNear, Rebooting, delayVars
  <2>6. QED
    BY <2>2, <2>3, <2>4, <2>5 DEF IInv
<1>3. CASE StopFeeding \/ SysWakes
  <2>1. /\ UNCHANGED <<g_disable_feed_wdt, wdtAge, sysRan, netVars, delayVars, hung, hungAge, wdt_test>>
        /\ sysPc' \in {"dead", "reset", "hook"}
        /\ sysPc' \in {"dead", "reset"} => g_disable_feed_wdt
        /\ sysPc' = "dead" => wdt_test
    BY <1>3 DEF StopFeeding, SysWakes
  <2>2. TypeOK'
    BY <2>1 DEF IInv, TypeOK, netVars, delayVars
  <2>3. Order' /\ NotLate' /\ HangBounded' /\ RebootNear'
    BY <2>1 DEF IInv, Order, NotLate, HangBounded, Locked, RebootNear, Rebooting, netVars, delayVars
  <2>4. QED
    BY <2>2, <2>3 DEF IInv
<1>4. QED
  BY <1>1, <1>2, <1>3

\* Net_Periodic_Task and a hang of it.
LEMMA NetIInv ==
  ASSUME IInv, NetStep \/ Hang
  PROVE  IInv'
<1> USE Typed DEF Ages
<1>1. CASE NetworkHandle
  <2>1. /\ netPc = "handle" /\ netPc' = "log" /\ ~hung
        /\ UNCHANGED <<sysVars, hung, hungAge, wdt_test, monitored, monAge, netAge, netRan>>
        /\ RebootCommand \/ UNCHANGED delayVars
    BY <1>1 DEF NetworkHandle, NetGoes, NetMayRun
  <2>2. /\ RebootNear'
        /\ g_reboot_delay_en' \in {0, 1} /\ g_reboot_delay' \in {0, CliDelay, TcpDelay}
        /\ delayAge' \in 0..TcpDelay /\ cliAge' \in -1..(CliDelay + 2)
    BY <2>1, RequestIInv DEF sysVars
  <2>3. TypeOK'
    BY <2>1, <2>2 DEF IInv, TypeOK, sysVars, NetPlaces
  <2>4. Order' /\ NotLate' /\ HangBounded'
    BY <2>1 DEF IInv, Order, NotLate, HangBounded, sysVars
  <2>5. QED
    BY <2>2, <2>3, <2>4 DEF IInv
<1>2. CASE NetInit \/ NetSample \/ MonitorEnter \/ NetExit \/ NetWakes
  <2>1. ~hung /\ UNCHANGED <<sysVars, hung, hungAge, wdt_test, delayVars>>
    BY <1>2 DEF NetInit, NetSample, MonitorEnter, NetExit, NetWakes, NetGoes, NetMayRun
  <2>2. TypeOK'
    <3>1. /\ netPc' \in NetPlaces /\ monitored' \in BOOLEAN /\ netRan' \in BOOLEAN
          /\ monAge' \in 0..MonTimeout /\ netAge' \in 0..MonTimeout
      <4>1. /\ netPc \in NetPlaces /\ monitored \in BOOLEAN /\ netRan \in BOOLEAN
            /\ monAge \in 0..MonTimeout /\ netAge \in 0..MonTimeout /\ 0 \in 0..MonTimeout
        BY DEF IInv, TypeOK
      <4>2. netPc' \in NetPlaces
        BY <1>2 DEF NetInit, NetSample, MonitorEnter, NetExit, NetWakes, NetGoes, NetPlaces
      <4>3. monitored' \in BOOLEAN /\ netRan' \in BOOLEAN
        BY <1>2, <4>1 DEF NetInit, NetSample, MonitorEnter, NetExit, NetWakes
      <4>4. monAge' \in 0..MonTimeout /\ netAge' \in 0..MonTimeout
        BY <1>2, <4>1 DEF NetInit, NetSample, MonitorEnter, NetExit, NetWakes
      <4>5. QED
        BY <4>2, <4>3, <4>4
    <3>2. QED
      BY <2>1, <3>1 DEF IInv, TypeOK, sysVars, delayVars
  <2>3. Order'
    BY <1>2, <2>1 DEF NetInit, NetSample, MonitorEnter, NetExit, NetWakes, NetGoes, IInv, Order, sysVars
  <2>4. NotLate'
    <3>1. CASE NetInit
      BY <2>1, <3>1 DEF NetInit, NetGoes, NotLate
    <3>2. CASE NetSample
      BY <2>1, <3>2 DEF NetSample, NetGoes, NotLate, IInv
    <3>3. CASE MonitorEnter
      BY <2>1, <3>3 DEF MonitorEnter, NetGoes, NotLate, IInv
    <3>4. CASE NetExit
      BY <2>1, <3>4 DEF NetExit, NetGoes, NotLate, IInv, TypeOK
    <3>5. CASE NetWakes
      BY <2>1, <3>5 DEF NetWakes, NetGoes, NotLate, IInv
    <3>6. QED
      BY <1>2, <3>1, <3>2, <3>3, <3>4, <3>5
  <2>5. HangBounded' /\ RebootNear'
    BY <2>1 DEF IInv, HangBounded, RebootNear, Rebooting, sysVars, delayVars
  <2>6. QED
    BY <2>2, <2>3, <2>4, <2>5 DEF IInv
<1>3. CASE Hang
  <2>1. /\ ~hung /\ hung' = TRUE /\ netPc \in {"init", "handle", "log"}
        /\ UNCHANGED <<sysVars, netVars, delayVars, hungAge, wdt_test>>
    BY <1>3 DEF Hang, NetMayRun
  <2>2. TypeOK'
    BY <2>1 DEF IInv, TypeOK, sysVars, netVars, delayVars
  <2>3. Order' /\ NotLate' /\ RebootNear'
    BY <2>1 DEF IInv, Order, NotLate, RebootNear, Rebooting, sysVars, netVars, delayVars
  <2>4. HangBounded'
    <3>1. hungAge = 0
      BY <2>1 DEF IInv, Order
    <3>2. netPc = "log" => monAge < MonTimeout
      BY <2>1 DEF IInv, NotLate
    <3>3. QED
      BY <2>1, <3>1, <3>2 DEF HangBounded, Locked, sysVars, netVars
  <2>5. QED
    BY <2>2, <2>3, <2>4 DEF IInv
<1>4. QED
  BY <1>1, <1>2, <1>3 DEF NetStep

\* A second passes.
LEMMA TickIInv ==
  ASSUME IInv, Tick
  PROVE  IInv'
<1> USE Typed DEF Ages, Upto
<1>1. /\ wdtAge < WdtTimeout /\ wdtAge' = wdtAge + 1
      /\ sysRan \/ (hung /\ Locked) \/ sysPc = "dead"
      /\ netRan \/ hung
      /\ sysRan' = FALSE /\ netRan' = FALSE
      /\ UNCHANGED <<sysPc, netPc, hung, monitored, g_disable_feed_wdt,
                     g_reboot_delay_en, g_reboot_delay, wdt_test>>
  BY DEF Tick
<1>2. /\ monAge' = IF monAge < MonTimeout THEN monAge + 1 ELSE monAge
      /\ netAge' = IF netAge < MonTimeout THEN netAge + 1 ELSE netAge
      /\ delayAge' = IF g_reboot_delay_en = 1
                       THEN IF delayAge < TcpDelay THEN delayAge + 1 ELSE delayAge ELSE 0
  BY DEF Tick
<1>3. /\ hungAge' = IF hung THEN IF hungAge < MonTimeout + WdtTimeout + 1
                                   THEN hungAge + 1 ELSE hungAge ELSE 0
      /\ cliAge' = IF cliAge >= 0 THEN IF cliAge < CliDelay + 2 THEN cliAge + 1 ELSE cliAge
                   ELSE cliAge
  BY DEF Tick
<1>4. TypeOK'
  <2>1. Ages'
    BY <1>1, <1>2, <1>3
  <2>2. QED
    BY <1>1, <2>1 DEF IInv, TypeOK
<1>5. Order'
  BY <1>1, <1>3 DEF IInv, Order
<1>6. NotLate'
  BY <1>1, <1>2 DEF IInv, NotLate
<1>7. HangBounded'
  <2>1. SUFFICES ASSUME hung PROVE HangBounded'
    BY <1>1 DEF HangBounded
  <2>2. CASE Locked
    BY <1>1, <1>3, <2>1, <2>2 DEF IInv, HangBounded, Locked
  <2>3. CASE ~Locked /\ g_disable_feed_wdt
    BY <1>1, <1>3, <2>1, <2>3 DEF IInv, HangBounded, Locked
  <2>4. CASE ~Locked /\ ~g_disable_feed_wdt
    <3>1. hungAge <= monAge /\ monAge < MonTimeout
      BY <1>1, <2>1, <2>4 DEF IInv, HangBounded, Order
    <3>2. QED
      BY <1>1, <1>2, <1>3, <2>1, <2>4, <3>1 DEF HangBounded, Locked
  <2>5. QED
    BY <2>2, <2>3, <2>4
<1>8. RebootNear'
  <2>1. /\ g_reboot_delay_en' = 0 => g_reboot_delay' = 0 /\ cliAge' = -1
        /\ g_reboot_delay_en' = 1 => cliAge' <= delayAge' \/ delayAge' = TcpDelay
    BY <1>1, <1>2, <1>3 DEF IInv, RebootNear
  <2>2. Rebooting' <=> Rebooting
    BY <1>1 DEF Rebooting
  <2>3. ASSUME Rebooting PROVE sysRan /\ ~(cliAge > CliDelay) /\ (cliAge >= CliDelay => g_disable_feed_wdt)
    BY <1>1, <2>3 DEF IInv, RebootNear, Rebooting, Order
  <2>4. Rebooting' /\ cliAge' > CliDelay => cliAge' = CliDelay + 1 /\ g_disable_feed_wdt'
    BY <1>1, <1>3, <2>2, <2>3
  <2>5. QED
    BY <1>1, <2>1, <2>4 DEF RebootNear
<1>9. QED
  BY <1>4, <1>5, <1>6, <1>7, <1>8 DEF IInv

\* The invariant holds in every reachable state.
LEMMA Invariance == Spec => []IInv
<1>1. IInv /\ [Next]_vars => IInv'
  <2>1. SUFFICES ASSUME IInv, [Next]_vars PROVE IInv'
    OBVIOUS
  <2>2. CASE SysStep \/ WatchdogReset
    <3>1. ASSUME ResetState PROVE IInv'
      BY <2>1, <3>1, StartIInv DEF ResetState, IInv, TypeOK
    <3>2. QED
      BY <2>1, <2>2, <3>1, SysIInv DEF SysStep, SystemReset, WatchdogReset
  <2>3. CASE NetStep \/ Hang
    BY <2>1, <2>3, NetIInv
  <2>4. CASE Tick
    BY <2>1, <2>4, TickIInv
  <2>5. CASE UNCHANGED vars
    BY <2>1, <2>5 DEF vars, sysVars, netVars, delayVars, IInv, TypeOK, Order, NotLate, HangBounded,
                      Locked, RebootNear, Rebooting
  <2>6. QED
    BY <2>1, <2>2, <2>3, <2>4, <2>5 DEF Next
<1>2. QED
  BY <1>1, InitIInv, PTL DEF Spec

(***************************************************************************)
(* Supervisor: the theorems.                                               *)
(***************************************************************************)

\* The variables of Supervisor keep their types: ages within what they are
\* compared with.
THEOREM TypeCorrect == Spec => []TypeOK
<1>1. IInv => TypeOK
  BY DEF IInv
<1>2. QED
  BY <1>1, Invariance, PTL

\* A hang of the network task, with the scheduler locked or not, ends in a reset
\* within the time of the monitor and of the watchdog.
THEOREM HangEndsInTime == Spec => []HangIsShort
<1>1. IInv => HangIsShort
  BY Typed DEF IInv, Ages, HangBounded, Order, HangIsShort
<1>2. QED
  BY <1>1, Invariance, PTL

\* Sys_State_Task feeds the watchdog until the network task hangs or a reset was
\* asked for: a network task that works is never taken for one that hangs.
THEOREM FedWithoutReason == Spec => ResetHasReason
<1>1. IInv /\ [Next]_vars =>
        [g_disable_feed_wdt' /\ ~g_disable_feed_wdt => hung \/ DelayOver \/ DelayTorn]_vars
  <2>1. SUFFICES ASSUME IInv, Next, g_disable_feed_wdt', ~g_disable_feed_wdt
                 PROVE  hung \/ DelayOver \/ DelayTorn
    OBVIOUS
  <2>2. FeedAndCheck
    BY <2>1 DEF Next, SysStep, PeriodHook, StopFeeding, SysWakes, SystemReset, ResetState, NetStep,
                NetInit, NetSample, MonitorEnter, NetworkHandle, NetExit, NetWakes, NetGoes, Hang,
                Tick, WatchdogReset, sysVars
  <2>3. DelayOver \/ DelayTorn \/ TaskLate
    <3>1. PICK torn \in {FALSE, DelayTorn} :
            g_disable_feed_wdt' = (DelayOver \/ torn \/ TaskLate)
      BY <2>2 DEF FeedAndCheck
    <3>2. DelayOver \/ torn \/ TaskLate
      BY <2>1, <3>1
    <3>3. torn = FALSE \/ torn = DelayTorn
      OBVIOUS
    <3>4. QED
      BY <3>2, <3>3
  <2>4. TaskLate => hung
    BY <2>1, Typed DEF TaskLate, IInv, TypeOK, NetPlaces, NotLate, Order, Ages
  <2>5. QED
    BY <2>3, <2>4
<1>2. QED
  BY <1>1, Invariance, PTL DEF Spec, ResetHasReason

\* The reboot command has its reset within a second of its delay, unless the
\* program hangs, leaves the reset to the watchdog or had a longer delay before.
THEOREM RebootInTime == Spec => []RebootCommandHonoured
<1>1. IInv => RebootCommandHonoured
  BY Typed DEF IInv, Ages, RebootNear, Rebooting, RebootCommandHonoured
<1>2. QED
  BY <1>1, Invariance, PTL

(***************************************************************************)
(* SysTimer: the invariant.                                                *)
(***************************************************************************)

\* The two halves of the run time are the ticks counted; the milliseconds stay
\* below a second.
RunTimeIsTicks ==
  /\ s_dwRunTime \in Nat /\ s_dwRunTimeMs \in 0..(MsPerS - 1)
  /\ ticks = s_dwRunTime * MsPerS + s_dwRunTimeMs

\* A reading under way: the call is not in the future, and the seconds in the
\* register are those of a moment since the call.
Reading ==
  /\ callAt \in Nat
  /\ pc \in {"stamp_s", "diff_s"} => callAt <= ticks
  /\ pc \in {"stamp_ms", "diff_ms"} =>
       /\ reg \in Nat /\ reg <= s_dwRunTime
       /\ callAt < reg * MsPerS + MsPerS

\* The last time stamp is the tick it was taken at, if it was not torn.
Stamped ==
  /\ stamp \in [timer_s : Nat, timer_ms : 0..(MsPerS - 1)] /\ stampAt \in Nat
  /\ stampTorn \in BOOLEAN /\ diffTorn \in BOOLEAN
  /\ ~stampTorn => stamp.timer_s * MsPerS + stamp.timer_ms = stampAt

\* The RTC as SysTimer_SetLocalTime read it back is the RTC, until its next second.
ReadBack == pc = "store" /\ ~RTC_STAT_WTF /\ ~raced => reg = rtc

ClockIInv == RunTimeIsTicks /\ Reading /\ Stamped /\ DiffExactUnlessTorn /\ ReadBack /\ LocalFollowsRtc

(***************************************************************************)
(* SysTimer: lemmas.                                                       *)
(***************************************************************************)

\* Milliseconds of whole seconds.
LEMMA Seconds ==
  ASSUME NEW a \in Nat, NEW b \in Nat, NEW m \in Nat
  PROVE  /\ a * m \in Nat
         /\ (a + 1) * m = a * m + m
         /\ a <= b => a * m <= b * m
         /\ (a - b) * m = a * m - b * m
<1>1. a * m \in Nat /\ (a + 1) * m = a * m + m /\ (a - b) * m = a * m - b * m
  OBVIOUS
<1>2. ASSUME a <= b PROVE a * m <= b * m
  <2>1. (b - a) \in Nat /\ (b - a) * m = b * m - a * m
    BY <1>2
  <2>2. (b - a) * m \in Nat /\ a * m \in Nat /\ b * m \in Nat
    BY <2>1
  <2>3. QED
    BY <2>1, <2>2
<1>3. QED
  BY <1>1, <1>2

\* The constants are numbers.
LEMMA ClockConstants == MsPerS \in Nat /\ MsPerS > 1 /\ Word \in Nat /\ Word > 0
BY SysTimerAssumption

(***************************************************************************)
(* SysTimer: the induction.                                                *)
(***************************************************************************)

\* The first state satisfies the invariant.
LEMMA ClockInitIInv == ClockInit => ClockIInv
<1> SUFFICES ASSUME ClockInit PROVE ClockIInv
  OBVIOUS
<1>1. 0 * MsPerS + 0 = 0 /\ 0 % Word = 0 /\ 0 \in 0..(MsPerS - 1)
  BY ClockConstants
<1>2. RunTimeIsTicks /\ Stamped
  BY <1>1 DEF ClockInit, RunTimeIsTicks, Stamped
<1>3. Reading /\ DiffExactUnlessTorn /\ ReadBack /\ LocalFollowsRtc
  BY <1>1 DEF ClockInit, Reading, DiffExactUnlessTorn, ReadBack, LocalFollowsRtc
<1>4. QED
  BY <1>2, <1>3 DEF ClockIInv

\* SysTick and the RTC interrupt: a reading under way gets older, not wrong.
LEMMA InterruptIInv ==
  ASSUME ClockIInv, Interrupt
  PROVE  ClockIInv'
<1>1. CASE UpdateTimeMs_Store
  <2>1. /\ ticks' = ticks + 1 /\ UpdateRunTime
        /\ UNCHANGED <<s_dwLocalTime, rtc, RTC_STAT_WTF, raced, stampVars, diffVars, pc, reg, callAt>>
    BY <1>1 DEF UpdateTimeMs_Store
  <2>2. ticks \in Nat /\ s_dwRunTime * MsPerS \in Nat /\ (s_dwRunTime + 1) * MsPerS = s_dwRunTime * MsPerS + MsPerS
    BY ClockConstants, Seconds DEF ClockIInv, RunTimeIsTicks
  <2>3. RunTimeIsTicks' /\ s_dwRunTime' >= s_dwRunTime
    <3>1. CASE s_dwRunTimeMs < MsPerS - 1
      BY <2>1, <2>2, <3>1, ClockConstants DEF UpdateRunTime, ClockIInv, RunTimeIsTicks
    <3>2. CASE ~(s_dwRunTimeMs < MsPerS - 1)
      <4>1. s_dwRunTimeMs' = 0 /\ s_dwRunTime' = s_dwRunTime + 1 /\ s_dwRunTimeMs = MsPerS - 1
        BY <2>1, <3>2, ClockConstants DEF UpdateRunTime, ClockIInv, RunTimeIsTicks
      <4>2. QED
        BY <2>1, <2>2, <4>1, ClockConstants DEF ClockIInv, RunTimeIsTicks
    <3>3. QED
      BY <3>1, <3>2
  <2>4. Reading'
    BY <2>1, <2>2, <2>3 DEF ClockIInv, Reading, RunTimeIsTicks
  <2>5. Stamped' /\ DiffExactUnlessTorn' /\ ReadBack' /\ LocalFollowsRtc'
    BY <2>1 DEF ClockIInv, Stamped, DiffExactUnlessTorn, ReadBack, LocalFollowsRtc, stampVars, diffVars
  <2>6. QED
    BY <2>3, <2>4, <2>5 DEF ClockIInv
<1>2. CASE UpdateTimeMs_Load
  BY <1>2 DEF UpdateTimeMs_Load, ClockIInv, RunTimeIsTicks, Reading, Stamped, DiffExactUnlessTorn, ReadBack,
              LocalFollowsRtc, runVars, localVars, stampVars, diffVars
<1>3. CASE RtcSecond \/ RTC_WKUP_IRQHandler
  <2>1. UNCHANGED <<runVars, stampVars, diffVars, pc, reg, callAt>>
    BY <1>3 DEF RtcSecond, RTC_WKUP_IRQHandler
  <2>2. RunTimeIsTicks' /\ Reading' /\ Stamped' /\ DiffExactUnlessTorn'
    BY <2>1 DEF ClockIInv, RunTimeIsTicks, Reading, Stamped, DiffExactUnlessTorn, runVars, stampVars, diffVars
  <2>3. ReadBack' /\ LocalFollowsRtc'
    <3>1. CASE RtcSecond
      <4>1. RTC_STAT_WTF' = TRUE
        BY <3>1 DEF RtcSecond
      <4>2. QED
        BY <4>1 DEF ReadBack, LocalFollowsRtc
    <3>2. CASE RTC_WKUP_IRQHandler
      <4>1. s_dwLocalTime' = rtc /\ rtc' = rtc
        BY <3>2 DEF RTC_WKUP_IRQHandler
      <4>2. LocalFollowsRtc'
        BY <4>1 DEF LocalFollowsRtc
      <4>3. ASSUME pc' = "store" PROVE raced'
        BY <2>1, <3>2, <4>3 DEF RTC_WKUP_IRQHandler, Setting
      <4>4. QED
        BY <4>2, <4>3 DEF ReadBack
    <3>3. QED
      BY <1>3, <3>1, <3>2
  <2>4. QED
    BY <2>2, <2>3 DEF ClockIInv
<1>4. QED
  BY <1>1, <1>2, <1>3 DEF Interrupt

\* SysTimer_GetRunTime and SysTimer_DiffRunTime.
LEMMA ReadIInv ==
  ASSUME ClockIInv, Read
  PROVE  ClockIInv'
<1>1. UNCHANGED <<runVars, localVars>> /\ pc' # "store" /\ pc \notin Setting
  BY DEF Read, Call, GetRunTime_S, GetRunTime_Ms, DiffRunTime, Goes, Setting
<1>2. RunTimeIsTicks' /\ ReadBack' /\ LocalFollowsRtc'
  BY <1>1 DEF ClockIInv, RunTimeIsTicks, ReadBack, LocalFollowsRtc, runVars, localVars
<1>3. ticks \in Nat /\ s_dwRunTime * MsPerS \in Nat
  BY ClockConstants, Seconds DEF ClockIInv, RunTimeIsTicks
<1>4. Reading'
  <2>1. CASE Call
    BY <1>1, <1>3, <2>1 DEF Call, Goes, Reading, runVars
  <2>2. CASE GetRunTime_S
    <3>1. pc \in {"stamp_s", "diff_s"} /\ pc' \in {"stamp_ms", "diff_ms"}
          /\ reg' = s_dwRunTime /\ callAt' = callAt /\ s_dwRunTime' = s_dwRunTime
      BY <1>1, <2>2 DEF GetRunTime_S, Goes, runVars
    <3>2. callAt < s_dwRunTime * MsPerS + MsPerS
      BY <1>3, <3>1, ClockConstants DEF ClockIInv, Reading, RunTimeIsTicks
    <3>3. QED
      BY <3>1, <3>2 DEF ClockIInv, Reading, RunTimeIsTicks
  <2>3. CASE GetRunTime_Ms \/ DiffRunTime
    BY <2>3 DEF GetRunTime_Ms, DiffRunTime, Goes, Returns, Reading
  <2>4. QED
    BY <2>1, <2>2, <2>3 DEF Read
<1>5. Stamped' /\ DiffExactUnlessTorn'
  <2>1. CASE Call \/ GetRunTime_S
    BY <2>1 DEF Call, GetRunTime_S, ClockIInv, Stamped, DiffExactUnlessTorn, stampVars, diffVars
  <2>2. CASE GetRunTime_Ms
    <3>1. /\ stamp' = Sample /\ stampAt' = ticks /\ stampTorn' = Torn /\ pc = "stamp_ms"
          /\ UNCHANGED diffVars
      BY <2>2 DEF GetRunTime_Ms, Goes
    <3>2. reg \in Nat /\ s_dwRunTimeMs \in 0..(MsPerS - 1)
      BY <3>1 DEF ClockIInv, Reading, RunTimeIsTicks
    <3>3. Stamped'
      BY <1>3, <3>1, <3>2 DEF Stamped, Sample, Torn, ClockIInv, RunTimeIsTicks, diffVars
    <3>4. QED
      BY <3>1, <3>3 DEF ClockIInv, DiffExactUnlessTorn, diffVars
  <2>3. CASE DiffRunTime
    <3>1. /\ diff' = Diff(Sample, stamp) /\ diffAge' = ticks - stampAt
          /\ diffTorn' = (Torn \/ stampTorn) /\ pc = "diff_ms" /\ UNCHANGED stampVars
      BY <2>3 DEF DiffRunTime, Goes
    <3>2. reg \in Nat /\ s_dwRunTimeMs \in 0..(MsPerS - 1)
      BY <3>1 DEF ClockIInv, Reading, RunTimeIsTicks
    <3>3. ASSUME ~Torn, ~stampTorn PROVE diff' = (ticks - stampAt) % Word
      <4>1. reg = s_dwRunTime /\ stamp.timer_s \in Nat /\ stamp.timer_ms \in 0..(MsPerS - 1)
        BY <3>3 DEF Torn, ClockIInv, Stamped
      <4>2. (reg - stamp.timer_s) * MsPerS = reg * MsPerS - stamp.timer_s * MsPerS
        BY <3>2, <4>1, ClockConstants, Seconds
      <4>3. (reg - stamp.timer_s) * MsPerS + s_dwRunTimeMs - stamp.timer_ms = ticks - stampAt
        <5>1. reg * MsPerS + s_dwRunTimeMs = ticks /\ stamp.timer_s * MsPerS + stamp.timer_ms = stampAt
          BY <3>3, <4>1 DEF ClockIInv, RunTimeIsTicks, Stamped
        <5>2. reg * MsPerS \in Nat /\ stamp.timer_s * MsPerS \in Nat
          BY <3>2, <4>1, ClockConstants, Seconds
        <5>3. QED
          BY <3>2, <4>1, <4>2, <5>1, <5>2, ClockConstants
      <4>4. QED
        BY <3>1, <4>3 DEF Diff, Sample
    <3>4. DiffExactUnlessTorn'
      BY <3>1, <3>3 DEF DiffExactUnlessTorn
    <3>5. Stamped'
      BY <3>1 DEF ClockIInv, Stamped, stampVars, Torn
    <3>6. QED
      BY <3>4, <3>5
  <2>4. QED
    BY <2>1, <2>2, <2>3 DEF Read
<1>6. QED
  BY <1>2, <1>4, <1>5 DEF ClockIInv

\* SysTimer_SetLocalTime.
LEMMA SetIInv ==
  ASSUME ClockIInv, Set
  PROVE  ClockIInv'
<1>1. /\ UNCHANGED <<runVars, stampVars, diffVars>> /\ callAt' \in {0, callAt}
      /\ pc' \in Setting \cup {"idle"}
  BY DEF Set, SetLocalTime, SetLocalTime_Load, SetLocalTime_Rtc, SetLocalTime_Get, SetLocalTime_Store,
         Goes, Returns, Setting
<1>2. RunTimeIsTicks' /\ Reading' /\ Stamped' /\ DiffExactUnlessTorn'
  BY <1>1 DEF ClockIInv, RunTimeIsTicks, Reading, Stamped, DiffExactUnlessTorn, runVars, stampVars, diffVars,
              Setting
<1>3. ReadBack' /\ LocalFollowsRtc'
  BY DEF Set, SetLocalTime, SetLocalTime_Load, SetLocalTime_Rtc, SetLocalTime_Get, SetLocalTime_Store,
         Goes, Setting, ClockIInv, ReadBack, LocalFollowsRtc, localVars
<1>4. QED
  BY <1>2, <1>3 DEF ClockIInv

\* The invariant holds in every reachable state.
LEMMA ClockInvariance == ClockSpec => []ClockIInv
<1>1. ClockIInv /\ [ClockNext]_clockVars => ClockIInv'
  <2>1. SUFFICES ASSUME ClockIInv, [ClockNext]_clockVars PROVE ClockIInv'
    OBVIOUS
  <2>2. CASE ClockNext
    BY <2>1, <2>2, InterruptIInv, ReadIInv, SetIInv DEF ClockNext
  <2>3. CASE UNCHANGED clockVars
    BY <2>1, <2>3 DEF clockVars, runVars, localVars, tickVars, stampVars, diffVars, ClockIInv, RunTimeIsTicks, Reading,
                      Stamped, DiffExactUnlessTorn, ReadBack, LocalFollowsRtc
  <2>4. QED
    BY <2>1, <2>2, <2>3
<1>2. QED
  BY <1>1, ClockInitIInv, PTL DEF ClockSpec

(***************************************************************************)
(* SysTimer: the theorems.                                                 *)
(***************************************************************************)

\* An elapsed time is exact, modulo the word, unless the second changed between
\* the halves of one of the two readings it is made of.
THEOREM DifferenceExact == ClockSpec => []DiffExactUnlessTorn
<1>1. ClockIInv => DiffExactUnlessTorn
  BY DEF ClockIInv
<1>2. QED
  BY <1>1, ClockInvariance, PTL

\* Once the wake-up interrupt is served and no setting is under way the local
\* time is the RTC's, unless the interrupt came in the middle of a setting.
THEOREM LocalTimeFollows == ClockSpec => []LocalFollowsRtc
<1>1. ClockIInv => LocalFollowsRtc
  BY DEF ClockIInv
<1>2. QED
  BY <1>1, ClockInvariance, PTL

\* A reading of the run time, torn or not, is not in the future and at most a
\* second before its call.
THEOREM ReadingWithinSecond == ClockSpec => StampWithinItsSecond
<1>1. ClockIInv /\ [ClockNext]_clockVars =>
        [stamp' # stamp =>
           LET t == stamp'.timer_s * MsPerS + stamp'.timer_ms
           IN t > callAt - MsPerS /\ t <= ticks]_clockVars
  <2>1. SUFFICES ASSUME ClockIInv, ClockNext, stamp' # stamp
                 PROVE  /\ stamp'.timer_s * MsPerS + stamp'.timer_ms > callAt - MsPerS
                        /\ stamp'.timer_s * MsPerS + stamp'.timer_ms <= ticks
    OBVIOUS
  <2>2. GetRunTime_Ms
    BY <2>1 DEF ClockNext, Interrupt, UpdateTimeMs_Load, UpdateTimeMs_Store, RtcSecond, RTC_WKUP_IRQHandler,
                Read, Call, GetRunTime_S, DiffRunTime, Set, SetLocalTime, SetLocalTime_Load,
                SetLocalTime_Rtc, SetLocalTime_Get, SetLocalTime_Store, stampVars
  <2>3. stamp'.timer_s = reg /\ stamp'.timer_ms = s_dwRunTimeMs /\ pc = "stamp_ms"
    BY <2>2 DEF GetRunTime_Ms, Sample, Goes
  <2>4. /\ reg \in Nat /\ reg <= s_dwRunTime /\ callAt < reg * MsPerS + MsPerS
        /\ s_dwRunTime \in Nat /\ s_dwRunTimeMs \in 0..(MsPerS - 1)
        /\ ticks = s_dwRunTime * MsPerS + s_dwRunTimeMs /\ callAt \in Nat
    BY <2>1, <2>3 DEF ClockIInv, Reading, RunTimeIsTicks
  <2>5. reg * MsPerS \in Nat /\ s_dwRunTime * MsPerS \in Nat /\ reg * MsPerS <= s_dwRunTime * MsPerS
    BY <2>4, ClockConstants, Seconds
  <2>6. QED
    BY <2>3, <2>4, <2>5, ClockConstants
<1>2. QED
  BY <1>1, ClockInvariance, PTL DEF ClockSpec, StampWithinItsSecond

=============================================================================
