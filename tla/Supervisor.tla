----------------------------- MODULE Supervisor -----------------------------
(***************************************************************************)
(* Who resets the device when it stops working: Sys_State_Task of          *)
(* sys/sys_base.c, which feeds the external watchdog, counts down a        *)
(* delayed reset and asks sys/sys_monitor.c whether the network task is    *)
(* late; Net_Periodic_Task, which reports to the monitor; and the watchdog *)
(* itself.  Sys_State_Task (priority 9) pre-empts Net_Periodic_Task (11)   *)
(* except while that one holds the scheduler lock.                         *)
(*                                                                         *)
(* A Tick is one second of SysTimer's run time, the unit of the monitor    *)
(* and of the reset delays.  Times are kept as ages, up to the bound that  *)
(* the program compares them with.                                         *)
(***************************************************************************)
EXTENDS Integers

CONSTANTS MonTimeout,   \* seconds a monitored task may be late (5)
          WdtTimeout,   \* seconds the external watchdog waits for a feed
          CliDelay,     \* delay of the reboot command (3)
          TcpDelay      \* delay when the TCP client gives up (300)

\* The time stored in the monitor item of a task that works is up to two seconds
\* old when it is looked at.
ASSUME SupervisorAssumption ==
  /\ MonTimeout \in Nat /\ MonTimeout > 2
  /\ WdtTimeout \in Nat \ {0, 1}
  /\ CliDelay \in Nat \ {0} /\ TcpDelay \in Nat \ {0}
  /\ CliDelay <= TcpDelay

VARIABLES
  sysPc,     \* Sys_State_Task: "hook", "check", "sleep", "reset", "dead"
  netPc,     \* Net_Periodic_Task: see NetPlaces
  hung,      \* the network task never gets past the place it is in
  monitored, \* the monitor item of the network task is in use
  monAge,    \* age of the run time stored in it
  netAge,    \* age of the run time the network task sampled last
  g_disable_feed_wdt,
  g_reboot_delay_en, g_reboot_delay,
  delayAge,  \* age of g_reboot_delay_timer
  wdtAge,    \* seconds since the watchdog was fed
  wdt_test,  \* DeviceParam.wdt_test = 0x5A
  sysRan, netRan,  \* the task ended a loop in this second
  hungAge,   \* history: seconds the network task has been hung
  cliAge     \* history: seconds since the reboot command answered, or -1

sysVars == <<sysPc, g_disable_feed_wdt, wdtAge, sysRan>>
netVars == <<netPc, monitored, monAge, netAge, netRan>>
delayVars == <<g_reboot_delay_en, g_reboot_delay, delayAge, cliAge>>
vars == <<sysVars, netVars, delayVars, hung, hungAge, wdt_test>>

\* The network task brings lwIP up and then loops; it holds the scheduler
\* lock in "init" and in "handle".
NetPlaces == {"init", "sample", "enter", "handle", "log", "sleep"}
Locked == netPc \in {"init", "handle"}

\* The state a reset leaves; wdt_test comes from flash.
Start ==
  /\ sysPc = "hook" /\ netPc = "init" /\ hung = FALSE
  /\ monitored = FALSE /\ monAge = 0 /\ netAge = 0
  /\ g_disable_feed_wdt = FALSE
  /\ g_reboot_delay_en = 0 /\ g_reboot_delay = 0 /\ delayAge = 0
  /\ wdtAge = 0 /\ sysRan = FALSE /\ netRan = FALSE
  /\ hungAge = 0 /\ cliAge = -1

Init == Start /\ wdt_test \in BOOLEAN

-----------------------------------------------------------------------------
(* Sys_Delay_Reset and its callers.                                        *)

\* Mutant: every request starts the delay again.
DelayResetRestarts(sec) ==
  /\ g_reboot_delay' = sec /\ delayAge' = 0 /\ g_reboot_delay_en' = 1

\* The first request counts, any later one is ignored.  The run time stored
\* may be a second early: its two halves are not read at once (SysTimer).
Sys_Delay_Reset(sec) ==
  IF g_reboot_delay_en = 0
    THEN /\ g_reboot_delay' = sec /\ delayAge' \in {0, 1} /\ g_reboot_delay_en' = 1
    ELSE UNCHANGED <<g_reboot_delay, delayAge, g_reboot_delay_en>>

\* The reboot command says that the device will reboot after 3 s.
RebootCommand ==
  /\ Sys_Delay_Reset(CliDelay)
  /\ cliAge' = IF cliAge = -1 THEN 0 ELSE cliAge

\* tcpclient_period after too many failed connections.
TcpClientGivesUp ==
  /\ Sys_Delay_Reset(TcpDelay)
  /\ UNCHANGED cliAge

-----------------------------------------------------------------------------
(* Sys_State_Task.                                                         *)

SysMayRun == ~Locked

\* Period_Hook: the console may run the reboot command, the TCP client give up.
PeriodHook ==
  /\ SysMayRun /\ sysPc = "hook"
  /\ sysPc' = "check"
  /\ RebootCommand \/ TcpClientGivesUp \/ UNCHANGED delayVars
  /\ UNCHANGED <<g_disable_feed_wdt, wdtAge, sysRan, netVars, hung, hungAge, wdt_test>>

\* Monitor_TaskMonitor.
TaskLate == monitored /\ monAge >= MonTimeout

DelayOver == g_reboot_delay_en = 1 /\ delayAge >= g_reboot_delay

\* Within the second of the request the run time may be read torn, and be
\* before the stored one: the unsigned difference is then past any delay.
DelayTorn == g_reboot_delay_en = 1 /\ delayAge = 0

\* Mutant: the monitor is not asked.
FeedNoMonitor ==
  /\ SysMayRun /\ sysPc = "check" /\ ~g_disable_feed_wdt
  /\ wdtAge' = 0 /\ g_disable_feed_wdt' = DelayOver
  /\ sysPc' = "sleep" /\ sysRan' = TRUE
  /\ UNCHANGED <<netVars, delayVars, hung, hungAge, wdt_test>>

\* The watchdog is fed and the two reasons to stop feeding it are looked for.
FeedAndCheck ==
  /\ SysMayRun /\ sysPc = "check" /\ ~g_disable_feed_wdt
  /\ wdtAge' = 0
  /\ \E torn \in {FALSE, DelayTorn} :
       g_disable_feed_wdt' = (DelayOver \/ torn \/ TaskLate)
  /\ sysPc' = "sleep" /\ sysRan' = TRUE
  /\ UNCHANGED <<netVars, delayVars, hung, hungAge, wdt_test>>

\* No more feeding: reset after 300 ms, or wait for the watchdog to do it.
StopFeeding ==
  /\ SysMayRun /\ sysPc = "check" /\ g_disable_feed_wdt
  /\ sysPc' = IF wdt_test THEN "dead" ELSE "reset"
  /\ UNCHANGED <<g_disable_feed_wdt, wdtAge, sysRan, netVars, delayVars, hung, hungAge, wdt_test>>

\* The 10 ms between two loops are over.
SysWakes ==
  /\ SysMayRun /\ sysPc = "sleep"
  /\ sysPc' = "hook"
  /\ UNCHANGED <<g_disable_feed_wdt, wdtAge, sysRan, netVars, delayVars, hung, hungAge, wdt_test>>

ResetState ==
  /\ sysPc' = "hook" /\ netPc' = "init" /\ hung' = FALSE
  /\ monitored' = FALSE /\ monAge' = 0 /\ netAge' = 0
  /\ g_disable_feed_wdt' = FALSE
  /\ g_reboot_delay_en' = 0 /\ g_reboot_delay' = 0 /\ delayAge' = 0
  /\ wdtAge' = 0 /\ sysRan' = FALSE /\ netRan' = FALSE
  /\ hungAge' = 0 /\ cliAge' = -1
  /\ UNCHANGED wdt_test

\* NVIC_SystemReset, after the 300 ms.
SystemReset == SysMayRun /\ sysPc = "reset" /\ ResetState

SysStep == PeriodHook \/ FeedAndCheck \/ StopFeeding \/ SysWakes \/ SystemReset

-----------------------------------------------------------------------------
(* Net_Periodic_Task.  It runs when Sys_State_Task sleeps.                 *)

NetMayRun == ~hung /\ (Locked \/ sysPc \in {"sleep", "reset", "dead"})

NetGoes(from, to) ==
  /\ NetMayRun /\ netPc = from /\ netPc' = to
  /\ UNCHANGED <<sysVars, hung, hungAge, wdt_test>>

\* lwIP is up; the monitor item is created with the present run time.
NetInit ==
  /\ NetGoes("init", "sample")
  /\ monitored' = TRUE /\ monAge' = 0
  /\ UNCHANGED <<netAge, netRan, delayVars>>

NetSample ==
  /\ NetGoes("sample", "enter")
  /\ netAge' = 0
  /\ UNCHANGED <<monitored, monAge, netRan, delayVars>>

\* Mutant: Monitor_Enter does not store the run time.
EnterNoTimer ==
  /\ NetGoes("enter", "handle")
  /\ UNCHANGED <<monitored, monAge, netAge, netRan, delayVars>>

\* Monitor_Enter stores the sampled run time; then the lock is taken.
MonitorEnter ==
  /\ NetGoes("enter", "handle")
  /\ monAge' = netAge
  /\ UNCHANGED <<monitored, netAge, netRan, delayVars>>

\* Network_Handle; a telnet session may run the reboot command in it.
NetworkHandle ==
  /\ NetGoes("handle", "log")
  /\ RebootCommand \/ UNCHANGED delayVars
  /\ UNCHANGED <<monitored, monAge, netAge, netRan>>

\* The log handler, Monitor_Exit (the state it stores is never looked at)
\* and the start of the 2 ms sleep.
NetExit ==
  /\ NetGoes("log", "sleep")
  /\ netRan' = TRUE
  /\ UNCHANGED <<monitored, monAge, netAge, delayVars>>

NetWakes ==
  /\ NetGoes("sleep", "sample")
  /\ UNCHANGED <<monitored, monAge, netAge, netRan, delayVars>>

NetStep == NetInit \/ NetSample \/ MonitorEnter \/ NetworkHandle \/ NetExit \/ NetWakes

\* The network task stops for good in lwIP or in the log handler.
Hang ==
  /\ NetMayRun /\ netPc \in {"init", "handle", "log"}
  /\ hung' = TRUE
  /\ UNCHANGED <<sysVars, netVars, delayVars, hungAge, wdt_test>>

-----------------------------------------------------------------------------
(* Time and the external watchdog.                                         *)

Upto(n, max) == IF n < max THEN n + 1 ELSE n

\* The loops take milliseconds: a task that can run ends one every second.
Tick ==
  /\ wdtAge < WdtTimeout
  /\ sysRan \/ (hung /\ Locked) \/ sysPc = "dead"
  /\ netRan \/ hung
  /\ sysPc = "reset" => hung /\ Locked
  /\ wdtAge' = wdtAge + 1
  /\ monAge' = Upto(monAge, MonTimeout)
  /\ netAge' = Upto(netAge, MonTimeout)
  /\ delayAge' = IF g_reboot_delay_en = 1 THEN Upto(delayAge, TcpDelay) ELSE 0
  /\ hungAge' = IF hung THEN Upto(hungAge, MonTimeout + WdtTimeout + 1) ELSE 0
  /\ cliAge' = IF cliAge >= 0 THEN Upto(cliAge, CliDelay + 2) ELSE cliAge
  /\ sysRan' = FALSE /\ netRan' = FALSE
  /\ UNCHANGED <<sysPc, netPc, hung, monitored, g_disable_feed_wdt,
                 g_reboot_delay_en, g_reboot_delay, wdt_test>>

\* The watchdog was not fed for too long.
WatchdogReset == wdtAge = WdtTimeout /\ ResetState

-----------------------------------------------------------------------------
Next == SysStep \/ NetStep \/ Hang \/ Tick \/ WatchdogReset

Spec == Init /\ [][Next]_vars

\* Time passes, and each task gets the processor: the network task in the
\* 10 ms sleeps of the other one, Sys_State_Task, of higher priority, each
\* time the network task gives the scheduler lock back.  Either is ready
\* again and again, not all the time: hence strong fairness.
FairSpec == /\ Spec
            /\ SF_vars(SysStep) /\ SF_vars(NetStep)
            /\ WF_vars(Tick) /\ WF_vars(WatchdogReset)

-----------------------------------------------------------------------------
(* Properties.                                                             *)

TypeOK ==
  /\ sysPc \in {"hook", "check", "sleep", "reset", "dead"}
  /\ netPc \in NetPlaces
  /\ hung \in BOOLEAN /\ monitored \in BOOLEAN /\ wdt_test \in BOOLEAN
  /\ g_disable_feed_wdt \in BOOLEAN /\ sysRan \in BOOLEAN /\ netRan \in BOOLEAN
  /\ monAge \in 0..MonTimeout /\ netAge \in 0..MonTimeout
  /\ g_reboot_delay_en \in {0, 1} /\ g_reboot_delay \in {0, CliDelay, TcpDelay}
  /\ delayAge \in 0..TcpDelay
  /\ wdtAge \in 0..WdtTimeout
  /\ hungAge \in 0..(MonTimeout + WdtTimeout + 1)
  /\ cliAge \in -1..(CliDelay + 2)

\* A network task that hangs, with the scheduler locked or not, has the
\* device reset within the monitor's and the watchdog's time.
HangIsShort == hungAge <= MonTimeout + WdtTimeout

\* Sys_State_Task gives up feeding for a reason only: the network task
\* hangs, or the delay of a requested reset is over or has just begun.
ResetHasReason ==
  [][g_disable_feed_wdt' /\ ~g_disable_feed_wdt => hung \/ DelayOver \/ DelayTorn]_vars

\* A delayed reset that was accepted happens in the end.
DelayedResetHappens == (g_reboot_delay_en = 1) ~> (g_reboot_delay_en = 0)

\* cli_cmd.c:377: "Device will reboot after 3s": so it does, within a second,
\* while nothing hangs and the reset is not left to the watchdog, unless a
\* delayed reset with a longer time was pending: that one is kept.
RebootCommandHonoured ==
  ~hung /\ ~wdt_test /\ g_reboot_delay <= CliDelay => cliAge <= CliDelay + 1
=============================================================================
