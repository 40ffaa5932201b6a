------------------------------ MODULE SysTimer ------------------------------
(***************************************************************************)
(* The clocks of sys/sys_timer.c.  The run time is counted by SysTick; the *)
(* local time is taken from the RTC by its wake-up interrupt each second,  *)
(* its milliseconds counted by SysTick.  A task reads and sets the clocks  *)
(* with the interrupts enabled, half by half; the RTC interrupt has the    *)
(* higher priority and may come in the middle of SysTick's handler.        *)
(*                                                                         *)
(* A step of the model is one access to a variable that another level can  *)
(* touch.  Dates are kept as seconds: the calendar fields the code sends   *)
(* to the RTC and reads from it stand for the same second from 2000 to     *)
(* 2099.                                                                   *)
(***************************************************************************)
EXTENDS Integers

CONSTANTS MsPerS,     \* milliseconds in a second (1000)
          Word,       \* 2^32: what an unsigned difference is taken modulo
          MaxTicks,   \* bound: SysTick interrupts in a behaviour
          MaxRtc      \* bound: the last second of the RTC

ASSUME SysTimerAssumption ==
  /\ MsPerS \in Nat \ {0, 1} /\ Word \in Nat \ {0}
  /\ MaxTicks \in Nat /\ MaxRtc \in Nat

VARIABLES
  s_dwRunTime, s_dwRunTimeMs,    \* seconds and milliseconds since start
  s_dwLocalTime, s_dwTimeMs,     \* local time and its milliseconds
  rtc, RTC_STAT_WTF,             \* the RTC's second and its wake-up flag
  tickPc, tickReg,               \* SysTick_Handler: place, s_dwTimeMs as loaded
  pc, reg,                       \* the task: place, the value in its register
  stamp,                         \* the SysTimerParams the task took last
  diff,                          \* what SysTimer_DiffRunTime returned last
  ticks, callAt,                 \* history: run time, and when the call began
  stampAt, stampTorn,            \* history: run time of the stamp, read torn
  diffAge, diffTorn,             \* history: age of the stamp, either read torn
  raced                          \* history: the RTC interrupt came while a
                                 \* SysTimer_SetLocalTime was under way

runVars == <<s_dwRunTime, s_dwRunTimeMs, ticks>>
localVars == <<s_dwLocalTime, s_dwTimeMs, rtc, RTC_STAT_WTF, raced>>
tickVars == <<tickPc, tickReg>>
stampVars == <<stamp, stampAt, stampTorn>>
diffVars == <<diff, diffAge, diffTorn>>
clockVars == <<runVars, localVars, tickVars, stampVars, diffVars, pc, reg, callAt>>

Setting == {"set", "set_rtc", "get", "store"}
Places == {"idle", "stamp_s", "stamp_ms", "diff_s", "diff_ms"} \cup Setting

\* SysTimer_Init reads the RTC.
ClockInit ==
  /\ s_dwRunTime = 0 /\ s_dwRunTimeMs = 0
  /\ rtc = 0 /\ s_dwLocalTime = rtc /\ s_dwTimeMs = 0 /\ RTC_STAT_WTF = FALSE
  /\ tickPc = "idle" /\ tickReg = 0 /\ pc = "idle" /\ reg = 0
  /\ stamp = [timer_s |-> 0, timer_ms |-> 0] /\ diff = 0
  /\ ticks = 0 /\ callAt = 0
  /\ stampAt = 0 /\ stampTorn = FALSE /\ diffAge = 0 /\ diffTorn = FALSE
  /\ raced = FALSE

-----------------------------------------------------------------------------
(* Interrupts.                                                             *)

\* SysTimer_UpdateTimeMs loads s_dwTimeMs to count it up.
UpdateTimeMs_Load ==
  /\ tickPc = "idle" /\ ticks < MaxTicks
  /\ tickPc' = "store" /\ tickReg' = s_dwTimeMs
  /\ UNCHANGED <<runVars, localVars, stampVars, diffVars, pc, reg, callAt>>

\* The run time goes on by a millisecond.
UpdateRunTime ==
  IF s_dwRunTimeMs < MsPerS - 1
    THEN s_dwRunTimeMs' = s_dwRunTimeMs + 1 /\ UNCHANGED s_dwRunTime
    ELSE s_dwRunTimeMs' = 0 /\ s_dwRunTime' = s_dwRunTime + 1

\* It stores it back, at most 999, and counts the run time.
UpdateTimeMs_Store ==
  /\ tickPc = "store" /\ tickPc' = "idle"
  /\ s_dwTimeMs' = IF tickReg < MsPerS - 1 THEN tickReg + 1 ELSE s_dwTimeMs
  /\ UpdateRunTime /\ ticks' = ticks + 1
  /\ UNCHANGED <<s_dwLocalTime, rtc, RTC_STAT_WTF, raced, tickReg,
                 stampVars, diffVars, pc, reg, callAt>>

\* Another second of the RTC.
RtcSecond ==
  /\ rtc < MaxRtc
  /\ rtc' = rtc + 1 /\ RTC_STAT_WTF' = TRUE
  /\ UNCHANGED <<runVars, s_dwLocalTime, s_dwTimeMs, raced, tickVars,
                 stampVars, diffVars, pc, reg, callAt>>

\* Mutant: the interrupt only restarts the milliseconds.
WakeMsOnly ==
  /\ RTC_STAT_WTF /\ RTC_STAT_WTF' = FALSE
  /\ s_dwTimeMs' = 0 /\ raced' = (pc \in Setting)
  /\ UNCHANGED <<runVars, s_dwLocalTime, rtc, tickVars, stampVars, diffVars,
                 pc, reg, callAt>>

\* RTC_WKUP_IRQHandler: SysTimer_UpdateTime(NULL).
RTC_WKUP_IRQHandler ==
  /\ RTC_STAT_WTF /\ RTC_STAT_WTF' = FALSE
  /\ s_dwLocalTime' = rtc /\ s_dwTimeMs' = 0
  /\ raced' = (pc \in Setting)
  /\ UNCHANGED <<runVars, rtc, tickVars, stampVars, diffVars, pc, reg, callAt>>

-----------------------------------------------------------------------------
(* The task.  It runs when no handler does.                                *)

Goes(from, to) ==
  /\ tickPc = "idle" /\ pc = from /\ pc' = to
  /\ UNCHANGED <<runVars, tickVars>>

\* A call returns: its register and the time it began are of no more use.
Returns == reg' = 0 /\ callAt' = 0

\* SysTimer_GetRunTime or SysTimer_DiffRunTime is called.
Call ==
  /\ Goes("idle", "stamp_s") \/ Goes("idle", "diff_s")
  /\ callAt' = ticks
  /\ UNCHANGED <<localVars, stampVars, diffVars, reg>>

\* Mutant: s_dwRunTime is not volatile, its first value stays in a register.
RunTimeCached ==
  /\ Goes("stamp_s", "stamp_ms") \/ Goes("diff_s", "diff_ms")
  /\ UNCHANGED <<localVars, stampVars, diffVars, reg, callAt>>

\* SysTimer_GetRunTime loads the seconds.
GetRunTime_S ==
  /\ Goes("stamp_s", "stamp_ms") \/ Goes("diff_s", "diff_ms")
  /\ reg' = s_dwRunTime
  /\ UNCHANGED <<localVars, stampVars, diffVars, callAt>>

\* What SysTimer_GetRunTime gives: seconds loaded before, milliseconds now.
Sample == [timer_s |-> reg, timer_ms |-> s_dwRunTimeMs]
Torn == reg # s_dwRunTime

\* SysTimer_GetRunTime loads the milliseconds and returns, into a time stamp.
GetRunTime_Ms ==
  /\ Goes("stamp_ms", "idle")
  /\ stamp' = Sample
  /\ stampAt' = ticks /\ stampTorn' = Torn
  /\ Returns
  /\ UNCHANGED <<localVars, diffVars>>

\* Mutant: no second is borrowed.
DiffNoBorrow(now, from) ==
  ((now.timer_s - from.timer_s) * MsPerS
     + (IF now.timer_ms >= from.timer_ms THEN now.timer_ms - from.timer_ms
        ELSE MsPerS + now.timer_ms - from.timer_ms)) % Word

\* The difference of two readings: a second borrowed when the milliseconds
\* need one, then diff_s * 1000 + diff_ms as an unsigned number.
Diff(now, from) ==
  ((now.timer_s - from.timer_s) * MsPerS + now.timer_ms - from.timer_ms) % Word

\* The same inside SysTimer_DiffRunTime, which returns the difference.
DiffRunTime ==
  /\ Goes("diff_ms", "idle")
  /\ diff' = Diff(Sample, stamp)
  /\ diffAge' = ticks - stampAt /\ diffTorn' = (Torn \/ stampTorn)
  /\ Returns
  /\ UNCHANGED <<localVars, stampVars>>

\* SysTimer_SetLocalTime stores the time ...
SetLocalTime(t) ==
  /\ Goes("idle", "set")
  /\ s_dwLocalTime' = t
  /\ UNCHANGED <<s_dwTimeMs, rtc, RTC_STAT_WTF, raced, stampVars, diffVars, reg, callAt>>

\* ... loads it back to make a date of it ...
SetLocalTime_Load ==
  /\ Goes("set", "set_rtc")
  /\ reg' = s_dwLocalTime
  /\ UNCHANGED <<localVars, stampVars, diffVars, callAt>>

\* ... which it gives to the RTC, unless that one does not take it; the
\* interrupt is off meanwhile and its flag cleared ...
SetLocalTime_Rtc ==
  /\ Goes("set_rtc", "get")
  /\ rtc' \in {reg, rtc} /\ RTC_STAT_WTF' = FALSE
  /\ UNCHANGED <<s_dwLocalTime, s_dwTimeMs, raced, stampVars, diffVars, reg, callAt>>

\* ... and reads the RTC ...
SetLocalTime_Get ==
  /\ Goes("get", "store")
  /\ reg' = rtc
  /\ UNCHANGED <<localVars, stampVars, diffVars, callAt>>

\* Mutant: the RTC is not read back.
StoreNothing ==
  /\ Goes("store", "idle")
  /\ s_dwTimeMs' = 0 /\ Returns
  /\ UNCHANGED <<s_dwLocalTime, rtc, RTC_STAT_WTF, raced, stampVars, diffVars>>

\* ... for the local time.
SetLocalTime_Store ==
  /\ Goes("store", "idle")
  /\ s_dwLocalTime' = reg /\ s_dwTimeMs' = 0
  /\ Returns
  /\ UNCHANGED <<rtc, RTC_STAT_WTF, raced, stampVars, diffVars>>

-----------------------------------------------------------------------------
Interrupt == UpdateTimeMs_Load \/ UpdateTimeMs_Store \/ RtcSecond \/ RTC_WKUP_IRQHandler

Read == Call \/ GetRunTime_S \/ GetRunTime_Ms \/ DiffRunTime

Set == \/ \E t \in 0..MaxRtc : SetLocalTime(t)
       \/ SetLocalTime_Load \/ SetLocalTime_Rtc \/ SetLocalTime_Get \/ SetLocalTime_Store

ClockNext == Interrupt \/ Read \/ Set

ClockSpec == ClockInit /\ [][ClockNext]_clockVars

-----------------------------------------------------------------------------
(* Properties.                                                             *)

\* A reading of the run time falls in the second in which its first half was
\* read, which is not before the call, however long the task is kept from
\* reading the other half: the error is below a second, either way.
StampWithinItsSecond ==
  [][stamp' # stamp =>
       LET t == stamp'.timer_s * MsPerS + stamp'.timer_ms
       IN t > callAt - MsPerS /\ t <= ticks]_clockVars

\* An elapsed time is exact, modulo the word, unless the second changed
\* between the two halves of one of the two readings it is made of.
DiffExactUnlessTorn == ~diffTorn => diff = diffAge % Word

\* Once the wake-up interrupt is served the local time is the RTC's, the
\* setting of the clock included, unless the interrupt came in the middle of
\* it: then it is again after the next one.
LocalFollowsRtc ==
  ~RTC_STAT_WTF /\ pc \notin Setting /\ ~raced => s_dwLocalTime = rtc
=============================================================================
