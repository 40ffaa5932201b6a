----------------------------- MODULE GpioProofs -----------------------------
(***************************************************************************)
(* Theorems of api/api_gpio.  GpioCtl: a command that the interrupt does   *)
(* not cut is obeyed, for any set of commands and any times.  GpioButton:  *)
(* the debouncing is right for any number of buttons and for every         *)
(* DEBOUNCE_TICKS that debounce_cnt can count to.  MCGpio: both at once.   *)
(***************************************************************************)
EXTENDS MCGpio, TLAPS

(***************************************************************************)
(* GpioCtl: the invariant.                                                 *)
(***************************************************************************)

\* The current action goes on at most until the interrupt next looks.
InTime == age = 0 \/ age < action_time

\* What is left to do once the pulse begun by the command has been counted.
Remaining == IF cmd.action_cnt > 0 THEN cmd.action_cnt - 1 ELSE cmd.action_cnt

\* A PWM command in progress: the fields are set in turn, the entry waits in
\* ACTION and no pulse is counted before the pin is written.
PwmInProgress ==
  /\ state = "ACTION" /\ pulses = 0
  /\ pc \in {"time", "idle_time", "last", "load", "dec"} => action_cnt = cmd.action_cnt
  /\ pc = "dec" => reg = action_cnt /\ action_cnt > 0
  /\ pc = "pin" => action_cnt = Remaining
  /\ pc \in {"idle_time", "last", "load", "dec", "pin"} => action_time = cmd.action_time
  /\ pc \in {"last", "load", "dec", "pin"} => idle_time = cmd.idle_time
  /\ pc \in {"load", "dec", "pin"} => InTime

\* A PWM command that is done: the pin is active only in an action, which is no
\* younger than the pulse, and the pulses given and left make up the count.
PwmDone ==
  /\ action_time = cmd.action_time /\ idle_time = cmd.idle_time
  /\ state = "ACTION" => InTime
  /\ active /\ idle_time # 0 => state = "ACTION" /\ activeAge <= age
  /\ cmd.action_cnt > 0 => action_cnt >= 0 /\ pulses + action_cnt = cmd.action_cnt
  /\ cmd.action_cnt < 0 => action_cnt = cmd.action_cnt

\* A constant level: nothing is left for the interrupt to do.
LevelKept ==
  /\ pc \in {"cnt", "pin", "idle"} /\ state = "IDLE"
  /\ pc # "cnt" => action_cnt = 0
  /\ pc = "idle" /\ cmd.ctl_code = "ACTIVE" => active
  /\ pc = "idle" /\ cmd.ctl_code = "INACTIVE" => ~active

\* A command that the interrupt has not acted in.
Uncut ==
  ~cut => IF cmd.ctl_code # "PWM" THEN LevelKept
          ELSE IF pc = "idle" THEN PwmDone ELSE PwmInProgress

\* Only a count above zero is counted down.
Loaded == pc = "dec" => reg > 0

IInv == TypeOK /\ Uncut /\ Loaded

(***************************************************************************)
(* GpioCtl: the induction.                                                 *)
(***************************************************************************)

\* The largest count there is.
LEMMA LargestCount ==
  /\ MaxCount \in Int /\ MaxCount >= 1 /\ MaxTime \in Nat
  /\ \A n \in Counts : n \in Int /\ n <= MaxCount
<1>1. Asked \subseteq Int /\ 1 \in Asked
  BY GpioCtlAssumption DEF Asked
<1>2. MaxCount \in Asked /\ \A n \in Asked : n <= MaxCount
  BY GpioCtlAssumption DEF MaxCount
<1>3. QED
  BY <1>1, <1>2, GpioCtlAssumption DEF Counts

\* Where counts and times begin.
LEMMA Zeros ==
  /\ 0 \in Counts /\ 0 \in 0..MaxTime /\ 0 \in 0..(MaxCount + 1)
  /\ 0 \in 0..(MaxTime + 1) /\ MaxTime + 1 \in 0..(MaxTime + 1)
BY LargestCount DEF Counts

\* What a command is.
LEMMA CommandTyped ==
  ASSUME NEW c \in Commands \cup {Cmd("INACTIVE", 1, 0, 0)}
  PROVE  /\ c.action_time \in 0..MaxTime /\ c.idle_time \in 0..MaxTime
         /\ c.action_cnt \in Counts /\ c.action_cnt \in Int \ {0} /\ c.ctl_code \in Codes
<1>1. CASE c \in Commands
  BY <1>1, GpioCtlAssumption DEF Counts, Asked
<1>2. CASE c = Cmd("INACTIVE", 1, 0, 0)
  BY <1>2, GpioCtlAssumption DEF Cmd, Codes, Counts, Asked
<1>3. QED
  BY <1>1, <1>2

\* Numbers, as facts of their own.
LEMMA Typed ==
  ASSUME TypeOK
  PROVE  /\ action_cnt \in Int /\ action_cnt <= MaxCount /\ reg \in Int /\ reg <= MaxCount
         /\ action_time \in Nat /\ action_time <= MaxTime /\ idle_time \in Nat /\ idle_time <= MaxTime
         /\ age \in Nat /\ age <= MaxTime + 1 /\ activeAge \in Nat /\ activeAge <= MaxTime + 1
         /\ pulses \in Nat /\ pulses <= MaxCount + 1
         /\ cmd.action_cnt \in Int \ {0} /\ cmd.action_cnt <= MaxCount
         /\ cmd.action_cnt \in Counts /\ cmd.ctl_code \in Codes
         /\ cmd.action_time \in 0..MaxTime /\ cmd.idle_time \in 0..MaxTime
BY LargestCount, CommandTyped DEF TypeOK

\* The count after a pulse.
LEMMA OneFewer ==
  ASSUME NEW n \in Counts, n > 0
  PROVE  n - 1 \in Counts
BY LargestCount DEF Counts

\* What counting does.
LEMMA Counting ==
  /\ \A n \in 0..(MaxCount + 1) : Counted(n) \in 0..(MaxCount + 1)
  /\ \A n \in 0..MaxCount : Counted(n) = n + 1
  /\ \A n \in 0..(MaxTime + 1) : Upto(n) \in 0..(MaxTime + 1)
  /\ \A n \in 0..MaxTime : Upto(n) = n + 1
BY LargestCount DEF Counted, Upto

\* The entry is unused at the start.
LEMMA InitIInv == Init => IInv
<1> SUFFICES ASSUME Init PROVE IInv
  OBVIOUS
<1>1. TypeOK
  BY Zeros DEF Init, TypeOK
<1>2. Uncut
  BY DEF Init, Uncut, LevelKept, Cmd
<1>3. QED
  BY <1>1, <1>2 DEF IInv, Loaded, Init

\* A command begins.
LEMMA CommandIInv ==
  ASSUME IInv, NEW c \in Commands, Api_Gpo_Ctl(c)
  PROVE  IInv'
<1>1. TypeOK'
  BY Zeros DEF IInv, TypeOK, Api_Gpo_Ctl
<1>2. Uncut'
  BY DEF Api_Gpo_Ctl, Uncut, LevelKept, PwmInProgress
<1>3. QED
  BY <1>1, <1>2 DEF IInv, Loaded, Api_Gpo_Ctl

\* The stores of Api_Gpo_Ctl up to the time stamp.
LEMMA FieldsIInv ==
  ASSUME IInv, Ctl_Cnt \/ Ctl_ActionTime \/ Ctl_IdleTime \/ Ctl_LastTime
  PROVE  IInv'
<1>1. CASE Ctl_Cnt
  <2>1. TypeOK'
    BY <1>1, Typed, LargestCount DEF IInv, TypeOK, Ctl_Cnt, Goes, Counts
  <2>2. Uncut'
    BY <1>1 DEF IInv, Ctl_Cnt, Goes, Uncut, LevelKept, PwmInProgress
  <2>3. QED
    BY <1>1, <2>1, <2>2 DEF IInv, Loaded, Ctl_Cnt, Goes
<1>2. CASE Ctl_ActionTime
  <2>1. TypeOK'
    BY <1>2, Typed DEF IInv, TypeOK, Ctl_ActionTime, Goes
  <2>2. Uncut'
    BY <1>2 DEF IInv, Ctl_ActionTime, Goes, Uncut, LevelKept, PwmInProgress
  <2>3. QED
    BY <1>2, <2>1, <2>2 DEF IInv, Loaded, Ctl_ActionTime, Goes
<1>3. CASE Ctl_IdleTime
  <2>1. TypeOK'
    BY <1>3, Typed DEF IInv, TypeOK, Ctl_IdleTime, Goes
  <2>2. Uncut'
    BY <1>3 DEF IInv, Ctl_IdleTime, Goes, Uncut, LevelKept, PwmInProgress
  <2>3. QED
    BY <1>3, <2>1, <2>2 DEF IInv, Loaded, Ctl_IdleTime, Goes
<1>4. CASE Ctl_LastTime
  <2>1. TypeOK'
    BY <1>4, Zeros DEF IInv, TypeOK, Ctl_LastTime, Goes
  <2>2. Uncut'
    BY <1>4 DEF IInv, Ctl_LastTime, Goes, Uncut, LevelKept, PwmInProgress, InTime
  <2>3. QED
    BY <1>4, <2>1, <2>2 DEF IInv, Loaded, Ctl_LastTime, Goes
<1>5. QED
  BY <1>1, <1>2, <1>3, <1>4

\* The pulse of the command itself is counted.
LEMMA LoadDecIInv ==
  ASSUME IInv, Ctl_Load \/ Ctl_Dec
  PROVE  IInv'
<1>1. CASE Ctl_Load
  <2>1. TypeOK'
    BY <1>1 DEF IInv, TypeOK, Ctl_Load, Goes, entry
  <2>2. Uncut'
    BY <1>1, Typed DEF IInv, Ctl_Load, Goes, Uncut, LevelKept, PwmInProgress, InTime, Remaining, entry
  <2>3. QED
    BY <1>1, <2>1, <2>2 DEF IInv, Loaded, Ctl_Load, Goes
<1>2. CASE Ctl_Dec
  <2>1. reg > 0
    BY <1>2 DEF IInv, Loaded, Ctl_Dec, Goes
  <2>2. TypeOK'
    BY <1>2, <2>1, OneFewer, LargestCount DEF IInv, TypeOK, Ctl_Dec, Goes, Counts
  <2>3. Uncut'
    BY <1>2, Typed DEF IInv, Ctl_Dec, Goes, Uncut, LevelKept, PwmInProgress, InTime, Remaining
  <2>4. QED
    BY <1>2, <2>2, <2>3 DEF IInv, Loaded, Ctl_Dec, Goes
<1>3. QED
  BY <1>1, <1>2

\* The pin is written: the command is done.
LEMMA PinIInv ==
  ASSUME IInv, Ctl_Pin
  PROVE  IInv'
<1>1. active' \in BOOLEAN
  BY Typed DEF Ctl_Pin, Write, Codes, IInv, TypeOK
<1>2. TypeOK'
  BY <1>1, Counting, Zeros DEF IInv, TypeOK, Ctl_Pin, Goes, Write, entry
<1>3. Uncut'
  <2>1. SUFFICES ASSUME ~cut
                 PROVE  IF cmd.ctl_code # "PWM" THEN LevelKept' ELSE PwmDone'
    BY DEF Ctl_Pin, Goes, Uncut
  <2>2. CASE cmd.ctl_code # "PWM"
    BY <2>1, <2>2 DEF IInv, Uncut, LevelKept, Ctl_Pin, Goes, Write, entry
  <2>3. CASE cmd.ctl_code = "PWM"
    <3>1. PwmInProgress /\ pc = "pin"
      BY <2>1, <2>3 DEF IInv, Uncut, Ctl_Pin, Goes
    <3>2. active' = TRUE /\ activeAge' = 0 /\ pulses' = Counted(pulses) /\ UNCHANGED <<entry, cmd>>
      BY <2>3 DEF Ctl_Pin, Write, Goes
    <3>3. pulses' = 1
      BY <3>1, <3>2, Counting, LargestCount DEF PwmInProgress
    <3>4. QED
      BY <2>3, <3>1, <3>2, <3>3, Typed DEF IInv, PwmInProgress, PwmDone, InTime, Remaining, entry
  <2>4. QED
    BY <2>2, <2>3
<1>4. QED
  BY <1>2, <1>3 DEF IInv, Loaded, Ctl_Pin, Goes

\* The interrupt ends an action.
LEMMA ExpireIInv ==
  ASSUME IInv, Expire
  PROVE  IInv'
<1>1. TypeOK'
  BY Counting, Zeros DEF IInv, TypeOK, Expire, PinStays, Write, Acts
<1>2. Uncut'
  <2>1. SUFFICES ASSUME pc = "idle", ~cut
                 PROVE  IF cmd.ctl_code # "PWM" THEN LevelKept' ELSE PwmDone'
    BY DEF Expire, Acts, Uncut, IInv, TypeOK
  <2>2. cmd.ctl_code = "PWM" /\ PwmDone
    BY <2>1 DEF IInv, Uncut, LevelKept, Expire
  <2>3. QED
    BY <2>2 DEF Expire, PwmDone, PinStays, Write
<1>3. QED
  BY <1>1, <1>2 DEF IInv, Loaded, Expire

\* The interrupt begins the next pulse.
LEMMA StartNextIInv ==
  ASSUME IInv, StartNext
  PROVE  IInv'
<1>1. TypeOK'
  BY Counting, Zeros, OneFewer DEF IInv, TypeOK, StartNext, Write, Acts
<1>2. Uncut'
  <2>1. SUFFICES ASSUME pc = "idle", ~cut
                 PROVE  IF cmd.ctl_code # "PWM" THEN LevelKept' ELSE PwmDone'
    BY DEF StartNext, Acts, Uncut, IInv, TypeOK
  <2>2. cmd.ctl_code = "PWM" /\ PwmDone
    BY <2>1 DEF IInv, Uncut, LevelKept, StartNext
  <2>3. /\ state' = "ACTION" /\ age' = 0 /\ active' /\ activeAge' = 0
        /\ UNCHANGED <<action_time, idle_time, cmd>>
    BY DEF StartNext, Write
  <2>4. cmd.action_cnt > 0 => action_cnt' >= 0 /\ pulses' + action_cnt' = cmd.action_cnt
    <3>1. SUFFICES ASSUME cmd.action_cnt > 0
                   PROVE  action_cnt' >= 0 /\ pulses' + action_cnt' = cmd.action_cnt
      OBVIOUS
    <3>2. action_cnt > 0 /\ pulses + action_cnt = cmd.action_cnt
      BY <2>2, <3>1, Typed DEF IInv, PwmDone, StartNext
    <3>3. action_cnt' = action_cnt - 1 /\ pulses' = Counted(pulses)
      BY <3>1, <3>2 DEF StartNext
    <3>4. Counted(pulses) = pulses + 1
      BY <3>2, Typed, Counting, LargestCount DEF IInv
    <3>5. QED
      BY <3>2, <3>3, <3>4, Typed DEF IInv
  <2>5. cmd.action_cnt < 0 => action_cnt' = cmd.action_cnt
    BY <2>2, Typed DEF IInv, PwmDone, StartNext
  <2>6. QED
    BY <2>2, <2>3, <2>4, <2>5 DEF PwmDone, InTime
<1>3. QED
  BY <1>1, <1>2 DEF IInv, Loaded, StartNext

\* The interrupt finds nothing to do: an action that goes on is not over then.
LEMMA WaitIInv ==
  ASSUME IInv, Wait
  PROVE  IInv'
<1>1. TypeOK'
  BY Counting, Zeros DEF IInv, TypeOK, Wait, PinStays
<1>2. /\ state = "ACTION" => age' < action_time /\ age' = age + 1
      /\ active' = active /\ (active => activeAge' <= activeAge + 1)
      /\ UNCHANGED <<state, action_cnt, action_time, idle_time, pc, cmd, reg, cut, pulses>>
  BY Typed, LargestCount DEF IInv, Wait, ActionOver, PinStays, Upto
<1>3. state = "ACTION" => InTime'
  BY <1>2 DEF InTime
<1>4. activeAge' \in Nat
  BY <1>1 DEF TypeOK
<1>5. Uncut'
  BY <1>2, <1>3, <1>4, Typed DEF IInv, Uncut, LevelKept, PwmInProgress, PwmDone, Remaining
<1>6. QED
  BY <1>1, <1>5 DEF IInv, Loaded, Wait

\* Every step of a command and of the interrupt keeps the invariant.
LEMMA NextIInv ==
  ASSUME IInv, [Next]_vars
  PROVE  IInv'
<1>1. CASE UNCHANGED vars
  BY <1>1 DEF vars, entry, hist, IInv, TypeOK, Uncut, Loaded, LevelKept, PwmInProgress, PwmDone, InTime, Remaining
<1>2. CASE \E c \in Commands : Api_Gpo_Ctl(c)
  BY <1>2, CommandIInv
<1>3. CASE CtlStep
  BY <1>3, FieldsIInv, LoadDecIInv, PinIInv DEF CtlStep
<1>4. CASE Api_Gpo_Period
  BY <1>4, ExpireIInv, StartNextIInv, WaitIInv DEF Api_Gpo_Period
<1>5. QED
  BY <1>1, <1>2, <1>3, <1>4 DEF Next

\* The invariant holds in every reachable state.
THEOREM Invariance == Spec => []IInv
<1>1. QED
  BY InitIInv, NextIInv, PTL DEF Spec

\* The fields of an output keep to their types; counts stay those asked for.
THEOREM TypeCorrect == Spec => []TypeOK
<1>1. IInv => TypeOK
  BY DEF IInv
<1>2. QED
  BY <1>1, Invariance, PTL

\* A command executed whole is obeyed, whatever the commands before it left
\* undone and wherever the interrupt cut those.
THEOREM CommandIsObeyed == Spec => []CommandObeyed
<1>1. IInv => CommandObeyed
  <2> SUFFICES ASSUME IInv PROVE CommandObeyed
    OBVIOUS
  <2>1. PulseNotTooLong
    BY Typed DEF IInv, Uncut, PwmDone, InTime, Whole, Pulsing, PulseNotTooLong
  <2>2. PulsesAsAsked
    BY Typed DEF IInv, Uncut, PwmDone, Whole, PulsesAsAsked
  <2>3. LevelStays
    BY DEF IInv, Uncut, LevelKept, Whole, LevelStays
  <2>4. EndlessStays
    BY Typed DEF IInv, Uncut, PwmDone, Whole, EndlessStays
  <2>5. QED
    BY <2>1, <2>2, <2>3, <2>4 DEF CommandObeyed
<1>2. QED
  BY <1>1, Invariance, PTL

(***************************************************************************)
(* GpioButton: the invariant and the induction.                            *)
(***************************************************************************)

\* What debounce_cnt counts: never fewer than the equal readings in a row that
\* differ from the level, and, if the initialisation was not interrupted, no
\* more.
BtnCounts(b) ==
  btn_pc[b] = "ready" =>
    /\ last[b] # button_level[b] => debounce_cnt[b] >= run[b]
    /\ ~btn_cut[b] => /\ debounce_cnt[b] <= run[b]
                      /\ last[b] = button_level[b] => debounce_cnt[b] = 0

\* Before the level is read, only an interrupt has counted.
BtnFresh(b) == btn_pc[b] # "ready" /\ ~btn_cut[b] => debounce_cnt[b] = 0

BtnIInv == BtnTypeOK /\ \A b \in Buttons : BtnCounts(b) /\ BtnFresh(b)

\* The first state satisfies the invariant.
LEMMA BtnInitInv == BtnInit => BtnIInv
  BY GpioButtonAssumption DEF BtnInit, BtnIInv, BtnTypeOK, BtnCounts, BtnFresh, Levels, CntRange

\* The effect of an interrupt on one entry.
LEMMA PeriodOfOne ==
  ASSUME DEBOUNCE_TICKS < CntRange, BtnIInv, NEW b \in Buttons, NEW r \in Levels, Used(b)
  PROVE  /\ Takes(b, r) <=> r # button_level[b] /\ debounce_cnt[b] = DEBOUNCE_TICKS - 1
         /\ NextCnt(b, r) = IF r = button_level[b] \/ Takes(b, r) THEN 0
                            ELSE debounce_cnt[b] + 1
         /\ NextCnt(b, r) \in 0..(DEBOUNCE_TICKS - 1)
  <1>. USE GpioButtonAssumption
  <1>1. CntRange \in Nat \ {0}
    BY DEF CntRange
  <1>2. debounce_cnt[b] \in 0..(DEBOUNCE_TICKS - 1)
    BY DEF BtnIInv, BtnTypeOK
  <1>3. BtnCounted(b) = debounce_cnt[b] + 1
    BY <1>1, <1>2 DEF BtnCounted
  <1>. QED BY <1>2, <1>3 DEF Takes, NextCnt

\* Every step of the interrupt and of the initialisation keeps the invariant.
LEMMA BtnNextInv == ASSUME DEBOUNCE_TICKS < CntRange, BtnIInv, [BtnNext]_btnVars
                 PROVE  BtnIInv'
  <1>. USE GpioButtonAssumption DEF BtnIInv
  <1>a. CntRange \in Nat
    BY DEF CntRange
  <1>1. ASSUME NEW b \in Buttons, Btn_Init_Used(b) PROVE BtnIInv'
    BY <1>1, <1>a DEF Btn_Init_Used, BtnTypeOK, BtnCounts, BtnFresh, Levels
  <1>2. ASSUME NEW b \in Buttons, Btn_Init_Index(b) PROVE BtnIInv'
    BY <1>2, <1>a DEF Btn_Init_Index, BtnTypeOK, BtnCounts, BtnFresh, Levels
  <1>3. ASSUME NEW b \in Buttons, Btn_Init_Level(b) PROVE BtnIInv'
    BY <1>3, <1>a DEF Btn_Init_Level, BtnTypeOK, BtnCounts, BtnFresh, Levels
  <1>4. CASE Api_Gpio_Ctl_Period
    <2>1. PICK r \in [Buttons -> Levels] : Api_Gpio_Ctl_Period!(r)
      BY <1>4 DEF Api_Gpio_Ctl_Period
    <2>2. \A b \in Buttons : r[b] \in Levels
      OBVIOUS
    <2>3. BtnTypeOK'
      <3>1. debounce_cnt' \in [Buttons -> {n \in 0..(CntRange - 1) : n < DEBOUNCE_TICKS}]
        <4>1. ASSUME NEW b \in Buttons, Used(b)
              PROVE  NextCnt(b, r[b]) \in {n \in 0..(CntRange - 1) : n < DEBOUNCE_TICKS}
          BY <4>1, <2>2, PeriodOfOne, <1>a
        <4>. QED BY <4>1, <2>1 DEF BtnTypeOK
      <3>2. /\ button_level' \in [Buttons -> Levels] /\ last' \in [Buttons -> Levels]
            /\ btn_cut' \in [Buttons -> BOOLEAN] /\ btn_pc' = btn_pc
        BY <2>1, <2>2 DEF BtnTypeOK
      <3>3. run' \in [Buttons -> 0..DEBOUNCE_TICKS]
        BY <2>1 DEF BtnTypeOK, NextRun
      <3>. QED BY <3>1, <3>2, <3>3 DEF BtnTypeOK
    <2>4. ASSUME NEW b \in Buttons PROVE BtnCounts(b)' /\ BtnFresh(b)'
      <3>1. CASE ~Used(b)
        BY <3>1, <2>1 DEF Used, BtnCounts, BtnFresh, BtnTypeOK
      <3>2. CASE btn_pc[b] \in {"used", "index"}
        BY <3>2, <2>1 DEF BtnCounts, BtnFresh
      <3>3. CASE btn_pc[b] = "ready"
        <4>1. Used(b)
          BY <3>3 DEF Used
        <4>. DEFINE x == r[b]
        <4>2. /\ Takes(b, x) <=> x # button_level[b] /\ debounce_cnt[b] = DEBOUNCE_TICKS - 1
              /\ NextCnt(b, x) = IF x = button_level[b] \/ Takes(b, x) THEN 0
                                 ELSE debounce_cnt[b] + 1
          BY <4>1, <2>2, PeriodOfOne
        <4>3. /\ btn_pc'[b] = "ready" /\ btn_cut'[b] = btn_cut[b] /\ last'[b] = x
              /\ button_level'[b] = IF Takes(b, x) THEN x ELSE button_level[b]
              /\ debounce_cnt'[b] = NextCnt(b, x)
          BY <2>1, <3>3, <4>1 DEF BtnTypeOK
        <4>7. run'[b] = IF x # last[b] THEN 1
                        ELSE IF run[b] < DEBOUNCE_TICKS THEN run[b] + 1 ELSE run[b]
          BY <2>1, <3>3 DEF NextRun
        <4>4. /\ debounce_cnt[b] \in Nat /\ debounce_cnt[b] < DEBOUNCE_TICKS
              /\ run[b] \in 0..DEBOUNCE_TICKS
              /\ x \in {0, 1} /\ last[b] \in {0, 1} /\ button_level[b] \in {0, 1}
          BY <2>2, <1>a DEF BtnTypeOK, Levels
        <4>5. BtnCounts(b)
          OBVIOUS
        <4>6. BtnCounts(b)'
          <5>1. /\ last[b] # button_level[b] => debounce_cnt[b] >= run[b]
                /\ ~btn_cut[b] => /\ debounce_cnt[b] <= run[b]
                                  /\ last[b] = button_level[b] => debounce_cnt[b] = 0
            BY <4>5, <3>3 DEF BtnCounts
          <5>2. CASE x = button_level[b] \/ Takes(b, x)
            BY <5>2, <4>2, <4>3, <4>4, <4>7 DEF BtnCounts
          <5>3. CASE x # button_level[b] /\ ~Takes(b, x)
            BY <5>1, <5>3, <4>2, <4>3, <4>4, <4>7 DEF BtnCounts
          <5>. QED BY <5>2, <5>3
        <4>. QED BY <4>6, <4>3 DEF BtnFresh
      <3>. QED BY <3>1, <3>2, <3>3 DEF Used, BtnTypeOK
    <2>. QED BY <2>3, <2>4
  <1>5. CASE UNCHANGED btnVars
    BY <1>5 DEF btnVars, BtnTypeOK, BtnCounts, BtnFresh
  <1>. QED BY <1>1, <1>2, <1>3, <1>4, <1>5 DEF BtnNext

\* The invariant holds in every reachable state.
THEOREM BtnInvariance == ASSUME DEBOUNCE_TICKS < CntRange PROVE BtnSpec => []BtnIInv
  BY BtnInitInv, BtnNextInv, PTL DEF BtnSpec

-----------------------------------------------------------------------------

\* The types, debounce_cnt within its three bits and below DEBOUNCE_TICKS.
THEOREM BtnTypeCorrect == ASSUME DEBOUNCE_TICKS < CntRange PROVE BtnSpec => []BtnTypeOK
  <1>1. BtnIInv => BtnTypeOK
    BY DEF BtnIInv
  <1>. QED BY <1>1, BtnInvariance, PTL

\* After DEBOUNCE_TICKS equal readings Api_Gpi_Btn_Period has taken them over.
THEOREM LevelFollowsReadings ==
  ASSUME DEBOUNCE_TICKS < CntRange PROVE BtnSpec => []LevelFollows
  <1>1. BtnIInv => LevelFollows
    BY GpioButtonAssumption DEF BtnIInv, BtnTypeOK, BtnCounts, LevelFollows, CntRange, Levels
  <1>. QED BY <1>1, BtnInvariance, PTL

\* And it never takes over a level on fewer.
THEOREM LevelIsDebounced ==
  ASSUME DEBOUNCE_TICKS < CntRange PROVE BtnSpec => LevelDebounced
  <1>. DEFINE Debounced == \A b \in Buttons :
         btn_pc[b] = "ready" /\ ~btn_cut[b] /\ button_level'[b] # button_level[b]
           => run'[b] = DEBOUNCE_TICKS /\ last'[b] = button_level'[b]
  <1>1. ASSUME BtnIInv, [BtnNext]_btnVars PROVE [Debounced]_btnVars
    <2>. SUFFICES ASSUME NEW b \in Buttons, btn_pc[b] = "ready", ~btn_cut[b],
                         button_level'[b] # button_level[b]
                  PROVE  run'[b] = DEBOUNCE_TICKS /\ last'[b] = button_level'[b]
      OBVIOUS
    <2>1. Api_Gpio_Ctl_Period
      BY <1>1 DEF BtnNext, btnVars, Btn_Init_Used, Btn_Init_Index, Btn_Init_Level, BtnIInv, BtnTypeOK
    <2>2. PICK r \in [Buttons -> Levels] : Api_Gpio_Ctl_Period!(r)
      BY <2>1 DEF Api_Gpio_Ctl_Period
    <2>3. Used(b) /\ r[b] \in Levels
      BY DEF Used
    <2>4. Takes(b, r[b]) /\ button_level'[b] = r[b] /\ last'[b] = r[b]
      BY <2>2, <2>3
    <2>5. r[b] # button_level[b] /\ debounce_cnt[b] = DEBOUNCE_TICKS - 1
      BY <1>1, <2>3, <2>4, PeriodOfOne
    <2>6. BtnIInv'
      BY <1>1, BtnNextInv
    <2>7. /\ run'[b] = NextRun(b, r[b])
          /\ run[b] \in 0..DEBOUNCE_TICKS
          /\ last[b] \in Levels /\ button_level[b] \in Levels
      BY <1>1, <2>2 DEF BtnIInv, BtnTypeOK
    <2>12. BtnCounts(b)
      BY <1>1 DEF BtnIInv
    <2>8. /\ debounce_cnt[b] <= run[b]
          /\ last[b] = button_level[b] => debounce_cnt[b] = 0
      BY <2>12 DEF BtnCounts
    <2>9. last[b] = r[b] \/ DEBOUNCE_TICKS = 1
      BY <2>3, <2>5, <2>7, <2>8, GpioButtonAssumption DEF Levels
    <2>10. CASE DEBOUNCE_TICKS = 1
      BY <2>4, <2>7, <2>10 DEF NextRun
    <2>11. CASE last[b] = r[b]
      BY <2>4, <2>5, <2>7, <2>8, <2>11, GpioButtonAssumption DEF NextRun
    <2>. QED BY <2>9, <2>10, <2>11
  <1>. QED BY <1>1, BtnInvariance, PTL DEF BtnSpec, LevelDebounced

-----------------------------------------------------------------------------
(* MCGpio: an output and the buttons, served by the same interrupt.        *)

\* A behaviour of the two together is one of each.
LEMMA EachItsOwn == GpioSpec => Spec /\ BtnSpec
<1>1. GpioInit => Init /\ BtnInit
  BY DEF GpioInit
<1>2. [GpioNext]_<<half, vars, btnVars>> => [Next]_vars /\ [BtnNext]_btnVars
  BY DEF GpioNext, CtlHalf, BtnHalf
<1>3. QED
  BY <1>1, <1>2, PTL DEF GpioSpec, Spec, BtnSpec

\* The fields of both kinds of entry keep to their types, and the count of a button to
\* the three bits of debounce_cnt.
THEOREM BothTyped == ASSUME DEBOUNCE_TICKS < CntRange PROVE GpioSpec => []GpioTypeOK
<1>1. TypeOK /\ BtnTypeOK => GpioTypeOK
  BY DEF GpioTypeOK
<1>2. QED
  BY <1>1, EachItsOwn, TypeCorrect, BtnTypeCorrect, PTL
=============================================================================
