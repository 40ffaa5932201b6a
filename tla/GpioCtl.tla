------------------------------ MODULE GpioCtl ------------------------------
(***************************************************************************)
(* An output of api/api_gpio: Api_Gpo_Ctl, called by a task, writes the    *)
(* fields of a control entry one by one, and Api_Gpo_Period, called by the *)
(* SysTick interrupt, may come between any two of them; nothing protects   *)
(* the entry.  The reset pulse of the module ("reboot module", through     *)
(* Sys_ModuleReset) and the feeding of the watchdog go this way.           *)
(*                                                                         *)
(* Time is counted in TICKS_INTERVAL, the 5 ms between two calls of        *)
(* Api_Gpo_Period.  The pin is active when its level is not init_value.    *)
(***************************************************************************)
EXTENDS Integers

CONSTANTS Commands,   \* the ApiGpioCtl records the entry is given
          MaxTime     \* bound: ages are counted up to it

Codes == {"ACTIVE", "INACTIVE", "TOGGLE", "PWM"}

\* The counts asked for, and that of a level.
Asked == {c.action_cnt : c \in Commands} \cup {1}

\* A count is an int, so that one of them is the largest.
ASSUME GpioCtlAssumption ==
  /\ MaxTime \in Nat
  /\ Commands \subseteq [ctl_code : Codes, action_cnt : Int \ {0},
                         action_time : 0..MaxTime, idle_time : 0..MaxTime]
  /\ \E n \in Asked : \A k \in Asked : k <= n

VARIABLES
  state, action_cnt, action_time, idle_time,  \* ApiGpioCtlMapEntry
  age,        \* age of its last_time
  active,     \* the pin is active
  pc, cmd,    \* Api_Gpo_Ctl: place, and the command being or last executed
  reg,        \* Api_Gpo_Ctl: action_cnt as loaded to count it down
  cut,        \* history: Api_Gpo_Period acted during that command
  pulses,     \* history: pulses begun for it
  activeAge   \* history: how long ago the pin was made active, while it is

entry == <<state, action_cnt, action_time, idle_time, age>>
hist == <<cut, pulses, activeAge>>
vars == <<entry, active, pc, cmd, reg, hist>>

Cmd(code, cnt, on, off) ==
  [ctl_code |-> code, action_cnt |-> cnt, action_time |-> on, idle_time |-> off]

Upto(n) == IF n < MaxTime + 1 THEN n + 1 ELSE n

\* The largest count asked for, and one more; pulses are counted up to it.
MaxCount == CHOOSE n \in Asked : \A k \in Asked : k <= n
Counted(n) == IF n > MaxCount THEN n ELSE n + 1

\* Api_Gpo_Ctl_Init, on memory that is zero: last_time is the time of start.
Init ==
  /\ state = "IDLE" /\ action_cnt = 0 /\ action_time = 0 /\ idle_time = 0
  /\ age = MaxTime + 1 /\ active = FALSE
  /\ pc = "idle" /\ cmd = Cmd("INACTIVE", 1, 0, 0) /\ reg = 0
  /\ cut = FALSE /\ pulses = 0 /\ activeAge = 0

-----------------------------------------------------------------------------
(* Api_Gpo_Ctl.                                                            *)

Goes(from, to) ==
  /\ pc = from /\ pc' = to
  /\ UNCHANGED <<cmd, cut>>

\* Api_Gpio_Write.
Write(on) == active' = on /\ activeAge' = 0

\* The command begins with the state of the entry.
Api_Gpo_Ctl(c) ==
  /\ pc = "idle"
  /\ cmd' = c /\ cut' = FALSE /\ pulses' = 0
  /\ state' = IF c.ctl_code = "PWM" THEN "ACTION" ELSE "IDLE"
  /\ pc' = "cnt"
  /\ UNCHANGED <<action_cnt, action_time, idle_time, age, active, reg, activeAge>>

Ctl_Cnt ==
  /\ Goes("cnt", IF cmd.ctl_code = "PWM" THEN "time" ELSE "pin")
  /\ action_cnt' = IF cmd.ctl_code = "PWM" THEN cmd.action_cnt ELSE 0
  /\ UNCHANGED <<state, action_time, idle_time, age, active, reg, pulses, activeAge>>

Ctl_ActionTime ==
  /\ Goes("time", "idle_time")
  /\ action_time' = cmd.action_time
  /\ UNCHANGED <<state, action_cnt, idle_time, age, active, reg, pulses, activeAge>>

Ctl_IdleTime ==
  /\ Goes("idle_time", "last")
  /\ idle_time' = cmd.idle_time
  /\ UNCHANGED <<state, action_cnt, action_time, age, active, reg, pulses, activeAge>>

Ctl_LastTime ==
  /\ Goes("last", "load")
  /\ age' = 0
  /\ UNCHANGED <<state, action_cnt, action_time, idle_time, active, reg, pulses, activeAge>>

\* The pulse that the command begins itself is counted down ...
Ctl_Load ==
  /\ Goes("load", IF action_cnt > 0 THEN "dec" ELSE "pin")
  /\ reg' = action_cnt
  /\ UNCHANGED <<entry, active, pulses, activeAge>>

\* Mutant: it is not.
DecNothing ==
  /\ Goes("dec", "pin")
  /\ reg' = 0
  /\ UNCHANGED <<entry, active, pulses, activeAge>>

Ctl_Dec ==
  /\ Goes("dec", "pin")
  /\ action_cnt' = reg - 1 /\ reg' = 0
  /\ UNCHANGED <<state, action_time, idle_time, age, active, pulses, activeAge>>

\* ... and the pin is written.
Ctl_Pin ==
  /\ Goes("pin", "idle")
  /\ Write(CASE cmd.ctl_code = "ACTIVE"   -> TRUE
             [] cmd.ctl_code = "INACTIVE" -> FALSE
             [] cmd.ctl_code = "TOGGLE"   -> ~active
             [] cmd.ctl_code = "PWM"      -> TRUE)
  /\ pulses' = IF cmd.ctl_code = "PWM" THEN Counted(pulses) ELSE pulses
  /\ reg' = 0
  /\ UNCHANGED entry

CtlStep == \/ Ctl_Cnt \/ Ctl_ActionTime \/ Ctl_IdleTime \/ Ctl_LastTime
           \/ Ctl_Load \/ Ctl_Dec \/ Ctl_Pin

-----------------------------------------------------------------------------
(* Api_Gpo_Period, a TICKS_INTERVAL after its last call.                   *)

Acts == cut' = (cut \/ pc # "idle")

PinStays == /\ UNCHANGED active
            /\ activeAge' = IF active THEN Upto(activeAge) ELSE 0

\* diff_runtime(&last_time) against the times of the entry.
IdleOver == age + 1 >= idle_time

ActionOver == age + 1 >= action_time

\* Mutant: the state does not change.
ExpireStays ==
  /\ state = "ACTION" /\ ActionOver
  /\ IF idle_time = 0
       THEN age' = Upto(age) /\ PinStays
       ELSE age' = 0 /\ Write(FALSE)
  /\ Acts
  /\ UNCHANGED <<state, action_cnt, action_time, idle_time, pc, cmd, reg, pulses>>

\* The time of the action is over: the pin goes back, unless there is no
\* idle time.
Expire ==
  /\ state = "ACTION" /\ ActionOver
  /\ state' = "IDLE"
  /\ IF idle_time = 0
       THEN age' = Upto(age) /\ PinStays
       ELSE age' = 0 /\ Write(FALSE)
  /\ Acts
  /\ UNCHANGED <<action_cnt, action_time, idle_time, pc, cmd, reg, pulses>>

\* The idle time is over: the next pulse, while the count allows (a count
\* below zero allows for ever).
StartNext ==
  /\ state = "IDLE" /\ action_cnt # 0 /\ IdleOver
  /\ state' = "ACTION"
  /\ action_cnt' = IF action_cnt > 0 THEN action_cnt - 1 ELSE action_cnt
  /\ age' = 0 /\ Write(TRUE)
  /\ pulses' = IF cmd.action_cnt > 0 THEN Counted(pulses) ELSE pulses
  /\ Acts
  /\ UNCHANGED <<action_time, idle_time, pc, cmd, reg>>

\* Nothing is due.
Wait ==
  /\ \/ state = "ACTION" /\ ~ActionOver
     \/ state = "IDLE" /\ (action_cnt = 0 \/ ~IdleOver)
  /\ age' = Upto(age)
  /\ PinStays
  /\ UNCHANGED <<state, action_cnt, action_time, idle_time, pc, cmd, reg, cut, pulses>>

Api_Gpo_Period == Expire \/ StartNext \/ Wait

-----------------------------------------------------------------------------
Next == (\E c \in Commands : Api_Gpo_Ctl(c)) \/ CtlStep \/ Api_Gpo_Period

Spec == Init /\ [][Next]_vars

\* A command runs to its end and SysTick goes on.
FairSpec == Spec /\ WF_vars(CtlStep) /\ WF_vars(Api_Gpo_Period)

-----------------------------------------------------------------------------
(* Properties.                                                             *)

\* A count below zero, which stands for ever, is one that was asked for.
Counts == 0..MaxCount \cup Asked

TypeOK ==
  /\ state \in {"IDLE", "ACTION"} /\ action_cnt \in Counts
  /\ action_time \in 0..MaxTime /\ idle_time \in 0..MaxTime
  /\ age \in 0..(MaxTime + 1) /\ activeAge \in 0..(MaxTime + 1)
  /\ active \in BOOLEAN /\ cut \in BOOLEAN
  /\ pc \in {"idle", "cnt", "time", "idle_time", "last", "load", "dec", "pin"}
  /\ cmd \in Commands \cup {Cmd("INACTIVE", 1, 0, 0)}
  /\ reg \in Counts /\ pulses \in 0..(MaxCount + 1)

\* A command that Api_Gpo_Period did not act in the middle of.
Whole == pc = "idle" /\ ~cut

Pulsing == cmd.ctl_code = "PWM" /\ cmd.idle_time # 0

\* A pulse of a command executed whole is never longer than its action time.
PulseNotTooLong == Whole /\ Pulsing /\ active => activeAge = 0 \/ activeAge < cmd.action_time

\* At rest, such a command has given exactly the pulses it asked for.
PulsesAsAsked ==
  Whole /\ cmd.ctl_code = "PWM" /\ cmd.action_cnt > 0 /\ state = "IDLE" /\ action_cnt = 0
    => pulses = cmd.action_cnt

\* A command of pulses without end stays one, however many it has given.
EndlessStays ==
  Whole /\ cmd.ctl_code = "PWM" /\ cmd.action_cnt < 0 => action_cnt = cmd.action_cnt

\* A constant level set whole stays, whatever pulses were left before.
LevelStays == /\ Whole /\ cmd.ctl_code = "ACTIVE"   => active
              /\ Whole /\ cmd.ctl_code = "INACTIVE" => ~active

\* A command that the interrupt did not cut does what it says (Api_Gpo_Ctl and
\* Api_Gpo_Period): no pulse is too long, none too many, and endless pulses and a
\* level stay.
CommandObeyed == PulseNotTooLong /\ PulsesAsAsked /\ EndlessStays /\ LevelStays

\* The last pulse of a command executed whole ends, and the pin rests.
PulsesEnd ==
  Whole /\ Pulsing /\ cmd.action_cnt > 0 ~> pc # "idle" \/ (~active /\ state = "IDLE" /\ action_cnt = 0)
=============================================================================
