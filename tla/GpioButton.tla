----------------------------- MODULE GpioButton -----------------------------
(***************************************************************************)
(* The buttons of api/api_gpio: Api_Gpi_Btn_Init, called by a task, takes  *)
(* an entry; Api_Gpi_Btn_Period, called by the SysTick interrupt for every *)
(* entry in use, counts the readings that differ from the level of the     *)
(* button and takes over the level after DEBOUNCE_TICKS of them.           *)
(* The mutex of Api_Gpi_Btn_Init does not keep the interrupt out: an entry *)
(* is in use before its index and its level are set.                       *)
(***************************************************************************)
EXTENDS Integers

CONSTANTS Buttons,          \* the entries
          DEBOUNCE_TICKS    \* api_gpio.h:67

Levels == {0, 1}

\* debounce_cnt is a bit-field of three bits.
CntRange == 2 ^ 3

ASSUME GpioButtonAssumption == DEBOUNCE_TICKS \in Nat \ {0}

VARIABLES
  btn_pc,            \* of each entry: idle, used, index or ready
  button_level, debounce_cnt,   \* ApiButtonMapEntry
  last, run,     \* history: the last reading, and how many equal ones in a row
  btn_cut            \* history: Api_Gpi_Btn_Period came during Api_Gpi_Btn_Init

btnVars == <<btn_pc, button_level, debounce_cnt, last, run, btn_cut>>

BtnInit ==
  /\ btn_pc = [b \in Buttons |-> "idle"]
  /\ button_level = [b \in Buttons |-> 0] /\ debounce_cnt = [b \in Buttons |-> 0]
  /\ last = [b \in Buttons |-> 0] /\ run = [b \in Buttons |-> 0]
  /\ btn_cut = [b \in Buttons |-> FALSE]

-----------------------------------------------------------------------------
(* Api_Gpi_Btn_Init.                                                       *)

\* memset, then is_used.  From here on the interrupt serves the entry, with
\* index 0.
Btn_Init_Used(b) ==
  /\ btn_pc[b] = "idle" /\ btn_pc' = [btn_pc EXCEPT ![b] = "used"]
  /\ button_level' = [button_level EXCEPT ![b] = 0]
  /\ debounce_cnt' = [debounce_cnt EXCEPT ![b] = 0]
  /\ UNCHANGED <<last, run, btn_cut>>

Btn_Init_Index(b) ==
  /\ btn_pc[b] = "used" /\ btn_pc' = [btn_pc EXCEPT ![b] = "index"]
  /\ UNCHANGED <<button_level, debounce_cnt, last, run, btn_cut>>

\* Mutant: the level of the button is not read.
Btn_Init_NoLevel(b) ==
  /\ btn_pc[b] = "index" /\ btn_pc' = [btn_pc EXCEPT ![b] = "ready"]
  /\ \E r \in Levels : last' = [last EXCEPT ![b] = r]
  /\ run' = [run EXCEPT ![b] = 1]
  /\ UNCHANGED <<button_level, debounce_cnt, btn_cut>>

Btn_Init_Level(b) ==
  /\ btn_pc[b] = "index" /\ btn_pc' = [btn_pc EXCEPT ![b] = "ready"]
  /\ \E r \in Levels : /\ button_level' = [button_level EXCEPT ![b] = r]
                       /\ last' = [last EXCEPT ![b] = r]
  /\ run' = [run EXCEPT ![b] = 1]
  /\ UNCHANGED <<debounce_cnt, btn_cut>>

-----------------------------------------------------------------------------
(* Api_Gpi_Btn_Period, for the reading r.                                  *)

\* The count after a reading that differs: it wraps as the bit-field does.
BtnCounted(b) == (debounce_cnt[b] + 1) % CntRange

\* Mutant: one reading too few.
TakesSoon(b, r) == r # button_level[b] /\ BtnCounted(b) >= DEBOUNCE_TICKS - 1

Takes(b, r) == r # button_level[b] /\ BtnCounted(b) >= DEBOUNCE_TICKS

NextCnt(b, r) == IF r # button_level[b] /\ ~Takes(b, r) THEN BtnCounted(b) ELSE 0

\* The equal readings in a row, counted up to DEBOUNCE_TICKS.
NextRun(b, r) == IF r # last[b] THEN 1
                 ELSE IF run[b] < DEBOUNCE_TICKS THEN run[b] + 1 ELSE run[b]

Used(b) == btn_pc[b] # "idle"

\* One interrupt: every entry in use is served.
Api_Gpio_Ctl_Period ==
  \E r \in [Buttons -> Levels] :
    /\ button_level' = [b \in Buttons |->
         IF Used(b) /\ Takes(b, r[b]) THEN r[b] ELSE button_level[b]]
    /\ debounce_cnt' = [b \in Buttons |->
         IF Used(b) THEN NextCnt(b, r[b]) ELSE debounce_cnt[b]]
    /\ btn_cut' = [b \in Buttons |-> btn_cut[b] \/ btn_pc[b] \in {"used", "index"}]
    /\ last' = [b \in Buttons |-> IF btn_pc[b] = "ready" THEN r[b] ELSE last[b]]
    /\ run' = [b \in Buttons |-> IF btn_pc[b] = "ready" THEN NextRun(b, r[b]) ELSE run[b]]
    /\ UNCHANGED btn_pc

-----------------------------------------------------------------------------
BtnNext == \/ \E b \in Buttons : Btn_Init_Used(b) \/ Btn_Init_Index(b) \/ Btn_Init_Level(b)
           \/ Api_Gpio_Ctl_Period

BtnSpec == BtnInit /\ [][BtnNext]_btnVars

-----------------------------------------------------------------------------
(* Properties.                                                             *)

\* The types; the count of a button stays below what its three bits hold and
\* below DEBOUNCE_TICKS between two interrupts.
BtnTypeOK ==
  /\ btn_pc \in [Buttons -> {"idle", "used", "index", "ready"}]
  /\ button_level \in [Buttons -> Levels] /\ last \in [Buttons -> Levels]
  /\ debounce_cnt \in [Buttons -> {n \in 0..(CntRange - 1) : n < DEBOUNCE_TICKS}]
  /\ run \in [Buttons -> 0..DEBOUNCE_TICKS] /\ btn_cut \in [Buttons -> BOOLEAN]

\* The level of a button is never changed by fewer than DEBOUNCE_TICKS equal
\* readings, unless the interrupt came in the middle of its Api_Gpi_Btn_Init
\* (what was counted on another pin then stays in debounce_cnt).
LevelDebounced ==
  [][\A b \in Buttons :
       btn_pc[b] = "ready" /\ ~btn_cut[b] /\ button_level'[b] # button_level[b]
         => run'[b] = DEBOUNCE_TICKS /\ last'[b] = button_level'[b]]_btnVars

\* After DEBOUNCE_TICKS equal readings the level of a button is that reading,
\* however it was initialised (api_gpio.h:67: "消抖周期，最大8").
LevelFollows ==
  \A b \in Buttons :
    btn_pc[b] = "ready" /\ run[b] = DEBOUNCE_TICKS => button_level[b] = last[b]
=============================================================================
