------------------------------- MODULE MCGpio -------------------------------
(* The outputs and the buttons that Api_Gpio_Ctl_Period serves.  They share *)
(* no state, so a behaviour is one of an output or one of the buttons.      *)
(* Commands for TLC: constant levels, one, two and endless pulses, and a    *)
(* latch without an idle time.                                              *)
EXTENDS GpioCtl, GpioButton

MCCommands ==
  {Cmd("ACTIVE", 1, 0, 0), Cmd("INACTIVE", 1, 0, 0), Cmd("TOGGLE", 1, 0, 0),
   Cmd("PWM", 1, 2, 1), Cmd("PWM", 2, 1, 2), Cmd("PWM", -1, 1, 1), Cmd("PWM", 1, 2, 0)}

VARIABLE half

CtlHalf == half = "output" /\ Next /\ UNCHANGED <<half, btnVars>>
BtnHalf == half = "button" /\ BtnNext /\ UNCHANGED <<half, vars>>

GpioInit == half \in {"output", "button"} /\ Init /\ BtnInit
GpioNext == CtlHalf \/ BtnHalf

GpioSpec ==
  /\ GpioInit /\ [][GpioNext]_<<half, vars, btnVars>>
  /\ WF_vars(half = "output" /\ CtlStep) /\ WF_vars(half = "output" /\ Api_Gpo_Period)

\* The fields of both kinds of entry stay in their range, the debounce count in
\* its bits (api_gpio.h).
GpioTypeOK == TypeOK /\ BtnTypeOK
=============================================================================
