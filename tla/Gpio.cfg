\* An output: times of up to two intervals, counts of one, two and for ever.
\* Two buttons, the DEBOUNCE_TICKS of the code.
CONSTANTS Commands <- MCCommands
          MaxTime = 2
          Buttons = {p1, p2}
          DEBOUNCE_TICKS = 3
SPECIFICATION GpioSpec
INVARIANTS CommandObeyed LevelFollows
PROPERTIES PulsesEnd LevelDebounced
