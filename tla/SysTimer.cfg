\* A second of three milliseconds, a word of seven: the seconds roll over
\* twice and an elapsed time goes past the word.
CONSTANTS MsPerS = 3
          Word = 7
          MaxTicks = 8
          MaxRtc = 2
SPECIFICATION ClockSpec
INVARIANTS DiffExactUnlessTorn LocalFollowsRtc
PROPERTY StampWithinItsSecond
\* The bounds on ticks and RTC seconds end every behaviour.
CHECK_DEADLOCK FALSE
