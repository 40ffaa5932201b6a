\* Seconds, scaled: the monitor waits longer than the watchdog, the TCP
\* client's delay is longer than both the command's and the monitor's.
CONSTANTS MonTimeout = 3
          WdtTimeout = 2
          CliDelay = 2
          TcpDelay = 5
SPECIFICATION FairSpec
INVARIANTS HangIsShort RebootCommandHonoured
PROPERTIES ResetHasReason DelayedResetHappens
