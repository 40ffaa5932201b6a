------------------------------ MODULE RecordFifo ------------------------------
(***************************************************************************)
(* What the log of records promises: a queue of records that a writer      *)
(* extends and that gives up its oldest records for room.  A reset may     *)
(* damage the page that is being written, and no other: its records can go *)
(* and, when the page is written again, come back.                         *)
(***************************************************************************)
EXTENDS Integers, FiniteSets

CONSTANTS Record,   \* the records, numbered in the order they are written
          PageSize  \* records in a page

VARIABLES log,      \* the records a reader finds, the oldest the least
          resets    \* how often the device was reset

Init == log = {} /\ resets = 0

Newer(r) == {q \in log : r < q}

Before(S, T) == \A q \in S, r \in T : q < r

\* The record is newer than all or, once there was a reset, than all but some of
\* its own page.
Store ==
    /\ \E r \in Record : /\ log' = log \cup {r}
                         /\ Newer(r) = {} \/ (resets > 0 /\ Cardinality(Newer(r)) < PageSize)
    /\ UNCHANGED resets

LosesOldest == log' \subseteq log /\ Before(log \ log', log')

LosesNewest ==
    /\ log' \subseteq log /\ Before(log', log \ log')
    /\ Cardinality(log \ log') <= PageSize

GiveUp == LosesOldest /\ UNCHANGED resets

Reset == (LosesOldest \/ LosesNewest) /\ resets' = resets + 1

Next == Store \/ GiveUp \/ Reset

Spec == Init /\ [][Next]_<<log, resets>>

=============================================================================
