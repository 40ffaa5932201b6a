------------------------------ MODULE RingFifo ------------------------------
(***************************************************************************)
(* What a ring buffer of sys/sys_ringbuff.c promises to the two sides that *)
(* use it: a first-in first-out queue of units, bounded by dwDeepSize - 1, *)
(* that takes a batch whole or not at all and hands every unit it took to  *)
(* the reader once, complete and in order.  A unit is UnitSize bytes; its  *)
(* content is abstracted to its ordinal in the stream of accepted units.   *)
(***************************************************************************)
EXTENDS Integers, Sequences

CONSTANTS N,          \* dwDeepSize: slots of the ring, one of them kept empty
          UnitSize    \* dwUnitSize: bytes of a unit

VARIABLES accepted,   \* units taken from the writer so far
          queue,      \* ordinals of the units taken and not yet delivered
          delivered   \* the last unit the reader got, byte by byte

vars == <<accepted, queue, delivered>>

Unit(n) == [b \in 0..(UnitSize - 1) |-> n]

Init == /\ accepted = 0
        /\ queue = << >>
        /\ delivered = Unit(0)

\* The writer's batch of len units is appended as a whole.
Accept(len) ==
  /\ Len(queue) + len <= N - 1
  /\ queue' = queue \o [i \in 1..len |-> accepted + i]
  /\ accepted' = accepted + len
  /\ UNCHANGED delivered

\* The reader gets the oldest unit.
Deliver ==
  /\ queue # << >>
  /\ delivered' = Unit(Head(queue))
  /\ queue' = Tail(queue)
  /\ UNCHANGED accepted

Next == (\E len \in 1..(N - 1) : Accept(len)) \/ Deliver

Spec == Init /\ [][Next]_vars
=============================================================================
