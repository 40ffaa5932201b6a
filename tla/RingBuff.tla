------------------------------ MODULE RingBuff ------------------------------
(***************************************************************************)
(* The ring buffer of sys/sys_ringbuff.c shared by one writer and one      *)
(* reader that run concurrently without a lock: a network or interrupt     *)
(* handler that pushes (udpgroup.c, tcpserver.c, CAN0_RXx_IRQHandler) and  *)
(* a task that pops (udp_group_read_data, llif_can_read, udp_send_period). *)
(*                                                                         *)
(* A step of the model is one access to memory the other side can see: the *)
(* test of the two indices, one byte of the memcpy, the store of an index. *)
(* The content of a unit is its ordinal in the stream of accepted units,   *)
(* repeated in each of its bytes, so that a unit lost, repeated, torn or   *)
(* delivered out of order is told from the right one.                      *)
(***************************************************************************)
EXTENDS Integers, Sequences

CONSTANTS N,          \* dwDeepSize
          UnitSize,   \* dwUnitSize
          SendMax,    \* the most udp_send_period packs in a datagram (1400)
          MaxUnits    \* bound: units the writer offers in a behaviour

ASSUME RingAssumption ==
  /\ N \in Nat \ {0, 1}
  /\ UnitSize \in Nat \ {0}
  /\ SendMax \in Nat \ {0}
  /\ MaxUnits \in Nat

VARIABLES
  dwWritePos, dwReadPos,  \* the indices of ST_RingBuff_Header
  pBuff,                  \* the slots, byte by byte
  pPc, pLeft, pIdx,       \* writer: place, units still to push, bytes copied
  cPc, cLeft, cIdx,       \* reader: place, units still to pop, bytes copied
  cMode,                  \* which reader: "read" (read_data) or "send" (udp_send_period)
  pUnit,                  \* the unit Ringbuff_Pop is copying out
  delivered,              \* the last unit a Ringbuff_Pop returned 0 for
  accepted, wcnt, rcnt,   \* history: units accepted, pushed and popped
  nLost,                  \* history: pushes of accepted units that were refused
  unfilled                \* history: 1 once the sender packed a unit no pop filled

prodVars == <<pPc, pLeft, pIdx, accepted, wcnt, nLost>>
consVars == <<cPc, cLeft, cIdx, cMode, pUnit, delivered, rcnt, unfilled>>
vars == <<dwWritePos, dwReadPos, pBuff, prodVars, consVars>>

Slots == 0..(N - 1)
Bytes == 0..(UnitSize - 1)
Unit(n) == [b \in Bytes |-> n]

-----------------------------------------------------------------------------
(* The pure functions of sys_ringbuff.c.                                   *)

GetUsedSize == (N + dwWritePos - dwReadPos) % N

GetFreeSize == N - ((N + dwWritePos - dwReadPos) % N) - 1

Full == (dwWritePos + 1) % N = dwReadPos
\* Mutant: an index behind the other one is taken for an empty ring.
EmptyNoWrap == dwWritePos <= dwReadPos

Empty == dwWritePos = dwReadPos

\* Ringbuff_Init, on storage the linker zeroes.
Init ==
  /\ dwWritePos = 0 /\ dwReadPos = 0
  /\ pBuff = [s \in Slots |-> Unit(0)]
  /\ pPc = "idle" /\ pLeft = 0 /\ pIdx = 0
  /\ cPc = "idle" /\ cLeft = 0 /\ cIdx = 0 /\ cMode = "read"
  /\ pUnit = Unit(0) /\ delivered = Unit(0)
  /\ accepted = 0 /\ wcnt = 0 /\ rcnt = 0
  /\ nLost = 0 /\ unfilled = 0

-----------------------------------------------------------------------------
(* The writer.                                                             *)

\* Mutant: the batch is pushed without asking for the free space.
OfferUnchecked(len) ==
  /\ pPc = "idle" /\ accepted + len <= MaxUnits
  /\ pPc' = "check" /\ pLeft' = len /\ accepted' = accepted + len
  /\ UNCHANGED <<dwWritePos, dwReadPos, pBuff, pIdx, wcnt, nLost, consVars>>

\* A received buffer of len units is pushed as a whole when the free space
\* allows and dropped as a whole when not (the drop changes nothing).
Offer(len) ==
  /\ pPc = "idle"
  /\ accepted + len <= MaxUnits
  /\ len <= GetFreeSize
  /\ pPc' = "check" /\ pLeft' = len /\ accepted' = accepted + len
  /\ UNCHANGED <<dwWritePos, dwReadPos, pBuff, pIdx, wcnt, nLost, consVars>>

\* The unit is done with: the loop goes on with the next one.
NextUnit == /\ pLeft' = pLeft - 1
            /\ pPc' = IF pLeft = 1 THEN "idle" ELSE "check"

\* Ringbuff_Push: the full test; a refusal is ignored by every caller.
PushCheck ==
  /\ pPc = "check"
  /\ IF Full
       THEN NextUnit /\ nLost' = nLost + 1
       ELSE pPc' = "copy" /\ UNCHANGED <<pLeft, nLost>>
  /\ pIdx' = 0
  /\ UNCHANGED <<dwWritePos, dwReadPos, pBuff, accepted, wcnt, consVars>>

\* Ringbuff_Push: one byte of the memcpy into the slot at dwWritePos.
PushByte ==
  /\ pPc = "copy" /\ pIdx < UnitSize
  /\ pBuff' = [pBuff EXCEPT ![dwWritePos][pIdx] = wcnt + 1]
  /\ pIdx' = pIdx + 1
  /\ UNCHANGED <<dwWritePos, dwReadPos, pPc, pLeft, accepted, wcnt, nLost, consVars>>

\* Mutant: the index is not wrapped.
PublishNoWrap ==
  /\ pPc = "copy" /\ pIdx = UnitSize
  /\ dwWritePos' = dwWritePos + 1 /\ wcnt' = wcnt + 1
  /\ NextUnit
  /\ UNCHANGED <<dwReadPos, pBuff, pIdx, accepted, nLost, consVars>>

\* Ringbuff_Push: dwWritePos moves on, which makes the unit visible.
PushPublish ==
  /\ pPc = "copy" /\ pIdx = UnitSize
  /\ dwWritePos' = (dwWritePos + 1) % N
  /\ wcnt' = wcnt + 1
  /\ NextUnit
  /\ UNCHANGED <<dwReadPos, pBuff, pIdx, accepted, nLost, consVars>>

PushStep == PushCheck \/ PushByte \/ PushPublish

-----------------------------------------------------------------------------
(* The reader.                                                             *)

\* xxx_read_data: pops until want units were got or the ring is empty.
Read(want) ==
  /\ cPc = "idle"
  /\ cPc' = "check" /\ cMode' = "read" /\ cLeft' = want
  /\ UNCHANGED <<dwWritePos, dwReadPos, pBuff, prodVars, cIdx, pUnit,
                 delivered, rcnt, unfilled>>

\* Mutant: the datagram is always packed full.
SendPeriodFull ==
  /\ cPc = "idle" /\ GetUsedSize # 0
  /\ cPc' = "check" /\ cMode' = "send" /\ cLeft' = SendMax
  /\ UNCHANGED <<dwWritePos, dwReadPos, pBuff, prodVars, cIdx, pUnit,
                 delivered, rcnt, unfilled>>

\* udp_send_period: takes the used size, capped, and pops that many units
\* whatever the pops return; nothing is done when the ring is empty.
SendPeriod ==
  /\ cPc = "idle"
  /\ GetUsedSize # 0
  /\ cPc' = "check" /\ cMode' = "send"
  /\ cLeft' = IF GetUsedSize > SendMax THEN SendMax ELSE GetUsedSize
  /\ UNCHANGED <<dwWritePos, dwReadPos, pBuff, prodVars, cIdx, pUnit,
                 delivered, rcnt, unfilled>>

NextPop == /\ cLeft' = cLeft - 1
           /\ cPc' = IF cLeft = 1 THEN "idle" ELSE "check"

\* Ringbuff_Pop: the empty test.  read_data stops there; udp_send_period
\* goes on and sends a byte no Pop has filled.
PopCheck ==
  /\ cPc = "check"
  /\ IF Empty
       THEN IF cMode = "read"
              THEN cPc' = "idle" /\ cLeft' = 0 /\ UNCHANGED unfilled
              ELSE NextPop /\ unfilled' = 1
       ELSE cPc' = "copy" /\ UNCHANGED <<cLeft, unfilled>>
  /\ cIdx' = 0
  /\ UNCHANGED <<dwWritePos, dwReadPos, pBuff, prodVars, cMode, pUnit,
                 delivered, rcnt>>

\* Ringbuff_Pop: one byte of the memcpy out of the slot at dwReadPos.
PopByte ==
  /\ cPc = "copy" /\ cIdx < UnitSize
  /\ pUnit' = [pUnit EXCEPT ![cIdx] = pBuff[dwReadPos][cIdx]]
  /\ cIdx' = cIdx + 1
  /\ UNCHANGED <<dwWritePos, dwReadPos, pBuff, prodVars, cPc, cLeft, cMode,
                 delivered, rcnt, unfilled>>

\* Ringbuff_Pop: dwReadPos moves on, which frees the slot, and 0 is returned.
PopAdvance ==
  /\ cPc = "copy" /\ cIdx = UnitSize
  /\ dwReadPos' = (dwReadPos + 1) % N
  /\ delivered' = pUnit
  /\ rcnt' = rcnt + 1
  /\ NextPop
  /\ UNCHANGED <<dwWritePos, pBuff, prodVars, cIdx, cMode, pUnit, unfilled>>

PopStep == PopCheck \/ PopByte \/ PopAdvance

-----------------------------------------------------------------------------
Producer == (\E len \in 1..(N - 1) : Offer(len)) \/ PushStep
Consumer == (\E want \in 1..(N - 1) : Read(want)) \/ SendPeriod \/ PopStep

Next == Producer \/ Consumer

Spec == Init /\ [][Next]_vars

\* A push or a pop that began runs to its end (neither blocks), and the
\* reader is polled for ever: udp_send_period is a Period_Hook function.
FairSpec == Spec /\ WF_vars(PushStep) /\ WF_vars(Consumer)

-----------------------------------------------------------------------------
(* Properties.                                                             *)

TypeOK ==
  /\ dwWritePos \in Slots /\ dwReadPos \in Slots
  /\ pBuff \in [Slots -> [Bytes -> Nat]]
  /\ pPc \in {"idle", "check", "copy"} /\ cPc \in {"idle", "check", "copy"}
  /\ pLeft \in 0..(N - 1) /\ cLeft \in 0..(N - 1)
  /\ pIdx \in 0..UnitSize /\ cIdx \in 0..UnitSize
  /\ cMode \in {"read", "send"}
  /\ pUnit \in [Bytes -> Nat] /\ delivered \in [Bytes -> Nat]
  /\ accepted \in Nat /\ wcnt \in Nat /\ rcnt \in Nat
  /\ nLost \in Nat /\ unfilled \in {0, 1}

\* Distance of slot s from the read index, in the direction of the ring.
Offset(s) == IF s >= dwReadPos THEN s - dwReadPos ELSE s - dwReadPos + N

\* The slots from dwReadPos on hold, complete and in order, exactly the
\* units pushed and not yet popped, whatever the other side is doing:
\* a copy under way never touches a slot that is in use.
InFlightIntact ==
  /\ wcnt - rcnt = GetUsedSize
  /\ \A s \in Slots : Offset(s) < wcnt - rcnt => pBuff[s] = Unit(rcnt + 1 + Offset(s))

\* Every Ringbuff_Pop that returned 0 delivered the next unit of the stream,
\* no byte of it from another one: nothing lost, repeated, torn or reordered.
DeliveredInOrder == delivered = Unit(rcnt)

\* The callers of Ringbuff_Push test the free space once for the batch and
\* ignore what the pushes return: no push of an accepted batch is refused.
NoLossAfterCheck == nLost = 0 /\ accepted = wcnt + pLeft

\* udp_send_period pops as many units as it found used and ignores what the
\* pops return: it never puts a byte in a datagram that no Pop filled.
SenderFillsDatagram == unfilled = 0

\* A unit that was accepted is delivered in the end.
AcceptedIsDelivered ==
  \A n \in 1..MaxUnits : (accepted >= n) ~> (rcnt >= n)

\* The ring buffer implements the bounded queue of RingFifo.
Fifo == INSTANCE RingFifo
          WITH queue <- [i \in 1..(accepted - rcnt) |-> rcnt + i]
FifoSpec == Fifo!Spec
=============================================================================
