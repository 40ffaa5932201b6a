--------------------------- MODULE RingBuffProofs ---------------------------
(***************************************************************************)
(* Proofs about RingBuff, for every depth N >= 2, every unit size and any  *)
(* number of units.  The invariants the runs check are not inductive: that *)
(* a slot being written is free needs the batch's free-space test to have  *)
(* left room for what remains of the batch, and that a pop is not torn     *)
(* needs the bytes already copied to be those of the oldest unit.  IInv    *)
(* adds both.                                                              *)
(***************************************************************************)
EXTENDS RingBuff, SequenceTheorems, TLAPS

\* How far the writer is ahead of the reader, without the modulo.
Ahead == IF dwWritePos >= dwReadPos THEN dwWritePos - dwReadPos
                                    ELSE dwWritePos - dwReadPos + N

\* The history counters agree with the indices, and the slots in use hold
\* the units of the stream in order.
Content ==
  /\ wcnt - rcnt = Ahead
  /\ \A s \in Slots : Offset(s) < wcnt - rcnt => pBuff[s] = Unit(rcnt + 1 + Offset(s))

\* The rest of an accepted batch fits behind the units in use, and what is
\* copied of the unit being pushed is in the free slot at dwWritePos.
Writer ==
  /\ nLost = 0
  /\ accepted = wcnt + pLeft
  /\ pPc = "idle" => pLeft = 0
  /\ pPc # "idle" => pLeft \in 1..(N - 1 - (wcnt - rcnt))
  /\ pPc = "copy" => \A b \in Bytes : b < pIdx => pBuff[dwWritePos][b] = wcnt + 1

\* What is copied of the unit being popped is the oldest unit's, and the
\* datagram sender asks for no more units than are in use.
Reader ==
  /\ unfilled = 0
  /\ delivered = Unit(rcnt)
  /\ cPc # "idle" => cLeft >= 1
  /\ cPc # "idle" /\ cMode = "send" => cLeft <= wcnt - rcnt
  /\ cPc = "copy" => /\ wcnt - rcnt >= 1
                     /\ \A b \in Bytes : b < cIdx => pUnit[b] = rcnt + 1

IInv == TypeOK /\ Content /\ Writer /\ Reader

-----------------------------------------------------------------------------
(* The arithmetic of the indices.                                          *)

\* What % N does below N, and below 2 * N.
LEMMA ModBelow == ASSUME NEW a \in 0..(N - 1) PROVE a % N = a
BY RingAssumption

\* An index that has gone past the end of the ring.
LEMMA ModWrap == ASSUME NEW a \in N..(2 * N - 1) PROVE a % N = a - N
BY RingAssumption

\* The next index, as Ringbuff_Push and Ringbuff_Pop compute it.
LEMMA SuccIndex ==
  ASSUME NEW i \in Slots
  PROVE  (i + 1) % N = IF i + 1 = N THEN 0 ELSE i + 1
BY RingAssumption DEF Slots

\* The used size, as Ringbuff_GetUsedSize computes it.
LEMMA UsedIsAhead ==
  ASSUME dwWritePos \in Slots, dwReadPos \in Slots
  PROVE  GetUsedSize = Ahead
<1> DEFINE a == N + dwWritePos - dwReadPos
<1>1. CASE dwWritePos >= dwReadPos
  <2>1. a \in N..(2 * N - 1)
    BY <1>1, RingAssumption DEF Slots
  <2>2. a - N = Ahead
    BY <1>1, RingAssumption DEF Ahead, Slots
  <2> HIDE DEF a
  <2>3. a % N = a - N
    BY <2>1, ModWrap
  <2> QED BY <2>2, <2>3 DEF GetUsedSize, a
<1>2. CASE dwWritePos < dwReadPos
  <2>1. a \in 0..(N - 1) /\ a = Ahead
    BY <1>2, RingAssumption DEF Ahead, Slots
  <2> HIDE DEF a
  <2>2. a % N = a
    BY <2>1, ModBelow
  <2> QED BY <2>1, <2>2 DEF GetUsedSize, a
<1> QED BY <1>1, <1>2 DEF Slots

\* The free size is what the used size leaves of N - 1 slots.
LEMMA FreeIsRest ==
  ASSUME dwWritePos \in Slots, dwReadPos \in Slots
  PROVE  GetFreeSize = N - Ahead - 1
BY UsedIsAhead DEF GetFreeSize, GetUsedSize

\* How far the writer is ahead always fits in the ring.
LEMMA AheadBound ==
  ASSUME dwWritePos \in Slots, dwReadPos \in Slots
  PROVE  Ahead \in 0..(N - 1)
BY RingAssumption DEF Ahead, Slots

-----------------------------------------------------------------------------
(* The invariant: initially, and under every action.                       *)

\* The first state satisfies the invariant.
LEMMA InitInv == Init => IInv
<1> SUFFICES ASSUME Init PROVE IInv OBVIOUS
<1>1. TypeOK
  BY RingAssumption DEF Init, TypeOK, Slots, Bytes, Unit
<1>2. Content
  BY RingAssumption DEF Init, Content, Ahead, Slots, Offset
<1>3. Writer
  BY DEF Init, Writer
<1>4. Reader
  BY DEF Init, Reader
<1> QED BY <1>1, <1>2, <1>3, <1>4 DEF IInv

\* An accepted batch fits: it was compared with the free size.
LEMMA OfferInv ==
  ASSUME IInv, NEW len \in 1..(N - 1), Offer(len) PROVE IInv'
<1>1. len <= N - 1 - (wcnt - rcnt)
  BY FreeIsRest, RingAssumption, AheadBound DEF Offer, IInv, TypeOK, Content
<1>2. TypeOK'
  BY RingAssumption DEF IInv, TypeOK, Offer, consVars
<1>3. Content'
  BY DEF IInv, Content, Ahead, Offset, Unit, Offer, consVars
<1>4. Writer'
  <2>1. pLeft = 0
    BY DEF IInv, Writer, TypeOK, Offer
  <2> QED BY <1>1, <2>1 DEF IInv, TypeOK, Writer, Offer, consVars
<1>5. Reader'
  BY DEF IInv, Reader, Unit, Offer, consVars
<1> QED BY <1>2, <1>3, <1>4, <1>5 DEF IInv

\* Push: while a batch is unfinished the ring is never found full.
LEMMA PushCheckInv == ASSUME IInv, PushCheck PROVE IInv'
<1>1. ~Full
  <2>1. wcnt - rcnt <= N - 2
    BY RingAssumption DEF IInv, TypeOK, Writer, Content, Ahead, Slots, PushCheck
  <2>2. wcnt - rcnt = Ahead
    BY DEF IInv, Content
  <2>3. (dwWritePos + 1) % N = IF dwWritePos + 1 = N THEN 0 ELSE dwWritePos + 1
    BY SuccIndex DEF IInv, TypeOK
  <2>4. (IF dwWritePos + 1 = N THEN 0 ELSE dwWritePos + 1) # dwReadPos
    BY <2>1, <2>2, RingAssumption DEF IInv, TypeOK, Ahead, Slots
  <2> QED BY <2>3, <2>4 DEF Full
<1>2. TypeOK'
  BY <1>1, RingAssumption DEF IInv, TypeOK, PushCheck, consVars
<1>3. Content'
  BY DEF IInv, Content, Ahead, Offset, Unit, PushCheck, consVars
<1>4. Writer'
  BY <1>1 DEF IInv, TypeOK, Writer, PushCheck, Bytes, consVars
<1>5. Reader'
  BY DEF IInv, Reader, Unit, PushCheck, consVars
<1> QED BY <1>2, <1>3, <1>4, <1>5 DEF IInv

\* Push: the slot at dwWritePos is not in use, so the copy disturbs nothing.
LEMMA PushByteInv == ASSUME IInv, PushByte PROVE IInv'
<1>1. TypeOK'
  <2>1. pIdx \in Bytes /\ pIdx + 1 \in 0..UnitSize
    BY RingAssumption DEF IInv, TypeOK, PushByte, Bytes
  <2>2. pBuff' \in [Slots -> [Bytes -> Nat]]
    BY <2>1 DEF IInv, TypeOK, PushByte
  <2> QED BY <2>1, <2>2 DEF IInv, TypeOK, PushByte, consVars
<1>2. Content'
  <2>1. ~(Offset(dwWritePos) < wcnt - rcnt)
    BY DEF IInv, TypeOK, Content, Ahead, Offset, Slots
  <2>2. \A s \in Slots : s # dwWritePos => pBuff'[s] = pBuff[s]
    BY DEF IInv, TypeOK, PushByte
  <2> QED BY <2>1, <2>2 DEF IInv, Content, Ahead, Offset, Unit, PushByte, consVars
<1>3. Writer'
  <2>1. pIdx \in Bytes /\ \A b \in Bytes : b < pIdx + 1 => b < pIdx \/ b = pIdx
    BY RingAssumption DEF IInv, TypeOK, PushByte, Bytes
  <2>2. \A b \in Bytes : pBuff'[dwWritePos][b] =
                            IF b = pIdx THEN wcnt + 1 ELSE pBuff[dwWritePos][b]
    BY <2>1 DEF IInv, TypeOK, PushByte
  <2>3. \A b \in Bytes : b < pIdx' => pBuff'[dwWritePos][b] = wcnt + 1
    BY <2>1, <2>2 DEF IInv, Writer, PushByte
  <2> QED BY <2>3 DEF IInv, Writer, PushByte, consVars
<1>4. Reader'
  BY DEF IInv, Reader, Unit, PushByte, consVars
<1> QED BY <1>1, <1>2, <1>3, <1>4 DEF IInv

\* Push: the complete unit becomes the newest one in use.
LEMMA PushPublishInv == ASSUME IInv, PushPublish PROVE IInv'
<1>1. dwWritePos' = IF dwWritePos + 1 = N THEN 0 ELSE dwWritePos + 1
  BY SuccIndex DEF PushPublish, IInv, TypeOK
<1>2. pLeft \in 1..(N - 1 - (wcnt - rcnt))
  BY DEF IInv, Writer, PushPublish
<1>3. TypeOK'
  BY <1>1, <1>2, RingAssumption DEF IInv, TypeOK, PushPublish, NextUnit, consVars, Slots
<1>4. Content'
  <2>1. (wcnt - rcnt)' = Ahead' /\ (wcnt - rcnt)' = wcnt - rcnt + 1
    <3>1. wcnt - rcnt = Ahead
      BY DEF IInv, Content
    <3>2. dwReadPos' = dwReadPos /\ rcnt' = rcnt /\ wcnt' = wcnt + 1
      BY DEF PushPublish, consVars
    <3> QED BY <1>1, <1>2, <3>1, <3>2, RingAssumption DEF IInv, TypeOK, Ahead, Slots
  <2>2. pBuff[dwWritePos] = Unit(wcnt + 1)
    BY RingAssumption DEF IInv, TypeOK, Writer, PushPublish, Unit, Bytes
  <2>3. Offset(dwWritePos) = wcnt - rcnt
    BY DEF IInv, Content, Ahead, Offset
  <2>4. \A s \in Slots : Offset(s) = wcnt - rcnt => s = dwWritePos
    <3>1. wcnt - rcnt = Ahead
      BY DEF IInv, Content
    <3> QED BY <3>1, RingAssumption DEF IInv, TypeOK, Ahead, Offset, Slots
  <2>5. ASSUME NEW s \in Slots, Offset(s) < wcnt - rcnt + 1
        PROVE  pBuff[s] = Unit(rcnt + 1 + Offset(s))
    <3>1. CASE Offset(s) < wcnt - rcnt
      BY <3>1 DEF IInv, Content
    <3>2. CASE Offset(s) = wcnt - rcnt
      <4>1. s = dwWritePos
        BY <3>2, <2>4
      <4>2. rcnt + 1 + Offset(s) = wcnt + 1
        BY <3>2 DEF IInv, TypeOK
      <4> QED BY <4>1, <4>2, <2>2
    <3>3. Offset(s) \in Int /\ wcnt - rcnt \in Int
      BY RingAssumption DEF IInv, TypeOK, Offset, Slots
    <3> HIDE DEF IInv
    <3> QED BY <3>1, <3>2, <3>3, <2>5
  <2> QED BY <2>1, <2>5 DEF Content, Offset, Unit, PushPublish, consVars
<1>5. Writer'
  BY <1>2, RingAssumption DEF IInv, TypeOK, Writer, PushPublish, NextUnit, consVars
<1>6. Reader'
  BY DEF IInv, TypeOK, Reader, Unit, PushPublish, consVars
<1> QED BY <1>3, <1>4, <1>5, <1>6 DEF IInv

\* A reader that starts: udp_send_period asks for what is in use.
LEMMA ReadInv ==
  ASSUME IInv, NEW want \in 1..(N - 1), Read(want) PROVE IInv'
<1>1. TypeOK'
  BY RingAssumption DEF IInv, TypeOK, Read, prodVars
<1>2. Content'
  BY DEF IInv, Content, Ahead, Offset, Unit, Read, prodVars
<1>3. Writer'
  BY DEF IInv, Writer, Read, prodVars
<1>4. Reader'
  BY DEF IInv, Reader, Unit, Read, prodVars
<1> QED BY <1>1, <1>2, <1>3, <1>4 DEF IInv

\* udp_send_period keeps the invariant.
LEMMA SendPeriodInv == ASSUME IInv, SendPeriod PROVE IInv'
<1>1. GetUsedSize = wcnt - rcnt /\ GetUsedSize \in 1..(N - 1)
  BY UsedIsAhead, AheadBound, RingAssumption DEF IInv, TypeOK, Content, SendPeriod
<1>2. cLeft' \in 1..(wcnt - rcnt) /\ cLeft' \in 1..(N - 1)
  BY <1>1, RingAssumption DEF SendPeriod
<1>3. TypeOK'
  <2>1. cLeft' \in 0..(N - 1) /\ cMode' = "send" /\ cPc' = "check"
    BY <1>2 DEF SendPeriod
  <2>2. UNCHANGED <<dwWritePos, dwReadPos, pBuff, prodVars, cIdx, pUnit,
                    delivered, rcnt, unfilled>>
    BY DEF SendPeriod
  <2> QED BY <2>1, <2>2 DEF IInv, TypeOK, prodVars
<1>4. Content'
  BY DEF IInv, Content, Ahead, Offset, Unit, SendPeriod, prodVars
<1>5. Writer'
  BY DEF IInv, Writer, SendPeriod, prodVars
<1>6. Reader'
  <2>1. /\ cPc' = "check" /\ unfilled' = unfilled /\ rcnt' = rcnt
        /\ wcnt' = wcnt /\ delivered' = delivered
    BY DEF SendPeriod, prodVars
  <2> QED BY <1>2, <2>1 DEF IInv, TypeOK, Reader, Unit
<1> QED BY <1>3, <1>4, <1>5, <1>6 DEF IInv

\* Pop: read_data meets the empty ring, udp_send_period never does.
LEMMA PopCheckInv == ASSUME IInv, PopCheck PROVE IInv'
<1>1. Empty => wcnt - rcnt = 0
  BY DEF IInv, TypeOK, Content, Ahead, Empty, Slots
<1>2. Empty => cMode = "read"
  BY <1>1 DEF IInv, TypeOK, Reader, PopCheck
<1>3. ~Empty => wcnt - rcnt >= 1
  <2>1. wcnt - rcnt = Ahead
    BY DEF IInv, Content
  <2> QED BY <2>1, RingAssumption DEF IInv, TypeOK, Ahead, Empty, Slots
<1>4. TypeOK'
  BY <1>2, RingAssumption DEF IInv, TypeOK, PopCheck, prodVars
<1>5. Content'
  BY DEF IInv, Content, Ahead, Offset, Unit, PopCheck, prodVars
<1>6. Writer'
  BY DEF IInv, Writer, PopCheck, prodVars
<1>7. Reader'
  BY <1>2, <1>3 DEF IInv, TypeOK, Reader, Unit, PopCheck, prodVars, Bytes
<1> QED BY <1>4, <1>5, <1>6, <1>7 DEF IInv

\* Pop: the slot at dwReadPos is in use, so every byte is the oldest unit's.
LEMMA PopByteInv == ASSUME IInv, PopByte PROVE IInv'
<1>1. cIdx \in Bytes /\ cIdx + 1 \in 0..UnitSize
  BY RingAssumption DEF IInv, TypeOK, PopByte, Bytes
<1>2. pBuff[dwReadPos] = Unit(rcnt + 1)
  <2>1. Offset(dwReadPos) = 0
    BY DEF IInv, TypeOK, Offset, Slots
  <2>2. Offset(dwReadPos) < wcnt - rcnt
    BY <2>1 DEF IInv, TypeOK, Reader, PopByte
  <2>3. pBuff[dwReadPos] = Unit(rcnt + 1 + Offset(dwReadPos))
    BY <2>2 DEF IInv, TypeOK, Content
  <2>4. rcnt + 1 + Offset(dwReadPos) = rcnt + 1
    BY <2>1 DEF IInv, TypeOK
  <2> QED BY <2>3, <2>4
<1>3. \A b \in Bytes : pUnit'[b] = IF b = cIdx THEN rcnt + 1 ELSE pUnit[b]
  BY <1>1, <1>2 DEF IInv, TypeOK, PopByte, Unit
<1>4. TypeOK'
  <2>1. pUnit' \in [Bytes -> Nat]
    BY <1>1 DEF IInv, TypeOK, PopByte
  <2> QED BY <1>1, <2>1 DEF IInv, TypeOK, PopByte, prodVars
<1>5. Content'
  BY DEF IInv, Content, Ahead, Offset, Unit, PopByte, prodVars
<1>6. Writer'
  BY DEF IInv, Writer, PopByte, prodVars
<1>7. Reader'
  <2>1. \A b \in Bytes : b < cIdx + 1 => b < cIdx \/ b = cIdx
    BY <1>1 DEF Bytes
  <2>2. \A b \in Bytes : b < cIdx' => pUnit'[b] = rcnt + 1
    BY <1>3, <2>1 DEF IInv, Reader, PopByte
  <2> QED BY <2>2 DEF IInv, Reader, Unit, PopByte, prodVars
<1> QED BY <1>4, <1>5, <1>6, <1>7 DEF IInv

\* Pop: the oldest unit leaves, the other ones move one place forward.
LEMMA PopAdvanceInv == ASSUME IInv, PopAdvance PROVE IInv'
<1>1. dwReadPos' = IF dwReadPos + 1 = N THEN 0 ELSE dwReadPos + 1
  BY SuccIndex DEF PopAdvance, IInv, TypeOK
<1>2. wcnt - rcnt = Ahead /\ Ahead \in 1..(N - 1)
  BY AheadBound DEF IInv, TypeOK, Content, Reader, PopAdvance
<1>3. rcnt' = rcnt + 1 /\ wcnt' = wcnt /\ dwWritePos' = dwWritePos /\ pBuff' = pBuff
  BY DEF PopAdvance, prodVars
<1>4. cLeft >= 1 /\ cLeft \in 0..(N - 1)
  BY DEF IInv, TypeOK, Reader, PopAdvance
<1>5. TypeOK'
  BY <1>1, <1>4, RingAssumption DEF IInv, TypeOK, PopAdvance, NextPop, prodVars, Slots
<1>6. Content'
  <2>1. (wcnt - rcnt)' = Ahead' /\ (wcnt - rcnt)' = wcnt - rcnt - 1
    BY <1>1, <1>2, <1>3, RingAssumption DEF IInv, TypeOK, Ahead, Slots
  <2>2. ASSUME NEW s \in Slots, Offset(s)' < wcnt - rcnt - 1
        PROVE  pBuff[s] = Unit(rcnt + 2 + Offset(s)')
    <3>1. Offset(s) = Offset(s)' + 1
      BY <1>1, <1>2, <2>2, RingAssumption DEF IInv, TypeOK, Offset, Slots
    <3>2. Offset(s) < wcnt - rcnt /\ rcnt + 1 + Offset(s) = rcnt + 2 + Offset(s)'
      BY <1>1, <2>2, <3>1, RingAssumption DEF IInv, TypeOK, Offset, Slots
    <3> QED BY <3>2 DEF IInv, Content
  <2>3. rcnt' + 1 = rcnt + 2
    BY <1>3 DEF IInv, TypeOK
  <2> QED BY <1>3, <2>1, <2>2, <2>3 DEF Content, Unit
<1>7. Writer'
  <2>1. pPc # "idle" => pLeft \in 1..(N - 1 - (wcnt' - rcnt'))
    BY <1>2, <1>3, RingAssumption DEF IInv, TypeOK, Writer
  <2> QED BY <2>1 DEF IInv, Writer, PopAdvance, prodVars
<1>8. Reader'
  <2>1. pUnit = Unit(rcnt + 1)
    BY RingAssumption DEF IInv, TypeOK, Reader, PopAdvance, Unit, Bytes
  <2>2. delivered' = Unit(rcnt)'
    BY <2>1 DEF PopAdvance, Unit
  <2>3. cPc' # "idle" => cLeft' >= 1 /\ (cMode' = "send" => cLeft' <= (wcnt - rcnt)')
    BY <1>2, <1>3, <1>4 DEF IInv, TypeOK, Reader, PopAdvance, NextPop
  <2> QED BY <2>2, <2>3 DEF IInv, Reader, PopAdvance, NextPop
<1> QED BY <1>5, <1>6, <1>7, <1>8 DEF IInv

\* Every step keeps the invariant.
LEMMA StepInv == ASSUME IInv, [Next]_vars PROVE IInv'
<1>1. CASE \E len \in 1..(N - 1) : Offer(len)
  BY <1>1, OfferInv
<1>2. CASE PushStep
  BY <1>2, PushCheckInv, PushByteInv, PushPublishInv DEF PushStep
<1>3. CASE \E want \in 1..(N - 1) : Read(want)
  BY <1>3, ReadInv
<1>4. CASE SendPeriod
  BY <1>4, SendPeriodInv
<1>5. CASE PopStep
  BY <1>5, PopCheckInv, PopByteInv, PopAdvanceInv DEF PopStep
<1>6. CASE UNCHANGED vars
  BY <1>6 DEF vars, prodVars, consVars, IInv, TypeOK, Content, Writer, Reader,
              Ahead, Offset, Unit
<1> QED BY <1>1, <1>2, <1>3, <1>4, <1>5, <1>6 DEF Next, Producer, Consumer

-----------------------------------------------------------------------------
(* The theorems.                                                           *)

\* IInv holds of every reachable state.
THEOREM Invariance == Spec => []IInv
<1>1. Init => IInv
  BY InitInv
<1>2. IInv /\ [Next]_vars => IInv'
  BY StepInv
<1> QED BY <1>1, <1>2, PTL DEF Spec

\* The indices stay within the ring and every variable in its type.
THEOREM TypeCorrect == Spec => []TypeOK
<1>1. IInv => TypeOK
  BY DEF IInv
<1> QED BY <1>1, Invariance, PTL

\* Ringbuff_GetUsedSize always agrees with the units pushed and popped, and
\* the slots in use hold those units complete and in order.
THEOREM UnitsInFlightIntact == Spec => []InFlightIntact
<1>1. IInv => InFlightIntact
  BY UsedIsAhead DEF IInv, TypeOK, Content, InFlightIntact
<1> QED BY <1>1, Invariance, PTL

\* Without any lock, one writer and one reader exchange the stream of units
\* with none lost, repeated, torn or reordered.
THEOREM UnitsDeliveredInOrder == Spec => []DeliveredInOrder
<1>1. IInv => DeliveredInOrder
  BY DEF IInv, Reader, DeliveredInOrder
<1> QED BY <1>1, Invariance, PTL

\* One free-space test for a batch is enough for all its pushes to succeed.
THEOREM NoPushRefused == Spec => []NoLossAfterCheck
<1>1. IInv => NoLossAfterCheck
  BY DEF IInv, Writer, NoLossAfterCheck
<1> QED BY <1>1, Invariance, PTL

\* One used-size test is enough for all the pops of udp_send_period.
THEOREM DatagramFilled == Spec => []SenderFillsDatagram
<1>1. IInv => SenderFillsDatagram
  BY DEF IInv, Reader, SenderFillsDatagram
<1> QED BY <1>1, Invariance, PTL

-----------------------------------------------------------------------------
(* RingBuff implements RingFifo.                                           *)

\* The n consecutive ordinals after a.
Ramp(a, n) == [i \in 1..n |-> a + i]

\* The consecutive ordinals are a sequence of numbers.
LEMMA RampIsSeq ==
  ASSUME NEW a \in Nat, NEW n \in Nat
  PROVE  Ramp(a, n) \in Seq(Nat) /\ Len(Ramp(a, n)) = n
BY DEF Ramp

\* A run of ordinals is two shorter ones in a row.
LEMMA RampAppend ==
  ASSUME NEW a \in Nat, NEW m \in Nat, NEW n \in Nat
  PROVE  Ramp(a, m + n) = Ramp(a, m) \o Ramp(a + m, n)
<1> DEFINE s == Ramp(a, m)  t == Ramp(a + m, n)  u == Ramp(a, m + n)
<1>1. /\ s \in Seq(Nat) /\ Len(s) = m
      /\ t \in Seq(Nat) /\ Len(t) = n
      /\ u \in Seq(Nat) /\ Len(u) = m + n
  <2>1. a + m \in Nat /\ m + n \in Nat
    OBVIOUS
  <2> QED BY <2>1, RampIsSeq
<1>2. /\ s \o t \in Seq(Nat) /\ Len(s \o t) = m + n
      /\ \A i \in 1..(m + n) : (s \o t)[i] = IF i <= m THEN s[i] ELSE t[i - m]
  <2> HIDE DEF s, t
  <2> QED BY <1>1, ConcatProperties
<1>3. \A i \in 1..(m + n) : u[i] = IF i <= m THEN s[i] ELSE t[i - m]
  BY DEF Ramp
<1>4. \A i \in 1..Len(u) : u[i] = (s \o t)[i]
  BY <1>1, <1>2, <1>3
<1> HIDE DEF s, t, u
<1>5. u = s \o t
  BY <1>1, <1>2, <1>4, SeqEqual
<1> QED BY <1>5 DEF s, t, u

\* The first of a run of ordinals, and the others.
LEMMA RampTail ==
  ASSUME NEW a \in Nat, NEW n \in Nat \ {0}
  PROVE  /\ Ramp(a, n) # << >>
         /\ Head(Ramp(a, n)) = a + 1
         /\ Tail(Ramp(a, n)) = Ramp(a + 1, n - 1)
<1> DEFINE s == Ramp(a, n)  t == Ramp(a + 1, n - 1)
<1>1. s \in Seq(Nat) /\ Len(s) = n /\ t \in Seq(Nat) /\ Len(t) = n - 1
  <2>1. a + 1 \in Nat /\ n - 1 \in Nat
    OBVIOUS
  <2> QED BY <2>1, RampIsSeq
<1>2. s # << >> /\ Head(s) = s[1] /\ s[1] = a + 1
  BY <1>1 DEF Ramp
<1>3. \A i \in 1..(n - 1) : t[i] = s[i + 1]
  BY DEF Ramp
<1>4. /\ Tail(s) \in Seq(Nat) /\ Len(Tail(s)) = n - 1
      /\ \A i \in 1..(n - 1) : Tail(s)[i] = s[i + 1]
  <2> HIDE DEF s
  <2> QED BY <1>1, <1>2, HeadTailProperties
<1> HIDE DEF s, t
<1>5. Tail(s) = t
  BY <1>1, <1>3, <1>4, SeqEqual
<1> QED BY <1>2, <1>5 DEF s, t

\* The abstract queue: the ordinals of the units accepted and not popped.
InFlight == Ramp(rcnt, accepted - rcnt)

\* The empty ring is the empty queue.
LEMMA InitMaps == ASSUME Init PROVE Fifo!Init
<1>1. [i \in 1..(accepted - rcnt) |-> rcnt + i] = << >>
  BY DEF Init
<1> QED BY <1>1 DEF Init, Fifo!Init, Fifo!Unit, Unit, Bytes

\* Taking a batch appends it to the queue.
LEMMA OfferMaps ==
  ASSUME IInv, NEW len \in 1..(N - 1), Offer(len) PROVE Fifo!Accept(len)
<1>1. rcnt \in Nat /\ len \in Nat /\ accepted - rcnt \in Nat
  BY AheadBound, RingAssumption DEF IInv, TypeOK, Content, Writer
<1>2. Len(InFlight) + len <= N - 1
  <2>1. pLeft = 0 /\ accepted = wcnt
    BY DEF IInv, TypeOK, Writer, Offer
  <2>2. len <= N - 1 - (wcnt - rcnt)
    BY FreeIsRest, AheadBound, RingAssumption DEF Offer, IInv, TypeOK, Content
  <2>3. Len(InFlight) = accepted - rcnt
    BY <1>1, RampIsSeq DEF InFlight
  <2> QED BY <2>1, <2>2, <2>3, RingAssumption DEF IInv, TypeOK
<1>3. accepted' = accepted + len /\ rcnt' = rcnt /\ delivered' = delivered
  BY DEF Offer, consVars
<1>4. InFlight' = InFlight \o Ramp(accepted, len)
  <2>1. Ramp(rcnt, (accepted - rcnt) + len)
          = Ramp(rcnt, accepted - rcnt) \o Ramp(rcnt + (accepted - rcnt), len)
    BY <1>1, RampAppend
  <2>2. (accepted - rcnt) + len = accepted' - rcnt' /\ rcnt + (accepted - rcnt) = accepted
    BY <1>1, <1>3 DEF IInv, TypeOK
  <2> QED BY <2>1, <2>2, <1>3 DEF InFlight
<1> QED BY <1>2, <1>3, <1>4 DEF Fifo!Accept, InFlight, Ramp

\* A pop that returns 0 delivers the head of the queue.
LEMMA PopMaps == ASSUME IInv, PopAdvance PROVE Fifo!Deliver
<1>1. rcnt \in Nat /\ accepted - rcnt \in Nat \ {0}
  BY RingAssumption DEF IInv, TypeOK, Writer, Reader, PopAdvance
<1>2. rcnt' = rcnt + 1 /\ accepted' = accepted
  BY DEF PopAdvance, prodVars
<1>3. InFlight # << >> /\ Head(InFlight) = rcnt + 1
  BY <1>1, RampTail DEF InFlight
<1>4. InFlight' = Tail(InFlight)
  <2>1. accepted' - rcnt' = (accepted - rcnt) - 1
    BY <1>1, <1>2 DEF IInv, TypeOK
  <2>2. Tail(InFlight) = Ramp(rcnt + 1, (accepted - rcnt) - 1)
    BY <1>1, RampTail DEF InFlight
  <2> QED BY <1>2, <2>1, <2>2 DEF InFlight
<1>5. delivered' = Unit(rcnt + 1)
  BY RingAssumption DEF IInv, TypeOK, Reader, PopAdvance, Unit, Bytes
<1>6. Fifo!Unit(Head(InFlight)) = Unit(rcnt + 1)
  BY <1>3 DEF Fifo!Unit, Unit, Bytes
<1> HIDE DEF IInv
<1> QED BY <1>2, <1>3, <1>4, <1>5, <1>6 DEF Fifo!Deliver, InFlight, Ramp

\* Every other step leaves the abstract queue alone.
LEMMA StepMaps == ASSUME IInv, [Next]_vars PROVE [Fifo!Next]_(Fifo!vars)
<1>1. CASE \E len \in 1..(N - 1) : Offer(len)
  BY <1>1, OfferMaps DEF Fifo!Next
<1>2. CASE PopAdvance
  BY <1>2, PopMaps DEF Fifo!Next
<1>3. CASE UNCHANGED <<accepted, rcnt, delivered>>
  BY <1>3 DEF Fifo!vars
<1>4. CASE PushStep \/ PopCheck \/ PopByte \/ SendPeriod \/ UNCHANGED vars
  <2>1. UNCHANGED <<accepted, rcnt, delivered>>
    BY <1>4 DEF PushStep, PushCheck, PushByte, PushPublish, PopCheck, PopByte,
                SendPeriod, vars, prodVars, consVars
  <2> QED BY <1>3, <2>1
<1>5. CASE \E want \in 1..(N - 1) : Read(want)
  <2>1. UNCHANGED <<accepted, rcnt, delivered>>
    BY <1>5 DEF Read, prodVars
  <2> QED BY <1>3, <2>1
<1> QED BY <1>1, <1>2, <1>4, <1>5 DEF Next, Producer, Consumer, PopStep

\* The lock-free ring is a bounded first-in first-out queue.
THEOREM RingImplementsFifo == Spec => FifoSpec
<1>1. Init => Fifo!Init
  BY InitMaps
<1>2. IInv /\ [Next]_vars => [Fifo!Next]_(Fifo!vars)
  BY StepMaps
<1> QED BY <1>1, <1>2, Invariance, PTL DEF Spec, FifoSpec, Fifo!Spec
=============================================================================
