----------------------------- MODULE UartProofs -----------------------------
(***************************************************************************)
(* Theorems of UartRx, UartTx and of the two together, for every size of   *)
(* the buffers and counters and number of bytes.  Reception: until the DMA *)
(* overruns the reader every byte is taken in order, the laps are counted  *)
(* once each, and a full buffer is noticed.  Sending: what a task puts in  *)
(* the ring while another one, the DMA and its interrupt take from it is   *)
(* neither lost nor sent twice.                                            *)
(***************************************************************************)
EXTENDS MCUart, TLAPS

(***************************************************************************)
(* Sending: the invariant.                                                 *)
(***************************************************************************)

Slots == 0..(TxSize - 1)

\* How far index j is ahead of index r, around the ring.
Ahead(r, j) == IF j >= r THEN j - r ELSE j - r + TxSize

\* The bytes in the ring.
Used == Ahead(iReadCnt, iWriteCnt)

\* What is left of a write, and the transfer of an idle DMA.
Bounded ==
    /\ in + left <= MaxSent
    /\ at # "out" => left >= 1
    /\ iFlg = "UART_SEND_END" => iLastSendCnt = 0 /\ taken = 0

\* The bytes between the indices are those put and not yet given back, in order.
Content ==
    /\ in - out = Used - taken
    /\ \A j \in Slots :
          Ahead(iReadCnt, j) < Used => DataBuf[j] = out - taken + 1 + Ahead(iReadCnt, j)

\* The transfer is of bytes in the ring.
Transfer == iLastSendCnt <= Used

\* The writer knows that the rest of its write fits, and has put its next byte.
Writer ==
    /\ at # "out" => Used + left < TxSize
    /\ at = "store" => reg = iWriteCnt
    /\ at \in {"load", "store"} => DataBuf[iWriteCnt] = in + 1

Unmixed == mixed = FALSE => Content /\ Transfer /\ Writer

TxIInv == TxTypeOK /\ Bounded /\ Unmixed

(***************************************************************************)
(* Sending: lemmas about the ring.                                         *)
(***************************************************************************)

\* An index that goes on by no more than the ring is taken around it once.
LEMMA Around ==
    ASSUME NEW m \in Nat, m > 0, NEW a \in Nat, a < 2 * m
    PROVE  a % m = IF a < m THEN a ELSE a - m
<1>1. CASE a < m
    BY <1>1
<1>2. CASE a >= m
    <2>1. a - m \in 0..(m - 1) /\ a = m * 1 + (a - m)
        BY <1>2
    <2>2. QED
        BY <1>2, <2>1
<1>3. QED
    BY <1>1, <1>2

\* The constants are numbers, and the ring has two bytes or more.
LEMMA TxSizes == TxSize \in Nat /\ TxSize >= 2 /\ MaxLen \in Nat /\ MaxSent \in Nat
BY UartTxAssumption

\* The distance of two indices is below the size of the ring.
LEMMA AheadType ==
    ASSUME NEW r \in Slots, NEW j \in Slots
    PROVE  Ahead(r, j) \in Slots
BY TxSizes DEF Ahead, Slots

\* The index after j.
LEMMA NextIndex ==
    ASSUME NEW r \in Slots, NEW j \in Slots, Ahead(r, j) + 1 < TxSize
    PROVE  /\ (j + 1) % TxSize \in Slots
           /\ Ahead(r, (j + 1) % TxSize) = Ahead(r, j) + 1
<1>1. (j + 1) % TxSize = IF j + 1 < TxSize THEN j + 1 ELSE j + 1 - TxSize
    BY Around, TxSizes DEF Slots
<1>2. QED
    BY <1>1, TxSizes DEF Slots, Ahead

\* The index d behind r.
LEMMA IndexAt ==
    ASSUME NEW r \in Slots, NEW d \in Slots
    PROVE  (r + d) % TxSize \in Slots /\ Ahead(r, (r + d) % TxSize) = d
<1>1. (r + d) % TxSize = IF r + d < TxSize THEN r + d ELSE r + d - TxSize
    BY Around, TxSizes DEF Slots
<1>2. QED
    BY <1>1, TxSizes DEF Slots, Ahead

\* Indices at the same distance are the same.
LEMMA AheadInjective ==
    ASSUME NEW r \in Slots, NEW i \in Slots, NEW j \in Slots, Ahead(r, i) = Ahead(r, j)
    PROVE  i = j
BY TxSizes DEF Slots, Ahead

\* The bytes in the ring, as BSP_USARTx_DMA_Send counts them.
LEMMA CountIsUsed ==
    ASSUME iReadCnt \in Slots, iWriteCnt \in Slots
    PROVE  iCnt = Used
<1> DEFINE a == TxSize - iReadCnt + iWriteCnt
<1>1. a \in Nat /\ a < 2 * TxSize
    BY TxSizes DEF Slots
<1>2. (IF a < TxSize THEN a ELSE a - TxSize) = Used
    BY TxSizes DEF Used, Ahead, Slots
<1>3. iCnt = a % TxSize
    BY DEF iCnt
<1> HIDE DEF a
<1>4. TxSize \in Nat /\ TxSize > 0
    BY TxSizes
<1>5. a % TxSize = IF a < TxSize THEN a ELSE a - TxSize
    BY <1>1, <1>4, Around
<1>6. QED
    BY <1>2, <1>3, <1>5

\* What the variables are, as facts of their own.
LEMMA TxTyped ==
    ASSUME TxIInv
    PROVE  /\ DataBuf \in [Slots -> 0..MaxSent]
           /\ iReadCnt \in Slots /\ iWriteCnt \in Slots /\ reg \in Slots
           /\ iLastSendCnt \in Nat /\ iLastSendCnt <= TxSize - iReadCnt
           /\ taken \in Nat /\ taken <= iLastSendCnt
           /\ left \in Nat /\ left <= MaxLen
           /\ in \in Nat /\ in <= MaxSent /\ out \in Nat
           /\ in + left <= MaxSent
           /\ Used \in Slots
<1>1. iReadCnt \in Slots /\ iWriteCnt \in Slots /\ reg \in Slots
    BY DEF TxIInv, TxTypeOK, Slots
<1>2. Used \in Slots
    BY <1>1, AheadType DEF Used
<1>3. DataBuf \in [Slots -> 0..MaxSent]
    BY DEF TxIInv, TxTypeOK, Slots
<1>4. iLastSendCnt \in 0..(TxSize - iReadCnt) /\ taken \in 0..iLastSendCnt
    BY DEF TxIInv, TxTypeOK
<1>5. iLastSendCnt \in Nat /\ iLastSendCnt <= TxSize - iReadCnt /\ taken \in Nat /\ taken <= iLastSendCnt
    BY <1>1, <1>4, TxSizes DEF Slots
<1>6. left \in 0..MaxLen /\ in \in 0..MaxSent /\ out \in Nat /\ in + left <= MaxSent
    BY DEF TxIInv, TxTypeOK, Bounded
<1>7. QED
    BY <1>1, <1>2, <1>3, <1>5, <1>6, TxSizes

(***************************************************************************)
(* Sending: the induction.                                                 *)
(***************************************************************************)

\* The first state satisfies the invariant.
LEMMA TxInitIInv == TxInit => TxIInv
<1> SUFFICES ASSUME TxInit PROVE TxIInv
    OBVIOUS
<1>1. TxTypeOK
    <2>1. 0 \in 0..(TxSize - 1) /\ 0 \in 0..MaxSent /\ 0 \in 0..MaxLen /\ 0 \in 0..(TxSize - 0)
        BY TxSizes
    <2>2. DataBuf \in [0..(TxSize - 1) -> 0..MaxSent]
        BY <2>1 DEF TxInit
    <2>3. {iReadCnt, iWriteCnt, reg} \subseteq 0..(TxSize - 1) /\ taken \in 0..iLastSendCnt
        BY <2>1 DEF TxInit
    <2>4. locked \in BOOLEAN /\ mixed \in BOOLEAN
        BY DEF TxInit
    <2>5. QED
        BY <2>1, <2>2, <2>3, <2>4 DEF TxInit, TxTypeOK
<1>2. Bounded
    BY TxSizes DEF TxInit, Bounded
<1>3. Used = 0
    BY TxSizes DEF TxInit, Used, Ahead
<1>4. \A j \in Slots : Ahead(iReadCnt, j) \in Nat
    BY TxSizes DEF TxInit, Ahead, Slots
<1>5. Content /\ Transfer /\ Writer
    BY <1>3, <1>4, TxSizes DEF TxInit, Content, Transfer, Writer
<1>6. QED
    BY <1>1, <1>2, <1>5 DEF TxIInv, Unmixed

\* A write that fits begins.
LEMMA SendIInv ==
    ASSUME TxIInv, NEW len \in 1..MaxLen, Send(len)
    PROVE  TxIInv'
<1>1. /\ at = "out" /\ in + len <= MaxSent /\ Fits(len) /\ at' = "put" /\ left' = len
      /\ locked' \in BOOLEAN
      /\ UNCHANGED <<ring, dmaTx, reg, mixed>>
    BY DEF Send
<1>2. len \in Nat /\ len >= 1 /\ len \in 0..MaxLen
    BY TxSizes
<1>3. TxTypeOK'
    BY <1>1, <1>2 DEF TxIInv, TxTypeOK, ring, dmaTx
<1>4. Bounded'
    BY <1>1, <1>2 DEF TxIInv, Bounded, ring, dmaTx
<1>5. Used + len < TxSize
    BY <1>1, CountIsUsed, TxTyped DEF Fits
<1>6. Unmixed'
    BY <1>1, <1>5 DEF TxIInv, Unmixed, Content, Transfer, Writer, Used, ring, dmaTx
<1>7. QED
    BY <1>3, <1>4, <1>6 DEF TxIInv

\* A byte is put behind those in the ring.
LEMMA PutIInv ==
    ASSUME TxIInv, Put
    PROVE  TxIInv'
<1>1. /\ at = "put" /\ at' = "load"
      /\ DataBuf' = [DataBuf EXCEPT ![iWriteCnt] = in + 1]
      /\ UNCHANGED <<iWriteCnt, in, dmaTx, left, reg, locked, mixed>>
    BY DEF Put
<1>2. left >= 1
    BY <1>1 DEF TxIInv, Bounded
<1>3. TxTypeOK'
    <2>1. in + 1 \in 0..MaxSent
        BY <1>2, TxTyped, TxSizes
    <2>2. DataBuf' \in [0..(TxSize - 1) -> 0..MaxSent]
        BY <1>1, <2>1 DEF TxIInv, TxTypeOK
    <2>3. QED
        BY <1>1, <2>2 DEF TxIInv, TxTypeOK, dmaTx
<1>4. Bounded'
    BY <1>1 DEF TxIInv, Bounded, dmaTx
<1>5. Unmixed'
    <2>1. SUFFICES ASSUME mixed = FALSE PROVE (Content /\ Transfer /\ Writer)'
        BY <1>1 DEF Unmixed
    <2>2. Content /\ Transfer /\ Writer
        BY <2>1 DEF TxIInv, Unmixed
    <2>3. Used' = Used /\ UNCHANGED <<iReadCnt, iWriteCnt, in, out, taken, iLastSendCnt, left>>
        BY <1>1 DEF Used, dmaTx
    <2>4. ASSUME NEW j \in Slots, Ahead(iReadCnt, j) < Used
          PROVE  DataBuf'[j] = DataBuf[j]
        <3>1. j # iWriteCnt
            BY <2>4, TxTyped, AheadType DEF Used, Slots
        <3>2. QED
            BY <1>1, <3>1, TxTyped
    <2>5. Content'
        BY <2>2, <2>3, <2>4 DEF Content
    <2>6. DataBuf'[iWriteCnt] = in + 1
        BY <1>1, TxTyped
    <2>7. Transfer' /\ Writer'
        BY <1>1, <2>2, <2>3, <2>6 DEF Transfer, Writer
    <2>8. QED
        BY <2>5, <2>7
<1>6. QED
    BY <1>3, <1>4, <1>5 DEF TxIInv

\* The writer loads iWriteCnt.
LEMMA LoadWriteIInv ==
    ASSUME TxIInv, LoadWrite
    PROVE  TxIInv'
<1>1. /\ at = "load" /\ at' = "store" /\ reg' = iWriteCnt
      /\ UNCHANGED <<ring, dmaTx, left, locked, mixed>>
    BY DEF LoadWrite
<1>2. TxTypeOK'
    BY <1>1 DEF TxIInv, TxTypeOK, ring, dmaTx
<1>3. Bounded' /\ Unmixed'
    BY <1>1 DEF TxIInv, Bounded, Unmixed, Content, Transfer, Writer, Used, ring, dmaTx
<1>4. QED
    BY <1>2, <1>3 DEF TxIInv

\* The byte at iWriteCnt becomes one of those in the ring: iWriteCnt goes to w.
LEMMA OneMore ==
    ASSUME TxIInv, mixed = FALSE, Used + 1 < TxSize, DataBuf'[iWriteCnt] = in + 1,
           \A j \in Slots \ {iWriteCnt} : DataBuf'[j] = DataBuf[j],
           iWriteCnt' = (iWriteCnt + 1) % TxSize, in' = in + 1, UNCHANGED dmaTx
    PROVE  Content' /\ Transfer' /\ Used' = Used + 1
<1> /\ Used \in Nat /\ in \in Nat /\ out \in Nat /\ taken \in Nat /\ iLastSendCnt \in Nat
    /\ iReadCnt \in Slots /\ iWriteCnt \in Slots
    BY TxTyped DEF Slots
<1>1. in - out = Used - taken /\ iLastSendCnt <= Used
    BY DEF TxIInv, Unmixed, Content, Transfer
<1>2. UNCHANGED <<iReadCnt, out, taken, iLastSendCnt>>
    BY DEF dmaTx
<1>3. Used' = Used + 1
    BY <1>2, NextIndex DEF Used
<1>4. ASSUME NEW j \in Slots, Ahead(iReadCnt, j) < Used + 1
      PROVE  DataBuf'[j] = out - taken + 1 + Ahead(iReadCnt, j)
    <2>1. Ahead(iReadCnt, j) \in Slots
        BY AheadType
    <2>2. Ahead(iReadCnt, j) \in Nat
        BY <2>1 DEF Slots
    <2>3. CASE j = iWriteCnt
        <3>1. Ahead(iReadCnt, j) = Used
            BY <2>3 DEF Used
        <3>2. out - taken + 1 + Used = in + 1
            BY <1>1
        <3>3. QED
            BY <2>3, <3>1, <3>2
    <2>4. CASE j # iWriteCnt
        <3>1. Ahead(iReadCnt, j) # Used
            BY <2>4, AheadInjective DEF Used
        <3>2. Ahead(iReadCnt, j) < Used
            BY <1>4, <2>2, <3>1
        <3>3. DataBuf[j] = out - taken + 1 + Ahead(iReadCnt, j)
            BY <3>2 DEF TxIInv, Unmixed, Content
        <3>4. QED
            BY <2>4, <3>3
    <2>5. QED
        BY <2>3, <2>4
<1>5. in' - out' = Used' - taken' /\ iLastSendCnt' <= Used'
    BY <1>1, <1>2, <1>3
<1>6. \A j \in Slots : Ahead(iReadCnt, j) < Used + 1 => DataBuf'[j] = out - taken + 1 + Ahead(iReadCnt, j)
    BY <1>4
<1>7. Content' /\ Transfer'
    BY <1>2, <1>3, <1>5, <1>6 DEF Content, Transfer
<1>8. QED
    BY <1>3, <1>7

\* The next index is one of the ring, whatever was loaded before.
LEMMA NextTyped ==
    ASSUME NEW j \in Slots
    PROVE  (j + 1) % TxSize \in 0..(TxSize - 1)
<1>1. (j + 1) % TxSize = IF j + 1 < TxSize THEN j + 1 ELSE j + 1 - TxSize
    BY Around, TxSizes DEF Slots
<1>2. QED
    BY <1>1, TxSizes DEF Slots

\* The writer stores iWriteCnt: the byte counts.
LEMMA StoreWriteIInv ==
    ASSUME TxIInv, StoreWrite
    PROVE  TxIInv'
<1>1. /\ at = "store" /\ at' = IF left = 1 THEN "out" ELSE "put"
      /\ iWriteCnt' = (reg + 1) % TxSize /\ in' = in + 1 /\ left' = left - 1
      /\ UNCHANGED <<DataBuf, dmaTx, reg, locked, mixed>>
    BY DEF StoreWrite
<1>2. left >= 1 /\ left \in Nat /\ left <= MaxLen /\ in \in Nat /\ in + left <= MaxSent
    BY <1>1, TxTyped DEF TxIInv, Bounded
<1>3. TxTypeOK'
    <2>1. in' \in 0..MaxSent /\ left' \in 0..MaxLen
        BY <1>1, <1>2, TxSizes
    <2>2. iWriteCnt' \in 0..(TxSize - 1)
        BY <1>1, NextTyped, TxTyped
    <2>3. QED
        BY <1>1, <2>1, <2>2 DEF TxIInv, TxTypeOK, dmaTx
<1>4. Bounded'
    <2>1. in' + left' <= MaxSent
        BY <1>1, <1>2, TxSizes
    <2>2. at' # "out" => left' >= 1
        BY <1>1, <1>2
    <2>3. QED
        BY <1>1, <2>1, <2>2 DEF TxIInv, Bounded, dmaTx
<1>5. Unmixed'
    <2>1. SUFFICES ASSUME mixed = FALSE PROVE (Content /\ Transfer /\ Writer)'
        BY <1>1 DEF Unmixed
    <2>2. Used + left < TxSize /\ reg = iWriteCnt /\ DataBuf[iWriteCnt] = in + 1
        BY <1>1, <2>1 DEF TxIInv, Unmixed, Writer
    <2>3. Used \in Nat /\ Used + 1 < TxSize
        BY <1>2, <2>2, TxTyped, TxSizes DEF Slots
    <2>4. Content' /\ Transfer' /\ Used' = Used + 1
        BY <1>1, <2>1, <2>2, <2>3, OneMore
    <2>5. Used' + left' < TxSize
        BY <1>1, <1>2, <2>2, <2>3, <2>4, TxSizes
    <2>6. Writer'
        BY <1>1, <2>5 DEF Writer
    <2>7. QED
        BY <2>4, <2>6
<1>6. QED
    BY <1>3, <1>4, <1>5 DEF TxIInv

\* The system task puts a byte between two writes, or mixes it into one.
LEMMA SystemSendIInv ==
    ASSUME TxIInv, SystemSend
    PROVE  TxIInv'
<1>1. /\ in + left < MaxSent /\ Fits(1)
      /\ DataBuf' = [DataBuf EXCEPT ![iWriteCnt] = in + 1]
      /\ iWriteCnt' = (iWriteCnt + 1) % TxSize /\ in' = in + 1
      /\ mixed' = (mixed \/ at # "out")
      /\ UNCHANGED <<dmaTx, writer>>
    BY DEF SystemSend
<1>2. left \in Nat /\ in \in Nat /\ in + 1 \in 0..MaxSent /\ in + 1 + left <= MaxSent
    BY <1>1, TxTyped, TxSizes
<1>3. TxTypeOK'
    <2>1. DataBuf' \in [0..(TxSize - 1) -> 0..MaxSent]
        BY <1>1, <1>2 DEF TxIInv, TxTypeOK
    <2>2. iWriteCnt' \in 0..(TxSize - 1)
        BY <1>1, NextTyped, TxTyped
    <2>3. mixed' \in BOOLEAN
        BY <1>1
    <2>4. QED
        BY <1>1, <1>2, <2>1, <2>2, <2>3 DEF TxIInv, TxTypeOK, dmaTx, writer
<1>4. Bounded'
    BY <1>1, <1>2 DEF TxIInv, Bounded, dmaTx, writer
<1>5. Unmixed'
    <2>1. SUFFICES ASSUME mixed' = FALSE PROVE (Content /\ Transfer /\ Writer)'
        BY DEF Unmixed
    <2>2. mixed = FALSE /\ at = "out"
        BY <1>1, <2>1 DEF TxIInv, TxTypeOK
    <2>3. Used + 1 < TxSize
        BY <1>1, CountIsUsed, TxTyped DEF Fits
    <2>4. DataBuf'[iWriteCnt] = in + 1 /\ \A j \in Slots \ {iWriteCnt} : DataBuf'[j] = DataBuf[j]
        BY <1>1, TxTyped
    <2>5. Content' /\ Transfer'
        BY <1>1, <2>2, <2>3, <2>4, OneMore
    <2>6. Writer'
        BY <1>1, <2>2 DEF Writer, writer
    <2>7. QED
        BY <2>5, <2>6
<1>6. QED
    BY <1>3, <1>4, <1>5 DEF TxIInv

\* A transfer begins: what it takes is in the ring and does not pass the end of
\* the buffer.
LEMMA DmaSendPeriodIInv ==
    ASSUME TxIInv, DmaSendPeriod
    PROVE  TxIInv'
<1>1. /\ iFlg = "UART_SEND_END" /\ iReadCnt # iWriteCnt
      /\ iLastSendCnt' = Contiguous /\ taken' = 0 /\ iFlg' = "UART_SENDING"
      /\ UNCHANGED <<ring, iReadCnt, out, writer, mixed>>
    BY DEF DmaSendPeriod
<1>2. taken = 0
    BY <1>1 DEF TxIInv, Bounded
<1>3. Contiguous \in 0..(TxSize - iReadCnt) /\ 0 \in 0..Contiguous /\ Contiguous <= Used
    <2>1. iReadCnt \in Slots /\ iWriteCnt \in Slots
        BY TxTyped
    <2>2. CASE iWriteCnt > iReadCnt
        <3>1. Contiguous = iWriteCnt - iReadCnt /\ Used = iWriteCnt - iReadCnt
            BY <2>1, <2>2, TxSizes DEF Contiguous, Used, Ahead, Slots
        <3>2. QED
            BY <2>1, <2>2, <3>1, TxSizes DEF Slots
    <2>3. CASE iWriteCnt < iReadCnt
        <3>1. Contiguous = TxSize - iReadCnt /\ Used = iWriteCnt - iReadCnt + TxSize
            BY <2>1, <2>3, TxSizes DEF Contiguous, Used, Ahead, Slots
        <3>2. QED
            BY <2>1, <2>3, <3>1, TxSizes DEF Slots
    <2>4. QED
        BY <1>1, <2>1, <2>2, <2>3, TxSizes DEF Slots
<1>4. TxTypeOK'
    BY <1>1, <1>3 DEF TxIInv, TxTypeOK, ring, writer
<1>5. Bounded'
    BY <1>1 DEF TxIInv, Bounded, ring, writer
<1>6. Unmixed'
    BY <1>1, <1>2, <1>3 DEF TxIInv, Unmixed, Content, Transfer, Writer, Used, ring, writer
<1>7. QED
    BY <1>4, <1>5, <1>6 DEF TxIInv

\* The DMA sends a byte.
LEMMA DmaByteIInv ==
    ASSUME TxIInv, DmaByte
    PROVE  TxIInv'
<1>1. /\ iFlg = "UART_SENDING" /\ taken < iLastSendCnt /\ taken' = taken + 1 /\ out' = out + 1
      /\ UNCHANGED <<ring, iReadCnt, iLastSendCnt, iFlg, writer, mixed>>
    BY DEF DmaByte
<1>2. taken \in Nat /\ out \in Nat /\ in \in Nat /\ Used \in Nat /\ iLastSendCnt \in Nat
    BY TxTyped DEF Slots
<1>3. taken' \in 0..iLastSendCnt /\ out' \in Nat /\ out' - taken' = out - taken
    BY <1>1, <1>2
<1>4. TxTypeOK'
    BY <1>1, <1>3 DEF TxIInv, TxTypeOK, ring, writer
<1>5. Bounded'
    BY <1>1 DEF TxIInv, Bounded, ring, writer
<1>6. ASSUME Content PROVE Content'
    <2>1. Used' = Used /\ UNCHANGED <<DataBuf, in, iReadCnt>>
        BY <1>1 DEF Used, ring
    <2>2. in' - out' = Used' - taken'
        BY <1>1, <1>2, <1>6, <2>1 DEF Content
    <2>3. QED
        BY <1>3, <1>6, <2>1, <2>2 DEF Content
<1>7. Unmixed'
    BY <1>1, <1>6 DEF TxIInv, Unmixed, Transfer, Writer, Used, ring, writer
<1>8. QED
    BY <1>4, <1>5, <1>7 DEF TxIInv

\* The room of a transfer that is done is given back.
LEMMA SendSuccIInv ==
    ASSUME TxIInv, SendSucc
    PROVE  TxIInv'
<1>1. /\ taken = iLastSendCnt /\ iReadCnt' = (iReadCnt + iLastSendCnt) % TxSize
      /\ iLastSendCnt' = 0 /\ taken' = 0 /\ iFlg' = "UART_SEND_END"
      /\ UNCHANGED <<ring, out, writer, mixed>>
    BY DEF SendSucc
<1>2. /\ iReadCnt \in Slots /\ iWriteCnt \in Slots /\ iLastSendCnt \in Nat
      /\ iLastSendCnt <= TxSize - iReadCnt /\ out \in Nat /\ in \in Nat /\ left \in Nat /\ Used \in Nat
    BY TxTyped DEF Slots
<1>3. iReadCnt' = IF iReadCnt + iLastSendCnt = TxSize THEN 0 ELSE iReadCnt + iLastSendCnt
    <2>1. iReadCnt + iLastSendCnt \in Nat /\ iReadCnt + iLastSendCnt <= TxSize
        BY <1>2, TxSizes DEF Slots
    <2>2. QED
        BY <1>1, <2>1, Around, TxSizes
<1>4. iReadCnt' \in Slots
    BY <1>2, <1>3, TxSizes DEF Slots
<1>5. TxTypeOK'
    <2>1. iLastSendCnt' \in 0..(TxSize - iReadCnt') /\ taken' \in 0..iLastSendCnt'
        BY <1>1, <1>4, TxSizes DEF Slots
    <2>2. {iReadCnt', iWriteCnt', reg'} \subseteq 0..(TxSize - 1)
        BY <1>1, <1>4, TxTyped DEF ring, writer, Slots
    <2>3. QED
        BY <1>1, <2>1, <2>2 DEF TxIInv, TxTypeOK, ring, writer
<1>6. Bounded'
    BY <1>1 DEF TxIInv, Bounded, ring, writer
<1>7. Unmixed'
    <2>1. SUFFICES ASSUME mixed = FALSE PROVE (Content /\ Transfer /\ Writer)'
        BY <1>1 DEF Unmixed
    <2>2. Content /\ Transfer /\ Writer
        BY <2>1 DEF TxIInv, Unmixed
    <2>3. ASSUME NEW j \in Slots
          PROVE  Ahead(iReadCnt', j) = IF Ahead(iReadCnt, j) >= iLastSendCnt
                                       THEN Ahead(iReadCnt, j) - iLastSendCnt
                                       ELSE Ahead(iReadCnt, j) - iLastSendCnt + TxSize
        BY <1>2, <1>3, TxSizes DEF Ahead, Slots
    <2>4. Used' = Used - iLastSendCnt /\ iLastSendCnt <= Used
        <3>1. iLastSendCnt <= Used
            BY <2>2 DEF Transfer
        <3>2. QED
            BY <1>1, <1>2, <2>3, <3>1 DEF Used, ring
    <2>5. ASSUME NEW j \in Slots, Ahead(iReadCnt', j) < Used'
          PROVE  DataBuf[j] = out + 1 + Ahead(iReadCnt', j)
        <3>1. Ahead(iReadCnt, j) \in Nat /\ Used < TxSize
            BY <1>2, TxTyped, AheadType, TxSizes DEF Slots
        <3>2. Ahead(iReadCnt, j) >= iLastSendCnt
            BY <1>2, <2>3, <2>4, <2>5, <3>1, TxSizes
        <3>3. Ahead(iReadCnt', j) = Ahead(iReadCnt, j) - iLastSendCnt /\ Ahead(iReadCnt, j) < Used
            BY <1>2, <2>3, <2>4, <2>5, <3>1, <3>2, TxSizes
        <3>4. DataBuf[j] = out - taken + 1 + Ahead(iReadCnt, j)
            BY <2>2, <3>3 DEF Content
        <3>5. QED
            BY <1>1, <1>2, <3>1, <3>3, <3>4
    <2>6. Content'
        <3>1. in' - out' = Used' - taken'
            BY <1>1, <1>2, <2>2, <2>4 DEF Content, ring
        <3>2. \A j \in Slots : Ahead(iReadCnt', j) < Used' => DataBuf'[j] = out' - taken' + 1 + Ahead(iReadCnt', j)
            BY <1>1, <1>2, <2>5 DEF ring
        <3>3. QED
            BY <3>1, <3>2 DEF Content
    <2>7. Transfer'
        BY <1>1, <1>2, <2>4 DEF Transfer
    <2>8. Writer'
        <3>1. Used' <= Used
            BY <1>2, <2>4
        <3>2. at # "out" => Used' + left < TxSize
            BY <1>2, <2>2, <2>4, TxSizes DEF Writer
        <3>3. QED
            BY <1>1, <2>2, <3>2 DEF Writer, ring, writer
    <2>9. QED
        BY <2>6, <2>7, <2>8
<1>8. QED
    BY <1>5, <1>6, <1>7 DEF TxIInv

\* The invariant holds in every reachable state.
LEMMA TxInvariance == TxSpec => []TxIInv
<1>1. TxIInv /\ [TxNext]_txVars => TxIInv'
    <2>1. SUFFICES ASSUME TxIInv, [TxNext]_txVars PROVE TxIInv'
        OBVIOUS
    <2>2. CASE TxNext
        BY <2>1, <2>2, SendIInv, PutIInv, LoadWriteIInv, StoreWriteIInv, SystemSendIInv, DmaSendPeriodIInv,
           DmaByteIInv, SendSuccIInv DEF TxNext
    <2>3. CASE UNCHANGED txVars
        BY <2>1, <2>3 DEF txVars, ring, dmaTx, writer, TxIInv, TxTypeOK, Bounded, Unmixed, Content, Transfer,
                          Writer, Used
    <2>4. QED
        BY <2>1, <2>2, <2>3
<1>2. QED
    BY <1>1, TxInitIInv, PTL DEF TxSpec

(***************************************************************************)
(* Sending: the theorems.                                                  *)
(***************************************************************************)

\* The indices stay in the ring and the DMA inside the buffer, even when two
\* tasks have mixed their writes.
THEOREM TransferInBuffer == TxSpec => []TxTypeOK
<1>1. TxIInv => TxTypeOK
    BY DEF TxIInv
<1>2. QED
    BY <1>1, TxInvariance, PTL

\* What is in the ring and not yet sent is the rest of what was put there, in
\* order and complete, unless the system task prints inside another task's write.
THEOREM RingIsIntact == TxSpec => []UnsentIntact
<1>1. ASSUME TxIInv PROVE UnsentIntact
    <2>1. SUFFICES ASSUME mixed = FALSE
                   PROVE  /\ in - out = iCnt - taken
                          /\ \A i \in 0..(in - out - 1) :
                                DataBuf[(iReadCnt + taken + i) % TxSize] = out + 1 + i
        BY <1>1 DEF UnsentIntact, TxIInv, TxTypeOK
    <2>2. Content
        BY <1>1, <2>1 DEF TxIInv, Unmixed
    <2>3. in - out = iCnt - taken
        BY <1>1, <2>2, CountIsUsed, TxTyped DEF Content
    <2>4. /\ iReadCnt \in Slots /\ Used \in Slots /\ taken \in Nat /\ out \in Nat /\ in \in Nat
          /\ in - out = Used - taken
        BY <1>1, <2>2, TxTyped DEF Content
    <2>5. ASSUME NEW i \in 0..(in - out - 1)
          PROVE  DataBuf[(iReadCnt + taken + i) % TxSize] = out + 1 + i
        <3>1. taken + i \in Slots /\ taken + i < Used /\ i \in Nat
            BY <2>4, TxSizes DEF Slots
        <3>2. iReadCnt + (taken + i) = iReadCnt + taken + i
            BY <2>4, <3>1 DEF Slots
        <3>3. /\ (iReadCnt + taken + i) % TxSize \in Slots
              /\ Ahead(iReadCnt, (iReadCnt + taken + i) % TxSize) = taken + i
            BY <2>4, <3>1, <3>2, IndexAt
        <3>4. DataBuf[(iReadCnt + taken + i) % TxSize] = out - taken + 1 + (taken + i)
            BY <2>2, <3>1, <3>3 DEF Content
        <3>5. QED
            BY <2>4, <3>1, <3>4
    <2>6. QED
        BY <2>3, <2>5
<1>2. QED
    BY <1>1, TxInvariance, PTL

(***************************************************************************)
(* Reception: the invariant.                                               *)
(***************************************************************************)

\* The task has begun to take a byte; it is in the branch at the end of the buffer,
\* or in the other one.
Taking   == pc = "read" \/ Holding
Wrapping == pc \in {"wrap_load", "wrap_store", "wrap_zero"}
Adding   == pc \in {"inc_load", "inc_store"}

\* What is known of the interrupts: a lap ends with a byte, an idle line has none
\* under way, and the write counter of an interrupt is that of the line.
Line ==
    /\ full => busy
    /\ idle => ~busy /\ isr = "none"
    /\ isr = "check" => dma /\ (busy \/ usWriteCnt = pos)

\* Where the reader is, if no interrupt moved it inside Get_Char.
Reader ==
    ~cut =>
        /\ usReadCnt < Size
        /\ Wrapping => usReadCnt = Size - 1
        /\ Adding => usReadCnt + 1 < Size
        /\ pc = "inc_store" => tmp = usReadCnt

\* The positions of the DMA and of the reader are those of the bytes stored and
\* taken; the reader stays behind a byte that was there when the line was last idle.
Epoch ==
    /\ base + put <= n /\ pos = put % Size
    /\ dma =>
         /\ ~cut /\ base + put = n
         /\ usReadCnt = got % Size
         /\ ~over => put - got <= Size
         /\ \E w \in got..put : usWriteCnt = w % Size /\ (Taking => w > got)

\* The last bytes stored are in the buffer, and one of them in the reader's hand.
Stored ==
    dma =>
        /\ \A k \in 0..(put - 1) : k + Size >= put => buf[k % Size] = base + k + 1
        /\ Holding /\ ~over => byte = base + got + 1

\* The laps of the reader and those counted make the laps of the DMA, with one whose
\* interrupt is pending and one that the reader has taken off but not yet finished.
Laps ==
    dma /\ ~raced /\ ~round =>
        /\ put \div Size = usWriteCntbackup + (got \div Size)
                           + (IF full THEN 1 ELSE 0) + (IF pc = "wrap_zero" THEN 1 ELSE 0)
        /\ pc = "wrap_store" => tmp = usWriteCntbackup

\* Nothing came since an overflow was last looked for.
Quiet == ~busy /\ ~idle /\ isr = "none"

Noticed == dma /\ ~raced /\ ~round /\ ~halved /\ Quiet => put - got < Size

RxIInv == TypeOK /\ Line /\ Reader /\ Epoch /\ Stored /\ Laps /\ Noticed

(***************************************************************************)
(* Reception: lemmas.                                                      *)
(***************************************************************************)

\* The constants are numbers, and the counters count further than the buffer.
LEMMA RxSizes ==
    /\ Size \in Nat /\ Size >= 2 /\ Width \in Nat /\ Size < Width /\ MaxBytes \in Nat
BY UartRxAssumption

\* Division with remainder.
LEMMA Multiple ==
    ASSUME NEW m \in Nat, m > 0, NEW a \in Nat
    PROVE  /\ a = m * (a \div m) + (a % m)
           /\ a \div m \in Nat /\ m * (a \div m) \in Nat /\ a % m \in 0..(m - 1)
<1>1. a = m * (a \div m) + (a % m)
    OBVIOUS
<1>2. a \div m \in Nat /\ m * (a \div m) \in Nat
    OBVIOUS
<1>3. a % m \in 0..(m - 1)
    OBVIOUS
<1>4. QED
    BY <1>1, <1>2, <1>3

\* Quotient and remainder are the only ones.
LEMMA Counted ==
    ASSUME NEW m \in Nat, m > 0, NEW k \in Nat, NEW r \in 0..(m - 1)
    PROVE  (m * k + r) \div m = k /\ (m * k + r) % m = r
<1> DEFINE a == m * k + r
<1>1. a \in Nat /\ a = m * k + r
    OBVIOUS
<1>2. a % m = r
    BY <1>1
<1>3. a = m * (a \div m) + (a % m) /\ a \div m \in Nat
    BY <1>1, Multiple
<1>4. m * (a \div m) = m * k
    BY <1>1, <1>2, <1>3
<1>5. m * ((a \div m) - k) = 0
    BY <1>3, <1>4
<1>6. a \div m = k
    BY <1>3, <1>5
<1>7. QED
    BY <1>2, <1>6

\* The byte after a is at the next place of the buffer, or begins the next lap.
LEMMA NextByte ==
    ASSUME NEW a \in Nat
    PROVE  /\ a % Size \in Nat /\ a % Size < Size /\ a \div Size \in Nat
           /\ (a + 1) % Size = IF (a % Size) + 1 = Size THEN 0 ELSE (a % Size) + 1
           /\ (a + 1) \div Size = IF (a % Size) + 1 = Size THEN (a \div Size) + 1 ELSE a \div Size
<1> DEFINE q == a \div Size
           r == a % Size
<1>1. Size \in Nat /\ Size > 0
    BY RxSizes
<1>2. a = Size * q + r /\ q \in Nat /\ r \in 0..(Size - 1)
    BY <1>1, Multiple
<1> HIDE DEF q, r
<1>3. CASE r + 1 = Size
    <2>1. a + 1 = Size * (q + 1) + 0 /\ 0 \in 0..(Size - 1) /\ q + 1 \in Nat
        BY <1>1, <1>2, <1>3
    <2>2. (Size * (q + 1) + 0) % Size = 0 /\ (Size * (q + 1) + 0) \div Size = q + 1
        BY <1>1, <2>1, Counted
    <2>3. (a + 1) % Size = 0 /\ (a + 1) \div Size = q + 1
        BY <2>1, <2>2
    <2>4. QED
        BY <1>2, <1>3, <2>3 DEF q, r
<1>4. CASE r + 1 # Size
    <2>1. a + 1 = Size * q + (r + 1) /\ r + 1 \in 0..(Size - 1)
        BY <1>1, <1>2, <1>4
    <2>2. (Size * q + (r + 1)) % Size = r + 1 /\ (Size * q + (r + 1)) \div Size = q
        BY <1>1, <1>2, <2>1, Counted
    <2>3. (a + 1) % Size = r + 1 /\ (a + 1) \div Size = q
        BY <2>1, <2>2
    <2>4. r \in Nat /\ r < Size
        BY <1>1, <1>2
    <2>5. QED
        BY <1>2, <1>4, <2>3, <2>4 DEF q, r
<1>5. QED
    BY <1>3, <1>4

\* Two bytes less than a buffer apart are at different places.
LEMMA Apart ==
    ASSUME NEW a \in Nat, NEW b \in Nat, a < b, b < a + Size
    PROVE  a % Size # b % Size
<1> DEFINE p == a \div Size
           q == b \div Size
<1>1. Size \in Nat /\ Size > 0
    BY RxSizes
<1>2. a = Size * p + (a % Size) /\ p \in Nat /\ b = Size * q + (b % Size) /\ q \in Nat
      /\ a % Size \in Nat
    BY <1>1, Multiple
<1> HIDE DEF p, q
<1>3. ASSUME a % Size = b % Size PROVE FALSE
    <2>1. Size * (q - p) = b - a
        BY <1>1, <1>2, <1>3
    <2>2. q - p > 0 /\ q - p < 1
        BY <1>1, <1>2, <2>1
    <2>3. QED
        BY <1>2, <2>2
<1>4. QED
    BY <1>3

\* More bytes are no fewer laps.
LEMMA MoreLaps ==
    ASSUME NEW a \in Nat, NEW b \in Nat, a <= b
    PROVE  a \div Size <= b \div Size
<1> DEFINE p == a \div Size
           q == b \div Size
<1>1. Size \in Nat /\ Size > 0
    BY RxSizes
<1>2. /\ a = Size * p + (a % Size) /\ p \in Nat /\ b = Size * q + (b % Size) /\ q \in Nat
      /\ a % Size \in Nat /\ b % Size \in Nat /\ b % Size < Size
    BY <1>1, Multiple
<1> HIDE DEF p, q
<1>3. Size * (p - q) < Size
    BY <1>1, <1>2
<1>4. p - q < 1
    BY <1>1, <1>2, <1>3
<1>5. QED
    BY <1>2, <1>4 DEF p, q

\* What the variables are, as facts of their own.
LEMMA RxTyped ==
    ASSUME TypeOK
    PROVE  /\ buf \in [0..(Size - 1) -> 0..MaxBytes]
           /\ pos \in Nat /\ pos < Size
           /\ dma \in BOOLEAN /\ full \in BOOLEAN /\ idle \in BOOLEAN /\ busy \in BOOLEAN
           /\ over \in BOOLEAN /\ cut \in BOOLEAN /\ raced \in BOOLEAN
           /\ round \in BOOLEAN /\ halved \in BOOLEAN
           /\ usReadCnt \in Nat /\ usReadCnt < Width
           /\ usWriteCnt \in Nat /\ usWriteCnt < Size
           /\ usWriteCntbackup \in Nat /\ usWriteCntbackup < Width
           /\ byte \in 0..MaxBytes /\ tmp \in Nat /\ tmp < Width
           /\ n \in Nat /\ n <= MaxBytes /\ base \in Nat /\ put \in Nat /\ got \in Nat
<1>1. /\ pos \in 0..(Size - 1) /\ usReadCnt \in 0..(Width - 1) /\ usWriteCnt \in 0..(Size - 1)
      /\ usWriteCntbackup \in 0..(Width - 1) /\ tmp \in 0..(Width - 1)
      /\ n \in 0..MaxBytes /\ base \in 0..n /\ put \in 0..n /\ got \in Nat
      /\ buf \in [0..(Size - 1) -> 0..MaxBytes] /\ byte \in 0..MaxBytes
    BY DEF TypeOK
<1>2. {dma, full, idle, busy, over, cut, raced, round, halved} \subseteq BOOLEAN
    BY DEF TypeOK
<1>3. /\ dma \in BOOLEAN /\ full \in BOOLEAN /\ idle \in BOOLEAN /\ busy \in BOOLEAN
      /\ over \in BOOLEAN /\ cut \in BOOLEAN /\ raced \in BOOLEAN
      /\ round \in BOOLEAN /\ halved \in BOOLEAN
    BY <1>2
<1>4. QED
    BY <1>1, <1>3, RxSizes

\* A counter that goes up or down by one stays a counter.
LEMMA CounterStays ==
    ASSUME NEW x \in Nat, x < Width
    PROVE  /\ (x + 1) % Width = IF x + 1 = Width THEN 0 ELSE x + 1
           /\ (x + Width - 1) % Width = IF x = 0 THEN Width - 1 ELSE x - 1
<1>1. Width \in Nat /\ Width > 0
    BY RxSizes
<1>2. x + 1 \in Nat /\ x + 1 < 2 * Width
    BY <1>1, RxSizes
<1>3. (x + 1) % Width = IF x + 1 < Width THEN x + 1 ELSE x + 1 - Width
    BY <1>1, <1>2, Around
<1>4. x + Width - 1 \in Nat /\ x + Width - 1 < 2 * Width
    BY <1>1, RxSizes
<1>5. (x + Width - 1) % Width = IF x + Width - 1 < Width THEN x + Width - 1 ELSE x + Width - 1 - Width
    BY <1>1, <1>4, Around
<1>6. QED
    BY <1>1, <1>3, <1>5

(***************************************************************************)
(* Reception: the induction.                                               *)
(***************************************************************************)

\* The first state satisfies the invariant.
LEMMA RxInitIInv == Init => RxIInv
<1> SUFFICES ASSUME Init PROVE RxIInv
    OBVIOUS
<1>1. 0 % Size = 0 /\ 0 \div Size = 0
    <2>1. Size \in Nat /\ Size > 0 /\ 0 \in 0..(Size - 1) /\ Size * 0 + 0 = 0
        BY RxSizes
    <2>2. QED
        BY <2>1, Counted
<1>2. TypeOK
    <2>1. /\ 0 \in 0..(Size - 1) /\ 0 \in 0..(Width - 1) /\ 0 \in 0..MaxBytes /\ 0 \in 0..0
        BY RxSizes
    <2>2. buf \in [0..(Size - 1) -> 0..MaxBytes] /\ byte \in 0..MaxBytes
        BY <2>1 DEF Init, Stray
    <2>3. {dma, full, idle, busy, over, cut, raced, round, halved} \subseteq BOOLEAN
        BY DEF Init
    <2>4. QED
        BY <2>1, <2>2, <2>3, RxSizes DEF Init, TypeOK
<1>3. Line /\ Reader
    BY RxSizes DEF Init, Line, Reader, Wrapping, Adding
<1>4. Epoch
    <2>1. 0 \in got..put /\ ~Taking
        BY DEF Init, Taking, Holding
    <2>2. QED
        BY <1>1, <2>1, RxSizes DEF Init, Epoch
<1>5. Stored /\ Laps /\ Noticed
    BY <1>1, RxSizes DEF Init, Stored, Holding, Laps, Noticed
<1>6. QED
    BY <1>2, <1>3, <1>4, <1>5 DEF RxIInv

\* A byte comes while the DMA is off: it is lost.
LEMMA ByteLostIInv ==
    ASSUME RxIInv, Byte, ~dma
    PROVE  RxIInv'
<1>1. /\ n' = n + 1 /\ busy' = TRUE /\ n < MaxBytes /\ ~full /\ ~idle
      /\ UNCHANGED <<buf, pos, full, put, over, dma, idle, base, isr, counters, task, marks>>
    BY DEF Byte
<1>2. TypeOK'
    <2>1. n' \in 0..MaxBytes /\ base' \in 0..n' /\ put' \in 0..n'
        <3>1. n \in Nat /\ base \in 0..n /\ put \in 0..n
            BY RxSizes DEF RxIInv, TypeOK
        <3>2. QED
            BY <1>1, <3>1, RxSizes
    <2>2. QED
        BY <1>1, <2>1 DEF RxIInv, TypeOK, counters, task, marks
<1>3. Line' /\ Reader'
    BY <1>1 DEF RxIInv, Line, Reader, Wrapping, Adding, counters, task, marks
<1>4. Epoch'
    <2>1. base + put <= n /\ n \in Nat /\ base \in Nat /\ put \in Nat
        BY RxTyped DEF RxIInv, Epoch
    <2>2. base' + put' <= n'
        BY <1>1, <2>1
    <2>3. QED
        BY <1>1, <2>2 DEF RxIInv, Epoch
<1>5. Stored' /\ Laps' /\ Noticed'
    BY <1>1 DEF Stored, Laps, Noticed
<1>6. QED
    BY <1>2, <1>3, <1>4, <1>5 DEF RxIInv

\* A byte comes and the DMA stores it behind those before it.
LEMMA ByteStoredIInv ==
    ASSUME RxIInv, Byte, dma
    PROVE  RxIInv'
<1>1. /\ n < MaxBytes /\ ~full /\ ~idle /\ n' = n + 1 /\ busy' = TRUE
      /\ buf' = [buf EXCEPT ![pos] = n + 1] /\ pos' = (pos + 1) % Size
      /\ full' = (pos + 1 = Size) /\ put' = put + 1
      /\ over' = (over \/ put + 1 - got > Size)
      /\ UNCHANGED <<dma, idle, base, isr, counters, task, marks>>
    BY DEF Byte
<1>2. /\ pos \in Nat /\ pos < Size /\ n \in Nat /\ base \in Nat /\ put \in Nat /\ got \in Nat
      /\ over \in BOOLEAN /\ full = FALSE
      /\ buf \in [0..(Size - 1) -> 0..MaxBytes]
    BY <1>1, RxTyped DEF RxIInv
<1>3. /\ base + put = n /\ pos = put % Size /\ ~cut /\ usReadCnt = got % Size
      /\ (~over => put - got <= Size)
    BY DEF RxIInv, Epoch
<1>4. /\ (put + 1) % Size = pos'
      /\ (put + 1) \div Size = IF pos + 1 = Size THEN (put \div Size) + 1 ELSE put \div Size
      /\ pos' = IF pos + 1 = Size THEN 0 ELSE pos + 1
    <2>1. (pos + 1) % Size = IF pos + 1 = Size THEN 0 ELSE pos + 1
        <3>1. pos + 1 \in Nat /\ pos + 1 < 2 * Size /\ Size \in Nat /\ Size > 0
            BY <1>2, RxSizes
        <3>2. (pos + 1) % Size = IF pos + 1 < Size THEN pos + 1 ELSE pos + 1 - Size
            BY <1>2, <3>1, Around
        <3>3. QED
            BY <1>2, <3>2, RxSizes
    <2>2. QED
        BY <1>1, <1>2, <1>3, <2>1, NextByte
<1>5. TypeOK'
    <2>1. n' \in 0..MaxBytes /\ base' \in 0..n' /\ put' \in 0..n'
        BY <1>1, <1>2, <1>3, RxSizes
    <2>2. buf' \in [0..(Size - 1) -> 0..MaxBytes]
        BY <1>1, <1>2, <2>1
    <2>3. pos' \in 0..(Size - 1)
        BY <1>2, <1>4, RxSizes
    <2>4. full' \in BOOLEAN /\ over' \in BOOLEAN
        BY <1>1, <1>2
    <2>5. QED
        BY <1>1, <2>1, <2>2, <2>3, <2>4 DEF RxIInv, TypeOK, counters, task, marks
<1>6. Line' /\ Reader'
    BY <1>1 DEF RxIInv, Line, Reader, Wrapping, Adding, counters, task, marks
<1>7. Epoch'
    <2>1. PICK w \in got..put : usWriteCnt = w % Size /\ (Taking => w > got)
        BY DEF RxIInv, Epoch
    <2>2. w \in got'..put' /\ usWriteCnt' = w % Size /\ (Taking' => w > got')
        BY <1>1, <1>2, <2>1 DEF counters, task, Taking, Holding
    <2>3. base' + put' = n' /\ (~over' => put' - got' <= Size)
        <3>1. base' + put' = n' /\ got' = got
            BY <1>1, <1>2, <1>3 DEF task
        <3>2. ~over' => ~(put + 1 - got > Size)
            BY <1>1
        <3>3. QED
            BY <1>1, <1>2, <3>1, <3>2, RxSizes
    <2>4. QED
        BY <1>1, <1>2, <1>3, <1>4, <2>2, <2>3 DEF Epoch, counters, task, marks
<1>8. Stored'
    <2>1. ASSUME NEW k \in 0..put, k + Size >= put + 1
          PROVE  buf'[k % Size] = base + k + 1
        <3>1. k \in Nat /\ k <= put /\ k % Size \in 0..(Size - 1)
            <4>1. k \in Nat /\ k <= put
                BY <1>2
            <4>2. k % Size \in Nat /\ k % Size < Size
                BY <4>1, NextByte
            <4>3. QED
                BY <4>1, <4>2, RxSizes
        <3>2. CASE k = put
            BY <1>1, <1>2, <1>3, <3>1, <3>2
        <3>3. CASE k # put
            <4>1. k < put /\ put < k + Size
                BY <1>2, <2>1, <3>1, <3>3, RxSizes
            <4>2. k % Size # pos
                BY <1>2, <1>3, <3>1, <4>1, Apart
            <4>3. k \in 0..(put - 1) /\ k + Size >= put
                BY <1>2, <3>1, <4>1, RxSizes
            <4>4. buf[k % Size] = base + k + 1
                BY <4>3 DEF RxIInv, Stored
            <4>5. QED
                BY <1>1, <1>2, <3>1, <4>2, <4>4
        <3>4. QED
            BY <3>2, <3>3
    <2>2. 0..(put' - 1) = 0..put
        BY <1>1, <1>2
    <2>3. (Holding /\ ~over)' => byte' = base' + got' + 1
        BY <1>1 DEF RxIInv, Stored, Holding, task
    <2>4. QED
        BY <1>1, <2>1, <2>2, <2>3 DEF Stored
<1>9. Laps'
    <2>1. UNCHANGED <<raced, round, usWriteCntbackup, got, pc, tmp>>
        BY <1>1 DEF counters, task, marks
    <2>2. SUFFICES ASSUME ~raced, ~round
                   PROVE  /\ put' \div Size = usWriteCntbackup + (got \div Size)
                             + (IF full' THEN 1 ELSE 0) + (IF pc = "wrap_zero" THEN 1 ELSE 0)
                          /\ pc = "wrap_store" => tmp = usWriteCntbackup
        BY <2>1 DEF Laps
    <2>3. /\ put \div Size = usWriteCntbackup + (got \div Size) + 0
                             + (IF pc = "wrap_zero" THEN 1 ELSE 0)
          /\ pc = "wrap_store" => tmp = usWriteCntbackup
        BY <1>2, <2>2 DEF RxIInv, Laps
    <2>4. usWriteCntbackup \in Nat /\ got \div Size \in Nat
        BY <1>2, RxTyped, NextByte DEF RxIInv
    <2>5. (IF full' THEN 1 ELSE 0) = IF pos + 1 = Size THEN 1 ELSE 0
        BY <1>1
    <2>6. put \div Size \in Nat
        BY <1>2, NextByte
    <2> DEFINE L == put \div Size
               R == got \div Size
               N == (put + 1) \div Size
               z == IF pc = "wrap_zero" THEN 1 ELSE 0
    <2>7. /\ L = usWriteCntbackup + R + 0 + z /\ N = (IF pos + 1 = Size THEN L + 1 ELSE L)
          /\ L \in Nat /\ R \in Nat /\ z \in Nat
        BY <1>4, <2>3, <2>4, <2>6
    <2> HIDE DEF L, R, N, z
    <2>8. N = usWriteCntbackup + R + (IF full' THEN 1 ELSE 0) + z
        BY <2>4, <2>5, <2>7
    <2>9. QED
        BY <1>1, <2>3, <2>8 DEF N, R, z
<1>10. Noticed'
    BY <1>1 DEF Noticed, Quiet
<1>11. QED
    BY <1>5, <1>6, <1>7, <1>8, <1>9, <1>10 DEF RxIInv

\* The line falls idle.
LEMMA LineIdleIInv ==
    ASSUME RxIInv, LineIdle
    PROVE  RxIInv'
<1>1. /\ ~full /\ isr = "none" /\ busy' = FALSE /\ idle' = TRUE
      /\ UNCHANGED <<buf, pos, dma, full, n, base, put, over, isr, counters, task, marks>>
    BY DEF LineIdle
<1>2. TypeOK'
    BY <1>1 DEF RxIInv, TypeOK, counters, task, marks
<1>3. Line' /\ Noticed'
    BY <1>1 DEF Line, Noticed, Quiet
<1>4. Reader' /\ Epoch' /\ Stored' /\ Laps'
    BY <1>1 DEF RxIInv, Reader, Wrapping, Adding, Epoch, Taking, Holding, Stored, Laps,
                counters, task, marks
<1>5. QED
    BY <1>2, <1>3, <1>4 DEF RxIInv

\* The transfer-complete interrupt counts the lap.
LEMMA WriteBakIInv ==
    ASSUME RxIInv, WriteBak
    PROVE  RxIInv'
<1>1. /\ full /\ isr = "none" /\ full' = FALSE
      /\ usWriteCntbackup' = (usWriteCntbackup + 1) % Width
      /\ raced' = (raced \/ pc = "wrap_store")
      /\ round' = (round \/ usWriteCntbackup + 1 = Width)
      /\ UNCHANGED <<buf, pos, dma, idle, busy, n, base, put, over, isr,
                     usReadCnt, usWriteCnt, task, cut, halved>>
    BY DEF WriteBak
<1>2. /\ usWriteCntbackup \in Nat /\ usWriteCntbackup < Width /\ full = TRUE
      /\ raced \in BOOLEAN /\ round \in BOOLEAN /\ put \in Nat /\ got \in Nat
    BY <1>1, RxTyped DEF RxIInv
<1>3. usWriteCntbackup' = IF usWriteCntbackup + 1 = Width THEN 0 ELSE usWriteCntbackup + 1
    BY <1>1, <1>2, CounterStays
<1>4. TypeOK'
    <2>1. usWriteCntbackup' \in 0..(Width - 1)
        BY <1>2, <1>3, RxSizes
    <2>2. {full', raced', round'} \subseteq BOOLEAN
        BY <1>1
    <2>3. QED
        BY <1>1, <2>1, <2>2 DEF RxIInv, TypeOK, task
<1>5. Line' /\ Reader'
    BY <1>1 DEF RxIInv, Line, Reader, Wrapping, Adding, task
<1>6. Epoch' /\ Stored'
    BY <1>1 DEF RxIInv, Epoch, Taking, Holding, Stored, task
<1>7. Laps'
    <2>1. SUFFICES ASSUME dma, ~raced', ~round'
                   PROVE  /\ put \div Size = usWriteCntbackup' + (got \div Size)
                                             + 0 + (IF pc = "wrap_zero" THEN 1 ELSE 0)
                          /\ pc # "wrap_store"
        BY <1>1 DEF Laps, task
    <2>2. ~raced /\ ~round /\ pc # "wrap_store" /\ usWriteCntbackup + 1 # Width
        BY <1>1, <2>1
    <2>3. put \div Size = usWriteCntbackup + (got \div Size) + 1
                          + (IF pc = "wrap_zero" THEN 1 ELSE 0)
        BY <1>2, <2>1, <2>2 DEF RxIInv, Laps
    <2>4. got \div Size \in Nat
        BY <1>2, NextByte
    <2>5. QED
        BY <1>2, <1>3, <2>2, <2>3, <2>4
<1>8. Noticed'
    BY <1>1 DEF RxIInv, Line, Noticed, Quiet
<1>9. QED
    BY <1>4, <1>5, <1>6, <1>7, <1>8 DEF RxIInv

\* The idle interrupt publishes the position of the DMA.
LEMMA ReceiveCountIInv ==
    ASSUME RxIInv, ReceiveCount
    PROVE  RxIInv'
<1>1. /\ idle /\ isr = "none" /\ idle' = FALSE
      /\ IF dma THEN isr' = "check" /\ usWriteCnt' = pos
                ELSE isr' = isr /\ usWriteCnt' = usWriteCnt
      /\ UNCHANGED <<buf, pos, dma, full, busy, n, base, put, over, usReadCnt,
                     usWriteCntbackup, task, marks>>
    BY DEF ReceiveCount
<1>2. TypeOK'
    <2>1. usWriteCnt' \in 0..(Size - 1) /\ isr' \in {"none", "check"}
        BY <1>1 DEF RxIInv, TypeOK
    <2>2. QED
        BY <1>1, <2>1 DEF RxIInv, TypeOK, task, marks
<1>3. Line' /\ Reader'
    BY <1>1 DEF RxIInv, Line, Reader, Wrapping, Adding, task, marks
<1>4. Epoch'
    <2>1. CASE dma
        <3>1. PICK w \in got..put : usWriteCnt = w % Size /\ (Taking => w > got)
            BY <2>1 DEF RxIInv, Epoch
        <3>2. got \in Nat /\ put \in Nat
            BY RxTyped DEF RxIInv
        <3>3. put \in got..put /\ (Taking => put > got)
            BY <3>1, <3>2
        <3>4. pos = put % Size
            BY DEF RxIInv, Epoch
        <3>5. put \in got'..put' /\ usWriteCnt' = put % Size /\ (Taking' => put > got')
            BY <1>1, <2>1, <3>3, <3>4 DEF task, Taking, Holding
        <3>6. QED
            BY <1>1, <2>1, <3>5 DEF RxIInv, Epoch, task, marks
    <2>2. CASE ~dma
        BY <1>1, <2>2 DEF RxIInv, Epoch
    <2>3. QED
        BY <2>1, <2>2
<1>5. Stored' /\ Laps'
    BY <1>1 DEF RxIInv, Stored, Holding, Laps, task, marks
<1>6. Noticed'
    BY <1>1 DEF Noticed, Quiet
<1>7. QED
    BY <1>2, <1>3, <1>4, <1>5, <1>6 DEF RxIInv

\* The bytes not yet taken, from the laps.
LEMMA Unread ==
    ASSUME RxIInv, dma, ~raced, ~round, ~full, pc # "wrap_zero"
    PROVE  put - got = usWriteCntbackup * Size + pos - usReadCnt
<1> DEFINE L == put \div Size
           R == got \div Size
<1>1. /\ put \in Nat /\ got \in Nat /\ usWriteCntbackup \in Nat /\ usReadCnt \in Nat /\ pos \in Nat
      /\ Size \in Nat /\ Size > 0
    BY RxTyped, RxSizes DEF RxIInv
<1>2. pos = put % Size /\ usReadCnt = got % Size
    BY DEF RxIInv, Epoch
<1>3. put = Size * L + pos /\ got = Size * R + usReadCnt /\ L \in Nat /\ R \in Nat
    BY <1>1, <1>2, Multiple
<1>4. L = usWriteCntbackup + R
    <2>1. put \div Size = usWriteCntbackup + (got \div Size) + 0 + 0
        BY DEF RxIInv, Laps
    <2>2. QED
        BY <1>1, <1>3, <2>1
<1> HIDE DEF L, R
<1>5. Size * L = usWriteCntbackup * Size + Size * R
    BY <1>1, <1>3, <1>4
<1>6. Size * L \in Nat /\ Size * R \in Nat /\ usWriteCntbackup * Size \in Nat
    BY <1>1, <1>3
<1>7. QED
    BY <1>1, <1>3, <1>5, <1>6

\* The idle interrupt looks for an overflow: none means that the buffer is not full.
LEMMA ReceiveCheckIInv ==
    ASSUME RxIInv, ReceiveCheck
    PROVE  RxIInv'
<1>1. /\ isr = "check" /\ isr' = "none" /\ dma
      /\ halved' = (halved \/ pc = "wrap_zero")
      /\ UNCHANGED <<buf, pos, full, idle, busy, n, base, put, over, usWriteCnt,
                     usWriteCntbackup, task, raced, round>>
    BY DEF ReceiveCheck, RxIInv, Line
<1>2. CASE Overflow
    <2>1. dma' = FALSE /\ usReadCnt' = Oldest /\ cut' = (cut \/ pc # "out")
        BY <1>2 DEF ReceiveCheck
    <2>2. Oldest \in Nat /\ Oldest < Size
        <3>1. usWriteCnt + 1 \in Nat /\ Size \in Nat /\ Size > 0
            BY RxTyped, RxSizes DEF RxIInv
        <3>2. (usWriteCnt + 1) % Size \in 0..(Size - 1)
            BY <3>1
        <3>3. QED
            BY <3>1, <3>2 DEF Oldest
    <2>3. TypeOK'
        <3>1. usReadCnt' \in 0..(Width - 1) /\ usReadCnt' < Size
            BY <2>1, <2>2, RxSizes
        <3>2. {dma', cut', halved'} \subseteq BOOLEAN
            BY <1>1, <2>1
        <3>3. QED
            BY <1>1, <3>1, <3>2 DEF RxIInv, TypeOK, task
    <2>4. Line' /\ Stored' /\ Laps' /\ Noticed'
        BY <1>1, <2>1 DEF RxIInv, Line, Stored, Laps, Noticed
    <2>5. Reader'
        BY <1>1, <2>1, <2>2 DEF Reader, Wrapping, Adding, task
    <2>6. Epoch'
        BY <1>1, <2>1 DEF RxIInv, Epoch, task
    <2>7. QED
        BY <2>3, <2>4, <2>5, <2>6 DEF RxIInv
<1>3. CASE ~Overflow
    <2>1. UNCHANGED <<dma, usReadCnt, cut>>
        BY <1>3 DEF ReceiveCheck
    <2>2. TypeOK'
        <3>1. halved' \in BOOLEAN
            BY <1>1
        <3>2. QED
            BY <1>1, <2>1, <3>1 DEF RxIInv, TypeOK, task
    <2>3. Line' /\ Reader' /\ Epoch' /\ Stored' /\ Laps'
        BY <1>1, <2>1 DEF RxIInv, Line, Reader, Wrapping, Adding, Epoch, Taking, Holding,
                          Stored, Laps, task
    <2>4. Noticed'
        <3>1. SUFFICES ASSUME ~raced, ~round, pc # "wrap_zero", ~busy
                       PROVE  put - got < Size
            BY <1>1, <2>1 DEF Noticed, Quiet, task
        <3>2. ~full /\ usWriteCnt = pos
            BY <1>1, <3>1 DEF RxIInv, Line
        <3>3. put - got = usWriteCntbackup * Size + pos - usReadCnt
            BY <1>1, <3>1, <3>2, Unread
        <3>4. /\ usWriteCntbackup \in Nat /\ pos \in Nat /\ pos < Size /\ usReadCnt \in Nat
              /\ Size \in Nat
            BY RxTyped, RxSizes DEF RxIInv
        <3>5. usWriteCntbackup = 0 \/ (usWriteCntbackup = 1 /\ usReadCnt > pos)
            BY <1>3, <3>2, <3>4 DEF Overflow
        <3>6. CASE usWriteCntbackup = 0
            BY <3>3, <3>4, <3>6
        <3>7. CASE usWriteCntbackup = 1 /\ usReadCnt > pos
            BY <3>3, <3>4, <3>7
        <3>8. QED
            BY <3>5, <3>6, <3>7
    <2>5. QED
        BY <2>2, <2>3, <2>4 DEF RxIInv
<1>4. QED
    BY <1>2, <1>3

\* The byte that the task reads: it goes on only with one that was there.
LEMMA CompareIInv ==
    ASSUME RxIInv, Compare
    PROVE  RxIInv'
<1>1. /\ pc = "out" /\ pc' = IF usReadCnt # usWriteCnt THEN "read" ELSE "restart"
      /\ UNCHANGED <<hardware, isr, counters, byte, tmp, got, marks>>
    BY DEF Compare
<1>2. TypeOK'
    BY <1>1 DEF RxIInv, TypeOK, hardware, counters, marks
<1>3. Line' /\ Reader' /\ Stored' /\ Laps' /\ Noticed'
    BY <1>1 DEF RxIInv, Line, Reader, Wrapping, Adding, Stored, Holding, Laps, Noticed, Quiet,
                hardware, counters, marks
<1>4. Epoch'
    <2>1. CASE dma
        <3>1. PICK w \in got..put : usWriteCnt = w % Size
            BY <2>1 DEF RxIInv, Epoch
        <3>2. got \in Nat /\ put \in Nat /\ usReadCnt = got % Size
            BY <2>1, RxTyped DEF RxIInv, Epoch
        <3>3. Taking' => w # got
            BY <1>1, <3>1, <3>2 DEF Taking, Holding
        <3>4. w \in got'..put' /\ usWriteCnt' = w % Size /\ (Taking' => w > got')
            BY <1>1, <3>1, <3>2, <3>3 DEF hardware, counters
        <3>5. QED
            BY <1>1, <2>1, <3>4 DEF RxIInv, Epoch, hardware, counters, marks
    <2>2. CASE ~dma
        BY <1>1, <2>2 DEF RxIInv, Epoch, hardware
    <2>3. QED
        BY <2>1, <2>2
<1>5. QED
    BY <1>2, <1>3, <1>4 DEF RxIInv

\* The task reads a byte: the oldest not yet taken, while the DMA has not overrun it.
LEMMA ReadByteIInv ==
    ASSUME RxIInv, ReadByte
    PROVE  RxIInv'
<1>1. /\ pc = "read" /\ pc' = "test"
      /\ byte' = IF usReadCnt < Size THEN buf[usReadCnt] ELSE Stray
      /\ UNCHANGED <<hardware, isr, counters, tmp, got, marks>>
    BY DEF ReadByte, Step
<1>2. /\ buf \in [0..(Size - 1) -> 0..MaxBytes] /\ usReadCnt \in Nat
      /\ put \in Nat /\ got \in Nat /\ base \in Nat
    BY RxTyped DEF RxIInv
<1>3. TypeOK'
    <2>1. byte' \in 0..MaxBytes
        BY <1>1, <1>2, RxSizes DEF Stray
    <2>2. QED
        BY <1>1, <2>1 DEF RxIInv, TypeOK, hardware, counters, marks
<1>4. Line' /\ Reader' /\ Epoch' /\ Laps' /\ Noticed'
    BY <1>1 DEF RxIInv, Line, Reader, Wrapping, Adding, Epoch, Taking, Holding, Laps, Noticed, Quiet,
                hardware, counters, marks
<1>5. Stored'
    <2>1. ASSUME dma, ~over PROVE byte' = base + got + 1
        <3>1. PICK w \in got..put : Taking => w > got
            BY <2>1 DEF RxIInv, Epoch
        <3>2. usReadCnt = got % Size /\ usReadCnt < Size /\ put - got <= Size
            BY <2>1 DEF RxIInv, Epoch, Reader
        <3>3. got \in 0..(put - 1) /\ got + Size >= put
            BY <1>1, <1>2, <3>1, <3>2, RxSizes DEF Taking
        <3>4. buf[got % Size] = base + got + 1
            BY <2>1, <3>3 DEF RxIInv, Stored
        <3>5. QED
            BY <1>1, <3>2, <3>4
    <2>2. QED
        BY <1>1, <2>1 DEF RxIInv, Stored, hardware
<1>6. QED
    BY <1>3, <1>4, <1>5 DEF RxIInv

\* The task looks for the end of the buffer.
LEMMA TestIInv ==
    ASSUME RxIInv, Test
    PROVE  RxIInv'
<1>1. /\ pc = "test" /\ pc' = IF (usReadCnt + 1) % Size = 0 THEN "wrap_load" ELSE "inc_load"
      /\ UNCHANGED <<hardware, isr, counters, byte, tmp, got, marks>>
    BY DEF Test
<1>2. TypeOK'
    BY <1>1 DEF RxIInv, TypeOK, hardware, counters, marks
<1>3. Line' /\ Epoch' /\ Stored' /\ Laps' /\ Noticed'
    BY <1>1 DEF RxIInv, Line, Epoch, Taking, Holding, Stored, Laps, Noticed, Quiet,
                hardware, counters, marks
<1>4. Reader'
    <2>1. SUFFICES ASSUME ~cut PROVE Reader'
        BY <1>1 DEF Reader, marks
    <2>2. usReadCnt \in Nat /\ usReadCnt < Size
        BY <2>1, RxTyped DEF RxIInv, Reader
    <2>3. (usReadCnt + 1) % Size = IF usReadCnt + 1 = Size THEN 0 ELSE usReadCnt + 1
        <3>1. usReadCnt + 1 \in Nat /\ usReadCnt + 1 < 2 * Size /\ Size \in Nat /\ Size > 0
            BY <2>2, RxSizes
        <3>2. (usReadCnt + 1) % Size = IF usReadCnt + 1 < Size THEN usReadCnt + 1 ELSE usReadCnt + 1 - Size
            BY <2>2, <3>1, Around
        <3>3. QED
            BY <2>2, <3>1, <3>2
    <2>4. usReadCnt' = usReadCnt
        BY <1>1 DEF counters
    <2>5. QED
        BY <1>1, <2>2, <2>3, <2>4, RxSizes DEF Reader, Wrapping, Adding
<1>5. QED
    BY <1>2, <1>3, <1>4 DEF RxIInv

\* The task loads the counter that it is about to change.
LEMMA LoadIInv ==
    ASSUME RxIInv, WrapLoad \/ IncLoad
    PROVE  RxIInv'
<1>1. /\ \/ pc = "wrap_load" /\ pc' = "wrap_store" /\ tmp' = usWriteCntbackup
         \/ pc = "inc_load" /\ pc' = "inc_store" /\ tmp' = usReadCnt
      /\ UNCHANGED <<hardware, isr, counters, byte, got, marks>>
    BY DEF WrapLoad, IncLoad, Step
<1>2. TypeOK'
    BY <1>1 DEF RxIInv, TypeOK, hardware, counters, marks
<1>3. Line' /\ Epoch' /\ Stored' /\ Noticed'
    BY <1>1 DEF RxIInv, Line, Epoch, Taking, Holding, Stored, Noticed, Quiet,
                hardware, counters, marks
<1>4. Reader' /\ Laps'
    BY <1>1 DEF RxIInv, Reader, Wrapping, Adding, Laps, hardware, counters, marks
<1>5. QED
    BY <1>2, <1>3, <1>4 DEF RxIInv

\* The task takes a lap off: there is one, for it has come to the end of the buffer.
LEMMA WrapStoreIInv ==
    ASSUME RxIInv, WrapStore
    PROVE  RxIInv'
<1>1. /\ pc = "wrap_store" /\ pc' = "wrap_zero" /\ ~full
      /\ usWriteCntbackup' = (tmp + Width - 1) % Width
      /\ UNCHANGED <<hardware, isr, usReadCnt, usWriteCnt, byte, tmp, got, marks>>
    BY DEF WrapStore, Step, Running
<1>2. /\ tmp \in Nat /\ tmp < Width /\ usWriteCntbackup \in Nat /\ put \in Nat /\ got \in Nat
      /\ Size \in Nat /\ Size >= 2
    BY RxTyped, RxSizes DEF RxIInv
<1>3. usWriteCntbackup' = IF tmp = 0 THEN Width - 1 ELSE tmp - 1
    BY <1>1, <1>2, CounterStays
<1>4. TypeOK'
    <2>1. usWriteCntbackup' \in 0..(Width - 1)
        BY <1>2, <1>3, RxSizes
    <2>2. QED
        BY <1>1, <2>1 DEF RxIInv, TypeOK, hardware, marks
<1>5. Line' /\ Reader' /\ Epoch' /\ Stored' /\ Noticed'
    BY <1>1 DEF RxIInv, Line, Reader, Wrapping, Adding, Epoch, Taking, Holding, Stored, Noticed, Quiet,
                hardware, marks
<1>6. Laps'
    <2>1. SUFFICES ASSUME dma, ~raced, ~round
                   PROVE  put \div Size = usWriteCntbackup' + (got \div Size) + 0 + 1
        BY <1>1 DEF Laps, hardware, marks
    <2>2. put \div Size = usWriteCntbackup + (got \div Size) + 0 + 0 /\ tmp = usWriteCntbackup
        BY <1>1, <2>1 DEF RxIInv, Laps
    <2>3. PICK w \in got..put : w > got
        BY <1>1, <2>1 DEF RxIInv, Epoch, Taking, Holding
    <2>4. (got % Size) + 1 = Size
        BY <1>1, <1>2, <2>1 DEF RxIInv, Epoch, Reader, Wrapping
    <2>5. (got + 1) \div Size = (got \div Size) + 1 /\ got \div Size \in Nat
        BY <1>2, <2>4, NextByte
    <2>6. (got + 1) \div Size <= put \div Size
        BY <1>2, <2>3, MoreLaps
    <2> DEFINE L == put \div Size
               R == got \div Size
    <2>7. L = usWriteCntbackup + R + 0 + 0 /\ R + 1 <= L /\ R \in Nat
        BY <2>2, <2>5, <2>6
    <2> HIDE DEF L, R
    <2>8. L = usWriteCntbackup' + R + 0 + 1
        BY <1>2, <1>3, <2>2, <2>7
    <2>9. QED
        BY <2>8 DEF L, R
<1>7. QED
    BY <1>4, <1>5, <1>6 DEF RxIInv

\* The reader is at the beginning of the buffer: the byte is taken, and the lap done.
LEMMA WrapZeroIInv ==
    ASSUME RxIInv, WrapZero
    PROVE  RxIInv'
<1>1. /\ pc = "wrap_zero" /\ pc' = "restart" /\ usReadCnt' = 0 /\ got' = got + 1
      /\ UNCHANGED <<hardware, isr, usWriteCnt, usWriteCntbackup, byte, tmp, marks>>
    BY DEF WrapZero, Step
<1>2. /\ put \in Nat /\ got \in Nat /\ usWriteCntbackup \in Nat /\ Size \in Nat /\ Size >= 2
      /\ (got + 1) % Size = (IF (got % Size) + 1 = Size THEN 0 ELSE (got % Size) + 1)
      /\ (got + 1) \div Size = (IF (got % Size) + 1 = Size THEN (got \div Size) + 1 ELSE got \div Size)
      /\ got \div Size \in Nat
    BY RxTyped, RxSizes, NextByte DEF RxIInv
<1>3. dma => (got % Size) + 1 = Size
    BY <1>1, <1>2 DEF RxIInv, Epoch, Reader, Wrapping
<1>4. TypeOK'
    <2>1. usReadCnt' \in 0..(Width - 1) /\ usReadCnt' < Size /\ got' \in Nat
        BY <1>1, <1>2, RxSizes
    <2>2. QED
        BY <1>1, <2>1 DEF RxIInv, TypeOK, hardware, marks
<1>5. Line' /\ Reader'
    BY <1>1, <1>2 DEF RxIInv, Line, Reader, Wrapping, Adding, hardware, marks
<1>6. Epoch'
    <2>1. CASE dma
        <3>1. PICK w \in got..put : usWriteCnt = w % Size /\ w > got
            BY <1>1, <2>1 DEF RxIInv, Epoch, Taking, Holding
        <3>2. w \in got'..put' /\ usWriteCnt' = w % Size /\ ~Taking'
            BY <1>1, <1>2, <3>1 DEF Taking, Holding, hardware
        <3>3. usReadCnt' = got' % Size /\ (~over => put - got' <= Size)
            BY <1>1, <1>2, <1>3, <2>1 DEF RxIInv, Epoch
        <3>4. QED
            BY <1>1, <2>1, <3>2, <3>3 DEF RxIInv, Epoch, hardware, marks
    <2>2. CASE ~dma
        BY <1>1, <2>2 DEF RxIInv, Epoch, hardware
    <2>3. QED
        BY <2>1, <2>2
<1>7. Stored'
    BY <1>1 DEF RxIInv, Stored, Holding, hardware
<1>8. Laps'
    <2>1. SUFFICES ASSUME dma, ~raced, ~round
                   PROVE  put \div Size = usWriteCntbackup + ((got + 1) \div Size)
                                          + (IF full THEN 1 ELSE 0) + 0
        BY <1>1 DEF Laps, hardware, marks
    <2>2. put \div Size = usWriteCntbackup + (got \div Size) + (IF full THEN 1 ELSE 0) + 1
        BY <1>1, <2>1 DEF RxIInv, Laps
    <2>3. (got + 1) \div Size = (got \div Size) + 1
        BY <1>2, <1>3, <2>1
    <2> DEFINE L == put \div Size
               R == got \div Size
               N == (got + 1) \div Size
    <2>4. L = usWriteCntbackup + R + (IF full THEN 1 ELSE 0) + 1 /\ N = R + 1 /\ R \in Nat
        BY <1>2, <2>2, <2>3
    <2> HIDE DEF L, R, N
    <2>5. L = usWriteCntbackup + N + (IF full THEN 1 ELSE 0) + 0
        BY <1>2, <2>4
    <2>6. QED
        BY <2>5 DEF L, N
<1>9. Noticed'
    BY <1>1, <1>2 DEF RxIInv, Noticed, Quiet, hardware, marks
<1>10. QED
    BY <1>4, <1>5, <1>6, <1>7, <1>8, <1>9 DEF RxIInv

\* The reader goes on by one inside the buffer: the byte is taken.
LEMMA IncStoreIInv ==
    ASSUME RxIInv, IncStore
    PROVE  RxIInv'
<1>1. /\ pc = "inc_store" /\ pc' = "restart" /\ usReadCnt' = (tmp + 1) % Width /\ got' = got + 1
      /\ UNCHANGED <<hardware, isr, usWriteCnt, usWriteCntbackup, byte, tmp, marks>>
    BY DEF IncStore, Step
<1>2. /\ put \in Nat /\ got \in Nat /\ usWriteCntbackup \in Nat /\ Size \in Nat /\ Size >= 2
      /\ (got + 1) % Size = (IF (got % Size) + 1 = Size THEN 0 ELSE (got % Size) + 1)
      /\ (got + 1) \div Size = (IF (got % Size) + 1 = Size THEN (got \div Size) + 1 ELSE got \div Size)
      /\ tmp \in Nat /\ tmp < Width /\ usReadCnt \in Nat
    BY RxTyped, RxSizes, NextByte DEF RxIInv
<1>3. usReadCnt' = IF tmp + 1 = Width THEN 0 ELSE tmp + 1
    BY <1>1, <1>2, CounterStays
<1>4. ~cut => usReadCnt' = usReadCnt + 1 /\ usReadCnt' < Size
    BY <1>1, <1>2, <1>3, RxSizes DEF RxIInv, Reader, Adding
<1>5. dma => ~cut /\ usReadCnt = got % Size /\ (got % Size) + 1 # Size
    BY <1>1, <1>2 DEF RxIInv, Epoch, Reader, Adding
<1>6. TypeOK'
    <2>1. usReadCnt' \in 0..(Width - 1) /\ got' \in Nat
        BY <1>1, <1>2, <1>3, RxSizes
    <2>2. usReadCnt' < Size \/ cut'
        BY <1>1, <1>4 DEF marks
    <2>3. QED
        BY <1>1, <2>1, <2>2 DEF RxIInv, TypeOK, hardware, marks
<1>7. Line' /\ Reader'
    BY <1>1, <1>4 DEF RxIInv, Line, Reader, Wrapping, Adding, hardware, marks
<1>8. Epoch'
    <2>1. CASE dma
        <3>1. PICK w \in got..put : usWriteCnt = w % Size /\ w > got
            BY <1>1, <2>1 DEF RxIInv, Epoch, Taking, Holding
        <3>2. w \in got'..put' /\ usWriteCnt' = w % Size /\ ~Taking'
            BY <1>1, <1>2, <3>1 DEF Taking, Holding, hardware
        <3>3. usReadCnt' = got' % Size
            BY <1>1, <1>2, <1>4, <1>5, <2>1
        <3>4. ~over => put - got' <= Size
            BY <1>1, <1>2, <2>1 DEF RxIInv, Epoch
        <3>5. QED
            BY <1>1, <2>1, <3>2, <3>3, <3>4 DEF RxIInv, Epoch, hardware, marks
    <2>2. CASE ~dma
        BY <1>1, <2>2 DEF RxIInv, Epoch, hardware
    <2>3. QED
        BY <2>1, <2>2
<1>9. Stored'
    BY <1>1 DEF RxIInv, Stored, Holding, hardware
<1>10. Laps'
    <2>1. SUFFICES ASSUME dma, ~raced, ~round
                   PROVE  put \div Size = usWriteCntbackup + ((got + 1) \div Size)
                                          + (IF full THEN 1 ELSE 0) + 0
        BY <1>1 DEF Laps, hardware, marks
    <2>2. put \div Size = usWriteCntbackup + (got \div Size) + (IF full THEN 1 ELSE 0) + 0
        BY <1>1, <2>1 DEF RxIInv, Laps
    <2>3. (got + 1) \div Size = got \div Size
        BY <1>2, <1>5, <2>1
    <2>4. QED
        BY <2>2, <2>3
<1>11. Noticed'
    BY <1>1, <1>2 DEF RxIInv, Noticed, Quiet, hardware, marks
<1>12. QED
    BY <1>6, <1>7, <1>8, <1>9, <1>10, <1>11 DEF RxIInv

\* The DMA starts again when the reader has caught up.
LEMMA RestartIInv ==
    ASSUME RxIInv, Restart
    PROVE  RxIInv'
<1>1. /\ pc = "restart" /\ pc' = "out" /\ ~full /\ ~idle /\ isr = "none"
      /\ UNCHANGED <<buf, idle, busy, n, isr, byte, tmp>>
    BY DEF Restart, Step, Running
<1>2. CASE ~dma /\ usReadCnt = usWriteCnt
    <2>1. /\ usReadCnt' = 0 /\ usWriteCnt' = 0 /\ usWriteCntbackup' = 0
          /\ pos' = 0 /\ dma' = TRUE /\ full' = FALSE
          /\ base' = n /\ put' = 0 /\ got' = 0
          /\ over' = FALSE /\ cut' = FALSE /\ raced' = FALSE /\ round' = FALSE /\ halved' = FALSE
        BY <1>2 DEF Restart
    <2>2. 0 % Size = 0 /\ 0 \div Size = 0
        <3>1. Size \in Nat /\ Size > 0 /\ 0 \in 0..(Size - 1) /\ Size * 0 + 0 = 0
            BY RxSizes
        <3>2. QED
            BY <3>1, Counted
    <2>3. n \in Nat
        BY RxTyped DEF RxIInv
    <2>4. TypeOK'
        <3>1. 0 \in 0..(Size - 1) /\ 0 \in 0..(Width - 1) /\ n \in 0..n /\ 0 \in 0..n
            BY <2>3, RxSizes
        <3>2. {dma', full', over', cut', raced', round', halved'} \subseteq BOOLEAN
            BY <2>1
        <3>3. usReadCnt' < Size
            BY <2>1, RxSizes
        <3>4. QED
            BY <1>1, <2>1, <3>1, <3>2, <3>3 DEF RxIInv, TypeOK
    <2>5. Line' /\ Reader'
        BY <1>1, <2>1, RxSizes DEF Line, Reader, Wrapping, Adding
    <2>6. Epoch'
        <3>1. 0 \in got'..put' /\ usWriteCnt' = 0 % Size /\ ~Taking'
            BY <1>1, <2>1, <2>2 DEF Taking, Holding
        <3>2. base' + put' = n' /\ base' + put' <= n' /\ put' - got' <= Size
            BY <1>1, <2>1, <2>3, RxSizes
        <3>3. QED
            BY <2>1, <2>2, <3>1, <3>2 DEF Epoch
    <2>7. Stored' /\ Laps' /\ Noticed'
        BY <1>1, <2>1, <2>2, RxSizes DEF Stored, Holding, Laps, Noticed
    <2>8. QED
        BY <2>4, <2>5, <2>6, <2>7 DEF RxIInv
<1>3. CASE ~(~dma /\ usReadCnt = usWriteCnt)
    <2>1. UNCHANGED <<counters, pos, dma, full, base, put, got, over, marks>>
        BY <1>3 DEF Restart
    <2>2. TypeOK'
        BY <1>1, <2>1 DEF RxIInv, TypeOK, counters, marks
    <2>3. Line' /\ Reader' /\ Stored' /\ Laps' /\ Noticed'
        BY <1>1, <2>1 DEF RxIInv, Line, Reader, Wrapping, Adding, Stored, Holding, Laps, Noticed, Quiet,
                          counters, marks
    <2>4. Epoch'
        BY <1>1, <2>1 DEF RxIInv, Epoch, Taking, Holding, counters, marks
    <2>5. QED
        BY <2>2, <2>3, <2>4 DEF RxIInv
<1>4. QED
    BY <1>2, <1>3

\* Every step of reception keeps the invariant.
LEMMA RxStepIInv == RxIInv /\ [Next]_vars => RxIInv'
<1> SUFFICES ASSUME RxIInv, [Next]_vars PROVE RxIInv'
    OBVIOUS
<1>1. CASE Byte
    BY <1>1, ByteLostIInv, ByteStoredIInv
<1>2. CASE LineIdle
    BY <1>2, LineIdleIInv
<1>3. CASE Interrupt
    BY <1>3, WriteBakIInv, ReceiveCountIInv, ReceiveCheckIInv DEF Interrupt
<1>4. CASE Get_Char
    BY <1>4, CompareIInv, ReadByteIInv, TestIInv, LoadIInv, WrapStoreIInv, WrapZeroIInv, IncStoreIInv,
       RestartIInv DEF Get_Char
<1>5. CASE UNCHANGED vars
    BY <1>5 DEF vars, hardware, counters, task, marks, RxIInv, TypeOK, Line, Reader, Wrapping, Adding,
                Epoch, Taking, Holding, Stored, Laps, Noticed, Quiet
<1>6. QED
    BY <1>1, <1>2, <1>3, <1>4, <1>5 DEF Next

\* The invariant holds in every reachable state.
LEMMA RxInvariance == Spec => []RxIInv
BY RxInitIInv, RxStepIInv, PTL DEF Spec

(***************************************************************************)
(* Reception: the theorems.                                                *)
(***************************************************************************)

\* The counters stay in their range and the DMA inside the buffer, and the reader
\* too unless an overflow is handled inside BSP_USARTx_Get_Char.
THEOREM ReaderInBuffer == Spec => []TypeOK
<1>1. RxIInv => TypeOK
    BY DEF RxIInv
<1>2. QED
    BY <1>1, RxInvariance, PTL

\* Until the DMA overruns the reader every byte is taken once and in order, also
\* after an overflow.
THEOREM BytesInOrder == Spec => []TakenInOrder
<1>1. RxIInv => TakenInOrder
    BY DEF RxIInv, Stored, TakenInOrder
<1>2. QED
    BY <1>1, RxInvariance, PTL

\* The counters tell how many bytes are unread, unless a lap is counted between the
\* load and the store of usWriteCntbackup--, or the laps exceed that counter.
THEOREM LapsAreCounted == Spec => []LapsCounted
<1>1. RxIInv => LapsCounted
    BY Unread DEF LapsCounted, Running
<1>2. QED
    BY <1>1, RxInvariance, PTL

\* A buffer that is full when the line falls idle is noticed, unless the interrupt
\* finds the reader half way round or the laps were miscounted.
THEOREM FullIsNoticed == Spec => []FullNoticed
<1>1. RxIInv => FullNoticed
    BY DEF RxIInv, Noticed, Quiet, FullNoticed, Running
<1>2. QED
    BY <1>1, RxInvariance, PTL

(***************************************************************************)
(* Both directions.                                                        *)
(***************************************************************************)

\* A UART receives or sends, and each direction is as in its own module.
LEMMA EachDirection == UartSpec => Spec /\ TxSpec
<1>1. UartInit => Init /\ TxInit
    BY DEF UartInit
<1>2. [UartNext]_<<half, vars, txVars>> => [Next]_vars /\ [TxNext]_txVars
    BY DEF UartNext, RxStep, TxStep
<1>3. QED
    BY <1>1, <1>2, PTL DEF UartSpec, Spec, TxSpec

\* The counters of both rings stay in their range, the DMA and the reader inside
\* their buffers.
THEOREM UartTyped == UartSpec => []UartTypeOK
<1>1. TypeOK /\ TxTypeOK => UartTypeOK
    BY DEF UartTypeOK
<1>2. QED
    BY <1>1, EachDirection, ReaderInBuffer, TransferInBuffer, PTL

=============================================================================
