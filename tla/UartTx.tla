------------------------------- MODULE UartTx -------------------------------
(***************************************************************************)
(* Sending on a UART by DMA (bsp_uart.c).  BSP_USARTx_DMA_Send puts bytes  *)
(* in a ring, DebugCom_DmaSendPeriodTask has the DMA send the contiguous   *)
(* part of what is there, and the transfer-complete interrupt gives the    *)
(* room back.                                                              *)
(*                                                                         *)
(* The ring is filled by printf and by llif_uart_write in any task.  The   *)
(* system task has the highest priority of them: what it does is a single  *)
(* step for a writer in another task, which the system task can interrupt  *)
(* anywhere, except in DbgLog, which prints with the scheduler locked.     *)
(***************************************************************************)
EXTENDS Integers

CONSTANTS TxSize,   \* C_LO_BUFFER_SIZE
          MaxLen,   \* bound: bytes of a write
          MaxSent   \* bound: bytes accepted

ASSUME UartTxAssumption ==
    /\ {TxSize, MaxLen, MaxSent} \subseteq Nat
    /\ TxSize >= 2

VARIABLES
    DataBuf, iReadCnt, iWriteCnt, iLastSendCnt, iFlg,
    taken,  \* bytes of the transfer that the DMA has sent
    at,     \* place of the writer of low priority in BSP_USARTx_DMA_Send
    left,   \* bytes it has still to put
    reg,    \* iWriteCnt as it loaded it
    locked, \* it runs with the scheduler locked
    \* history
    in, out,  \* bytes put in the ring, bytes sent
    mixed     \* the system task has written inside another task's write

ring   == <<DataBuf, iWriteCnt, in>>
dmaTx  == <<iReadCnt, iLastSendCnt, iFlg, taken, out>>
writer == <<at, left, reg, locked>>
txVars == <<ring, dmaTx, writer, mixed>>

TxTypeOK ==
    /\ DataBuf \in [0..(TxSize - 1) -> 0..MaxSent]
    /\ {iReadCnt, iWriteCnt, reg} \subseteq 0..(TxSize - 1)
    \* The DMA stays inside the buffer, even if two tasks have mixed their writes.
    /\ iLastSendCnt \in 0..(TxSize - iReadCnt) /\ taken \in 0..iLastSendCnt
    /\ iFlg \in {"UART_SEND_END", "UART_SENDING"}
    /\ at \in {"out", "put", "load", "store"} /\ left \in 0..MaxLen
    /\ locked \in BOOLEAN /\ mixed \in BOOLEAN
    /\ in \in 0..MaxSent /\ out \in Nat

TxInit ==
    /\ DataBuf = [i \in 0..(TxSize - 1) |-> 0]
    /\ iReadCnt = 0 /\ iWriteCnt = 0 /\ iLastSendCnt = 0 /\ taken = 0
    /\ iFlg = "UART_SEND_END"
    /\ at = "out" /\ left = 0 /\ reg = 0 /\ locked = FALSE
    /\ in = 0 /\ out = 0 /\ mixed = FALSE

-----------------------------------------------------------------------------
(* BSP_USARTx_DMA_Send                                                     *)

iCnt == (TxSize - iReadCnt + iWriteCnt) % TxSize

\* Mutant: the last free place is given away.
FitsToTheBrim(len) == iCnt + len <= TxSize

Fits(len) == iCnt + len < TxSize

\* A write that does not fit returns -1 and nothing is sent.
Send(len) ==
    /\ at = "out" /\ in + len <= MaxSent /\ Fits(len)
    /\ at' = "put" /\ left' = len /\ locked' \in BOOLEAN
    /\ UNCHANGED <<ring, dmaTx, reg, mixed>>

Put ==
    /\ at = "put" /\ at' = "load"
    /\ DataBuf' = [DataBuf EXCEPT ![iWriteCnt] = in + 1]
    /\ UNCHANGED <<iWriteCnt, in, dmaTx, left, reg, locked, mixed>>

LoadWrite ==
    /\ at = "load" /\ at' = "store"
    /\ reg' = iWriteCnt
    /\ UNCHANGED <<ring, dmaTx, left, locked, mixed>>

StoreWrite ==
    /\ at = "store"
    /\ iWriteCnt' = (reg + 1) % TxSize
    /\ in' = in + 1 /\ left' = left - 1
    /\ at' = IF left = 1 THEN "out" ELSE "put"
    /\ UNCHANGED <<DataBuf, dmaTx, reg, locked, mixed>>

SystemTaskRuns == at = "out" \/ ~locked

\* The same call made by the system task, of one byte (fputc).
SystemSend ==
    /\ SystemTaskRuns /\ in + left < MaxSent /\ Fits(1)
    /\ DataBuf' = [DataBuf EXCEPT ![iWriteCnt] = in + 1]
    /\ iWriteCnt' = (iWriteCnt + 1) % TxSize
    /\ in' = in + 1
    /\ mixed' = (mixed \/ at # "out")
    /\ UNCHANGED <<dmaTx, writer>>

-----------------------------------------------------------------------------
(* DebugCom_DmaSendPeriodTask, the DMA and BSP_USARTx_DMA_SendSucc         *)

\* Mutant: all that is in the ring is sent, past the end of the buffer.
AllOfIt == iCnt

Contiguous == IF iWriteCnt > iReadCnt THEN iWriteCnt - iReadCnt ELSE TxSize - iReadCnt

DmaSendPeriod ==
    /\ SystemTaskRuns
    /\ iFlg = "UART_SEND_END" /\ iReadCnt # iWriteCnt
    /\ iLastSendCnt' = Contiguous /\ taken' = 0
    /\ iFlg' = "UART_SENDING"
    /\ UNCHANGED <<ring, iReadCnt, out, writer, mixed>>

DmaByte ==
    /\ iFlg = "UART_SENDING" /\ taken < iLastSendCnt
    /\ taken' = taken + 1 /\ out' = out + 1
    /\ UNCHANGED <<ring, iReadCnt, iLastSendCnt, iFlg, writer, mixed>>

\* Mutant: the room is given back, and the transfer is still under way.
SendSuccNoFlag ==
    /\ iFlg = "UART_SENDING" /\ taken = iLastSendCnt
    /\ iReadCnt' = (iReadCnt + iLastSendCnt) % TxSize
    /\ iLastSendCnt' = 0 /\ taken' = 0
    /\ UNCHANGED <<iFlg, ring, out, writer, mixed>>

SendSucc ==
    /\ iFlg = "UART_SENDING" /\ taken = iLastSendCnt
    /\ iReadCnt' = (iReadCnt + iLastSendCnt) % TxSize
    /\ iLastSendCnt' = 0 /\ taken' = 0
    /\ iFlg' = "UART_SEND_END"
    /\ UNCHANGED <<ring, out, writer, mixed>>

TxNext ==
    \/ \E len \in 1..MaxLen : Send(len)
    \/ Put \/ LoadWrite \/ StoreWrite
    \/ SystemSend \/ DmaSendPeriod \/ DmaByte \/ SendSucc

TxSpec == TxInit /\ [][TxNext]_txVars

\* A writer that has begun goes on; the period function runs once every turn of
\* the system task, and the DMA and its interrupt are hardware.
TxFairSpec ==
    /\ TxSpec
    /\ WF_txVars(Put \/ LoadWrite \/ StoreWrite)
    /\ SF_txVars(DmaSendPeriod)
    /\ WF_txVars(DmaByte) /\ WF_txVars(SendSucc)

-----------------------------------------------------------------------------
(* Properties                                                              *)

\* What is in the ring and not yet sent is the rest of what was put there, in
\* order and complete, the bytes under the DMA included: no write overtakes the
\* DMA and no transfer takes bytes twice or leaves some out.  It ends when a
\* task prints while another one that did not lock the scheduler is printing.
UnsentIntact ==
    ~mixed =>
        /\ in - out = iCnt - taken
        /\ \A i \in 0..(in - out - 1) :
              DataBuf[(iReadCnt + taken + i) % TxSize] = out + 1 + i

\* What was put is sent.
PutIsSent == \A k \in 1..MaxSent : in = k /\ ~mixed ~> out >= k \/ mixed

=============================================================================
