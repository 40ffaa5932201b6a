------------------------------- MODULE MCUart -------------------------------
(* Both directions of a UART.  They share no state, so a behaviour is one  *)
(* of reception or one of sending, and not every pair of the two.          *)
EXTENDS UartRx, UartTx

VARIABLE half

RxStep == half = "rx" /\ Next /\ UNCHANGED <<half, txVars>>
TxStep == half = "tx" /\ TxNext /\ UNCHANGED <<half, vars>>

UartInit == half \in {"rx", "tx"} /\ Init /\ TxInit
UartNext == RxStep \/ TxStep

UartSpec ==
    /\ UartInit /\ [][UartNext]_<<half, vars, txVars>>
    /\ WF_vars(half = "rx" /\ Interrupt) /\ WF_vars(half = "rx" /\ Get_Char)
    /\ WF_txVars(half = "tx" /\ (Put \/ LoadWrite \/ StoreWrite))
    /\ SF_txVars(half = "tx" /\ DmaSendPeriod)
    /\ WF_txVars(half = "tx" /\ DmaByte) /\ WF_txVars(half = "tx" /\ SendSucc)

\* The counters of both rings stay in their range, the DMA and the reader inside
\* their buffers, the reader unless it was cut (bsp_uart.c).
UartTypeOK == TypeOK /\ TxTypeOK

=============================================================================
