------------------------------- MODULE UartRx -------------------------------
(***************************************************************************)
(* Reception on a UART (bsp_uart.c): the DMA writes a circular buffer, the *)
(* idle interrupt publishes how far it has come and looks for an overflow, *)
(* the transfer-complete interrupt counts laps, and one task takes bytes   *)
(* with BSP_USARTx_Get_Char.  No lock is taken: the task's steps are its   *)
(* loads and stores of the counters that the interrupts change.            *)
(*                                                                         *)
(* A byte is its ordinal on the line.  An interrupt is served before the   *)
(* task goes on and within the time of one character.                      *)
(***************************************************************************)
EXTENDS Integers

CONSTANTS Size,     \* USARTx_Rev_Buff_Size
          Width,    \* 2^16, the range of the counters
          MaxBytes  \* bound: bytes on the line

ASSUME UartRxAssumption ==
    /\ {Size, Width, MaxBytes} \subseteq Nat
    /\ 2 <= Size /\ Size < Width

VARIABLES
    buf,    \* pUSARTx_Rev_Buff
    pos,    \* where the DMA writes next: Size less its transfer number
    dma,    \* the DMA channel is enabled
    full,   \* DMA transfer-complete interrupt pending
    idle,   \* UART idle interrupt pending
    busy,   \* a byte came since the line was last idle
    isr,    \* place in BSP_USARTx_DMA_Receive
    usReadCnt, usWriteCnt, usWriteCntbackup,
    pc, byte, tmp,  \* the task in BSP_USARTx_Get_Char: place, byte read, register
    \* history and bound
    n,      \* bytes on the line so far
    base,   \* n when the DMA was last enabled
    put, got, \* bytes stored and taken since
    over,   \* the DMA ran over an unread byte since
    cut,    \* an overflow was handled inside Get_Char since
    raced,  \* a lap was counted inside the task's usWriteCntbackup-- since
    round,  \* usWriteCntbackup went past its range since
    halved  \* an overflow was looked for between that and usReadCnt = 0 since

counters == <<usReadCnt, usWriteCnt, usWriteCntbackup>>
hardware == <<buf, pos, dma, full, idle, busy, n, base, put, over>>
task     == <<pc, byte, tmp, got>>
marks    == <<cut, raced, round, halved>>
vars == <<hardware, isr, counters, task, marks>>

Stray == 0   \* what lies behind the buffer, and in it before the first byte

TypeOK ==
    /\ buf \in [0..(Size - 1) -> 0..MaxBytes]
    /\ pos \in 0..(Size - 1)
    /\ {dma, full, idle, busy, over, cut, raced, round, halved} \subseteq BOOLEAN
    /\ isr \in {"none", "check"}
    /\ usReadCnt \in 0..(Width - 1) /\ usWriteCnt \in 0..(Size - 1)
    /\ usWriteCntbackup \in 0..(Width - 1)
    \* The reader is inside the buffer unless an overflow was handled inside
    \* Get_Char: then usReadCnt++ adds to a counter that was tested before.
    /\ usReadCnt < Size \/ cut
    /\ pc \in {"out", "read", "test", "wrap_load", "wrap_store", "wrap_zero",
               "inc_load", "inc_store", "restart"}
    /\ byte \in 0..MaxBytes /\ tmp \in 0..(Width - 1)
    /\ n \in 0..MaxBytes /\ base \in 0..n /\ put \in 0..n /\ got \in Nat

\* BSP_USARTx_DMA_Init clears the counters and enables the DMA.
Init ==
    /\ buf = [i \in 0..(Size - 1) |-> Stray] /\ pos = 0 /\ dma = TRUE
    /\ full = FALSE /\ idle = FALSE /\ busy = FALSE /\ isr = "none"
    /\ usReadCnt = 0 /\ usWriteCnt = 0 /\ usWriteCntbackup = 0
    /\ pc = "out" /\ byte = Stray /\ tmp = 0
    /\ n = 0 /\ base = 0 /\ put = 0 /\ got = 0
    /\ over = FALSE /\ cut = FALSE /\ raced = FALSE
    /\ round = FALSE /\ halved = FALSE

-----------------------------------------------------------------------------
(* The line and the DMA                                                    *)

\* A byte that comes while the DMA is disabled is lost.  An interrupt handler is
\* shorter than a character.
Byte ==
    /\ n < MaxBytes /\ ~full /\ ~idle
    /\ isr = "check" => pos = usWriteCnt
    /\ n' = n + 1 /\ busy' = TRUE
    /\ IF dma
       THEN /\ buf' = [buf EXCEPT ![pos] = n + 1]
            /\ pos' = (pos + 1) % Size
            /\ full' = (pos + 1 = Size)
            /\ put' = put + 1
            /\ over' = (over \/ put + 1 - got > Size)
       ELSE UNCHANGED <<buf, pos, full, put, over>>
    /\ UNCHANGED <<dma, idle, base, isr, counters, task, marks>>

LineIdle ==
    /\ busy /\ ~full /\ isr = "none"
    /\ busy' = FALSE /\ idle' = TRUE
    /\ UNCHANGED <<buf, pos, dma, full, n, base, put, over, isr, counters, task, marks>>

-----------------------------------------------------------------------------
(* The interrupts: BSP_USARTx_DMA_WriteBak and BSP_USARTx_DMA_Receive      *)

WriteBak ==
    /\ full /\ isr = "none"
    /\ full' = FALSE
    /\ usWriteCntbackup' = (usWriteCntbackup + 1) % Width
    /\ raced' = (raced \/ pc = "wrap_store")
    /\ round' = (round \/ usWriteCntbackup + 1 = Width)
    /\ UNCHANGED <<buf, pos, dma, idle, busy, n, base, put, over, isr,
                   usReadCnt, usWriteCnt, task, cut, halved>>

ReceiveCount ==
    /\ idle /\ isr = "none"
    /\ idle' = FALSE
    /\ IF dma THEN isr' = "check" /\ usWriteCnt' = pos
              ELSE UNCHANGED <<isr, usWriteCnt>>
    /\ UNCHANGED <<buf, pos, dma, full, busy, n, base, put, over, usReadCnt,
                   usWriteCntbackup, task, marks>>

\* Mutant: a write position that has caught up with the reader is no overflow.
OverflowStrict ==
    \/ usWriteCntbackup = 1 /\ usWriteCnt > usReadCnt
    \/ usWriteCntbackup > 1

Overflow ==
    \/ usWriteCntbackup = 1 /\ usWriteCnt >= usReadCnt
    \/ usWriteCntbackup > 1

Oldest == (usWriteCnt + 1) % Size

ReceiveCheck ==
    /\ isr = "check" /\ isr' = "none"
    /\ IF Overflow
       THEN dma' = FALSE /\ usReadCnt' = Oldest /\ cut' = (cut \/ pc # "out")
       ELSE UNCHANGED <<dma, usReadCnt, cut>>
    /\ halved' = (halved \/ pc = "wrap_zero")
    /\ UNCHANGED <<buf, pos, full, idle, busy, n, base, put, over, usWriteCnt,
                   usWriteCntbackup, task, raced, round>>

-----------------------------------------------------------------------------
(* BSP_USARTx_Get_Char                                                     *)

Running == ~full /\ ~idle /\ isr = "none"

Step(from, to) == Running /\ pc = from /\ pc' = to

Compare ==
    /\ Running /\ pc = "out"
    /\ pc' = IF usReadCnt # usWriteCnt THEN "read" ELSE "restart"
    /\ UNCHANGED <<hardware, isr, counters, byte, tmp, got, marks>>

ReadByte ==
    /\ Step("read", "test")
    /\ byte' = IF usReadCnt < Size THEN buf[usReadCnt] ELSE Stray
    /\ UNCHANGED <<hardware, isr, counters, tmp, got, marks>>

Test ==
    /\ Running /\ pc = "test"
    /\ pc' = IF (usReadCnt + 1) % Size = 0 THEN "wrap_load" ELSE "inc_load"
    /\ UNCHANGED <<hardware, isr, counters, byte, tmp, got, marks>>

WrapLoad ==
    /\ Step("wrap_load", "wrap_store")
    /\ tmp' = usWriteCntbackup
    /\ UNCHANGED <<hardware, isr, counters, byte, got, marks>>

\* Mutant: the lap the reader has finished is not taken off.
WrapStoreNothing ==
    /\ Step("wrap_store", "wrap_zero")
    /\ UNCHANGED <<hardware, isr, counters, byte, tmp, got, marks>>

WrapStore ==
    /\ Step("wrap_store", "wrap_zero")
    /\ usWriteCntbackup' = (tmp + Width - 1) % Width
    /\ UNCHANGED <<hardware, isr, usReadCnt, usWriteCnt, byte, tmp, got, marks>>

WrapZero ==
    /\ Step("wrap_zero", "restart")
    /\ usReadCnt' = 0 /\ got' = got + 1
    /\ UNCHANGED <<hardware, isr, usWriteCnt, usWriteCntbackup, byte, tmp, marks>>

IncLoad ==
    /\ Step("inc_load", "inc_store")
    /\ tmp' = usReadCnt
    /\ UNCHANGED <<hardware, isr, counters, byte, got, marks>>

IncStore ==
    /\ Step("inc_store", "restart")
    /\ usReadCnt' = (tmp + 1) % Width /\ got' = got + 1
    /\ UNCHANGED <<hardware, isr, usWriteCnt, usWriteCntbackup, byte, tmp, marks>>

\* Mutant: the write counter keeps its value when the DMA starts again.
RestartKeepsWrite ==
    /\ Step("restart", "out")
    /\ IF ~dma /\ usReadCnt = usWriteCnt
       THEN /\ usReadCnt' = 0 /\ usWriteCntbackup' = 0
            /\ pos' = 0 /\ dma' = TRUE /\ full' = FALSE
            /\ base' = n /\ put' = 0 /\ got' = 0
            /\ over' = FALSE /\ cut' = FALSE /\ raced' = FALSE
            /\ round' = FALSE /\ halved' = FALSE
       ELSE UNCHANGED <<usReadCnt, usWriteCntbackup, pos, dma, full, base, put, got,
                        over, marks>>
    /\ UNCHANGED <<buf, idle, busy, n, isr, usWriteCnt, byte, tmp>>

\* Mutant: the DMA starts again only when both counters are 0.
RestartAtZero ==
    /\ Step("restart", "out")
    /\ IF ~dma /\ usReadCnt = 0 /\ usWriteCnt = 0
       THEN /\ usWriteCntbackup' = 0
            /\ pos' = 0 /\ dma' = TRUE /\ full' = FALSE
            /\ base' = n /\ put' = 0 /\ got' = 0
            /\ over' = FALSE /\ cut' = FALSE /\ raced' = FALSE
            /\ round' = FALSE /\ halved' = FALSE
       ELSE UNCHANGED <<usWriteCntbackup, pos, dma, full, base, put, got, over, marks>>
    /\ UNCHANGED <<buf, idle, busy, n, isr, usReadCnt, usWriteCnt, byte, tmp>>

\* BSP_USARTx_DMA_Restart.  With the DMA off no interrupt changes a counter.
Restart ==
    /\ Step("restart", "out")
    /\ IF ~dma /\ usReadCnt = usWriteCnt
       THEN /\ usReadCnt' = 0 /\ usWriteCnt' = 0 /\ usWriteCntbackup' = 0
            /\ pos' = 0 /\ dma' = TRUE /\ full' = FALSE
            /\ base' = n /\ put' = 0 /\ got' = 0
            /\ over' = FALSE /\ cut' = FALSE /\ raced' = FALSE
            /\ round' = FALSE /\ halved' = FALSE
       ELSE UNCHANGED <<counters, pos, dma, full, base, put, got, over, marks>>
    /\ UNCHANGED <<buf, idle, busy, n, isr, byte, tmp>>

Get_Char ==
    \/ Compare \/ ReadByte \/ Test \/ WrapLoad \/ WrapStore \/ WrapZero
    \/ IncLoad \/ IncStore \/ Restart

Interrupt == WriteBak \/ ReceiveCount \/ ReceiveCheck

Next == Byte \/ LineIdle \/ Interrupt \/ Get_Char

Spec == Init /\ [][Next]_vars

\* A pending interrupt is served, and the task reads on.
FairSpec == Spec /\ WF_vars(Interrupt) /\ WF_vars(Get_Char)

-----------------------------------------------------------------------------
(* Properties                                                              *)

Holding == pc \in {"test", "wrap_load", "wrap_store", "wrap_zero", "inc_load", "inc_store"}

\* Until an overflow, noticed or not, every byte of the line is taken once
\* and in order, across laps (usWriteCntbackup) and after an earlier overflow
\* (BSP_USARTx_DMA_Restart).
TakenInOrder == Holding /\ dma /\ ~over => byte = base + got + 1

\* The counters tell how many bytes are unread: a lap is counted once and taken
\* off once, whatever the order of the interrupts and of the task's steps,
\* unless it was counted between the load and the store of usWriteCntbackup--, or
\* the line was busy for so many laps that usWriteCntbackup began again at 0.
LapsCounted ==
    pc = "out" /\ Running /\ dma /\ ~raced /\ ~round =>
        put - got = usWriteCntbackup * Size + pos - usReadCnt

\* A buffer that is full when the line falls idle does not stay unnoticed
\* (BSP_USARTx_DMA_Receive), unless the interrupt found the reader half way
\* round, or the laps were miscounted.  One that was overrun may: the task goes
\* on up to the write position of the last idle time while the DMA writes there,
\* and when it has made room nothing tells any more.
FullNoticed ==
    dma /\ pc = "out" /\ Running /\ ~busy /\ ~raced /\ ~round /\ ~halved => put - got < Size

\* Reception goes on after every overflow, even after the reader left the
\* buffer: the counter comes round.
Resumes == ~dma ~> dma

=============================================================================
