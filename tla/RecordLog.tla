------------------------------ MODULE RecordLog ------------------------------
(***************************************************************************)
(* The circular log of records that llif_record.c keeps in a NAND flash.   *)
(* The read and the write position are in backup registers of the RTC,     *)
(* which a reset does not clear; llif_record_write erases blocks, programs *)
(* a slot of a page and moves the positions, one register at a time, under *)
(* a mutex.  A step below ends where a reset can leave another trace; an   *)
(* erase or a programming that is cut short is part of Reset.              *)
(*                                                                         *)
(* A record is its ordinal.  The day index and the two counters, which no  *)
(* operation reads back, and the read offset, which is always 0, are left  *)
(* out.                                                                    *)
(***************************************************************************)
EXTENDS Integers, FiniteSets

CONSTANTS NB,          \* usMaxBlockNum
          PPB,         \* usMaxPagePerBlock
          RPP,         \* MAX_RECORD_PER_PAGE
          MaxRecords,  \* bound: records offered
          MaxResets,   \* bound: resets
          MaxFaults,   \* bound: failing erases and programmings
          MaxRecovers  \* bound: RECORD_SELECT_RECOVERY_INDEX commands

ASSUME RecordLogAssumption ==
    /\ {NB, PPB, RPP} \subseteq Nat \ {0}
    /\ NB >= 3
    /\ {MaxRecords, MaxResets, MaxFaults, MaxRecovers} \subseteq Nat

VARIABLES
    nand,   \* content of every slot of every page, the first reserved block included
    rPage,  \* *pdwReadPagePos
    wPage,  \* *pdwWritePagePos
    wOff,   \* *pdwWritePageOffsetPos
    pc,     \* place in llif_record_write or llif_record_recovery
    cur,    \* the record of the call in progress, or of the last call
    ret,    \* what the last call returned
    refused, \* history: writes in a row that returned -1
    \* history and bounds
    dist,    \* pages from the read to the write position, not reduced modulo
    skipped, \* blocks passed over because they could not be erased
    hit,     \* pages that a reset left partly written under the write position
    mixed,   \* a recovery of the index was interrupted and not repeated since
    resets, faults, recovers

vars == <<nand, rPage, wPage, wOff, pc, cur, ret, refused,
          dist, skipped, hit, mixed, resets, faults, recovers>>

positions == <<rPage, wPage, wOff, dist>>
history   == <<skipped, hit, mixed>>
bounds    == <<resets, faults, recovers>>

Erased  == 0
Garbage == -1

MaxPage == NB * PPB                       \* dwMaxPageNum
Pages   == 0..(MaxPage + PPB - 1)         \* with one reserved block
Slots   == 0..(RPP - 1)
PagesOf(b) == (b * PPB)..(b * PPB + PPB - 1)
Block(p)   == p \div PPB

TypeOK ==
    /\ nand \in [Pages -> [Slots -> {Erased, Garbage} \cup 1..MaxRecords]]
    /\ rPage \in 0..(MaxPage - 1) /\ wPage \in 0..(MaxPage - 1) /\ wOff \in 0..RPP
    /\ pc \in {"idle", "erase_ahead", "erase_new", "program", "wrap_off",
               "wrap_page", "recover_r", "recover_w", "recover_off"}
    /\ cur \in 0..MaxRecords /\ refused \in Nat /\ ret \in {"none", "ok", "fail"}
    /\ dist \in Int /\ skipped \subseteq 0..NB /\ hit \subseteq Pages
    /\ mixed \in BOOLEAN
    /\ resets \in 0..MaxResets /\ faults \in 0..MaxFaults
    /\ recovers \in 0..MaxRecovers

Init ==
    /\ nand = [p \in Pages |-> [s \in Slots |-> Garbage]]
    /\ rPage = 0 /\ wPage = 0 /\ wOff = 0
    /\ pc = "idle" /\ cur = 0 /\ ret = "none" /\ refused = 0
    /\ dist = 0 /\ skipped = {} /\ hit = {} /\ mixed = FALSE
    /\ resets = 0 /\ faults = 0 /\ recovers = 0

-----------------------------------------------------------------------------
(* The flash: Nand_Block_Erase and Nand_Page_Write.                        *)

Fill(b, x) == [p \in Pages |-> IF p \in PagesOf(b) THEN [s \in Slots |-> x] ELSE nand[p]]

\* A slot that is not erased cannot be programmed again; an offset of RPP is
\* in the spare bytes of the page, where a record does not fit.
Programmed ==
    IF wOff = RPP THEN nand
    ELSE [nand EXCEPT ![wPage][wOff] = IF @ = Erased THEN cur ELSE Garbage]

\* What a failing programming, or one cut by a reset, leaves in the slot.
Torn ==
    IF wOff = RPP THEN {nand}
    ELSE {nand, [nand EXCEPT ![wPage][wOff] = Garbage]}

Return(r) ==
    /\ ret' = r
    /\ refused' = IF r = "fail" THEN refused + 1 ELSE 0

Fails == faults < MaxFaults /\ faults' = faults + 1
Works == UNCHANGED faults

-----------------------------------------------------------------------------
(* llif_record_write, RECORD_SELECT_CONTEXT                                *)

\* Mutant: the block is erased for each of its pages.
NewBlockEachPage == wOff = 0

\* Mutant: the free pages are what lies from the read to the write position.
PageFreeSwapped == (wPage + MaxPage - rPage) % MaxPage

page_free == MaxPage - ((wPage + MaxPage - rPage) % MaxPage)

NewBlock == wPage % PPB = 0 /\ wOff = 0
AfterAhead == IF NewBlock THEN "erase_new" ELSE "program"

Write ==
    /\ pc = "idle" /\ cur < MaxRecords
    /\ cur' = cur + 1 /\ ret' = "none"
    /\ pc' = IF page_free <= PPB THEN "erase_ahead" ELSE AfterAhead
    /\ UNCHANGED <<nand, refused, positions, history, bounds>>

\* The block that is cleared is the one after the block of the read position.
Ahead == Block(rPage) + 1
\* Mutant: the read position stays when the block ahead was erased.
MoveReadNot == UNCHANGED <<rPage, dist>>

MoveRead ==
    LET move_offset == PPB - (rPage % PPB) IN
    /\ rPage' = (rPage + move_offset) % MaxPage
    /\ dist' = dist - move_offset

\* Nand_Block_Erase returns TRUE for success, which is taken for an error here.
EraseAhead_Ok ==
    /\ pc = "erase_ahead" /\ Works
    /\ nand' = Fill(Ahead, Erased)
    /\ MoveRead
    /\ skipped' = skipped \ {Ahead, Block(rPage)}
    /\ hit' = hit \ PagesOf(Ahead)
    /\ pc' = "idle" /\ Return("fail")
    /\ UNCHANGED <<wPage, wOff, cur, mixed, resets, recovers>>

EraseAhead_Fail ==
    /\ pc = "erase_ahead" /\ Fails
    /\ nand' \in {nand, Fill(Ahead, Garbage)}
    /\ MoveRead
    /\ skipped' = skipped \ {Block(rPage)}
    /\ pc' = AfterAhead
    /\ UNCHANGED <<wPage, wOff, cur, ret, refused, hit, mixed, resets, recovers>>

EraseNew_Ok ==
    /\ pc = "erase_new" /\ Works
    /\ nand' = Fill(Block(wPage), Erased)
    /\ skipped' = skipped \ {Block(wPage)}
    /\ hit' = hit \ PagesOf(Block(wPage))
    /\ pc' = "program"
    /\ UNCHANGED <<positions, cur, ret, refused, mixed, resets, recovers>>

EraseNew_Fail ==
    /\ pc = "erase_new" /\ Fails
    /\ nand' \in {nand, Fill(Block(wPage), Garbage)}
    /\ wPage' = (wPage + PPB) % MaxPage
    /\ dist' = dist + PPB
    /\ skipped' = skipped \cup {Block(wPage)}
    /\ pc' = "idle" /\ Return("fail")
    /\ UNCHANGED <<rPage, wOff, cur, hit, mixed, resets, recovers>>

\* Mutant: success is returned whatever Nand_Page_Write returned.
ProgramAlwaysOk ==
    /\ pc = "program" /\ Return("ok")
    /\ \/ Works /\ nand' = Programmed
       \/ Fails /\ nand' \in Torn
    /\ wOff' = IF wOff = RPP THEN wOff ELSE wOff + 1
    /\ pc' = IF wOff + 1 >= RPP THEN "wrap_off" ELSE "idle"
    /\ UNCHANGED <<rPage, wPage, dist, cur, history, resets, recovers>>

\* The write offset moves on whether the page was written or not.  (From RPP,
\* where a reset can leave it, it goes to RPP + 1: no less out of the page.)
Program ==
    /\ pc = "program"
    /\ \/ Works /\ nand' = Programmed /\ Return("ok")
       \/ Fails /\ nand' \in Torn /\ Return("fail")
    /\ wOff' = IF wOff = RPP THEN wOff ELSE wOff + 1
    /\ pc' = IF wOff + 1 >= RPP THEN "wrap_off" ELSE "idle"
    /\ UNCHANGED <<rPage, wPage, dist, cur, history, resets, recovers>>

WrapOffset ==
    /\ pc = "wrap_off"
    /\ wOff' = 0 /\ pc' = "wrap_page"
    /\ UNCHANGED <<nand, rPage, wPage, dist, cur, ret, refused, history, bounds>>

WrapPage ==
    /\ pc = "wrap_page"
    /\ wPage' = (wPage + 1) % MaxPage /\ dist' = dist + 1
    /\ pc' = "idle"
    /\ UNCHANGED <<nand, rPage, wOff, cur, ret, refused, history, bounds>>

-----------------------------------------------------------------------------
(* llif_record_write, RECORD_SELECT_RECOVERY_INDEX                         *)

Recover ==
    /\ pc = "idle" /\ recovers < MaxRecovers
    /\ recovers' = recovers + 1
    /\ pc' = "recover_r" /\ ret' = "none" /\ refused' = 0
    /\ UNCHANGED <<nand, positions, cur, history, resets, faults>>

RecoverRead ==
    /\ pc = "recover_r"
    /\ rPage' = 0 /\ dist' = wPage
    /\ pc' = "recover_w"
    /\ UNCHANGED <<nand, wPage, wOff, cur, ret, refused, history, bounds>>

RecoverWrite ==
    /\ pc = "recover_w"
    /\ wPage' = 0 /\ dist' = 0
    /\ pc' = "recover_off"
    /\ UNCHANGED <<nand, rPage, wOff, cur, ret, refused, history, bounds>>

RecoverOffset ==
    /\ pc = "recover_off"
    /\ wOff' = 0 /\ skipped' = {} /\ mixed' = FALSE
    /\ pc' = "idle"
    /\ UNCHANGED <<nand, rPage, wPage, dist, cur, ret, refused, hit, bounds>>

-----------------------------------------------------------------------------
(* A reset.  The registers and the flash stay; llif_record_Init finds its  *)
(* mark in RTC_BKP2 and keeps the positions.                               *)

CutShort ==
    CASE pc = "erase_ahead" -> {nand, Fill(Ahead, Erased), Fill(Ahead, Garbage)}
      [] pc = "erase_new" -> {nand, Fill(Block(wPage), Erased), Fill(Block(wPage), Garbage)}
      [] pc = "program" -> {Programmed} \cup Torn
      [] OTHER -> {nand}

Reset ==
    /\ resets < MaxResets /\ resets' = resets + 1
    /\ nand' \in CutShort
    /\ hit' = hit \cup (IF pc = "recover_off" THEN PagesOf(0) ELSE {wPage})
    /\ mixed' = (mixed \/ pc \in {"recover_w", "recover_off"})
    /\ pc' = "idle" /\ ret' = "none"
    /\ UNCHANGED <<positions, refused, cur, skipped, faults, recovers>>

-----------------------------------------------------------------------------
WriteSteps ==
    \/ EraseAhead_Ok \/ EraseAhead_Fail \/ EraseNew_Ok \/ EraseNew_Fail
    \/ Program \/ WrapOffset \/ WrapPage
    \/ RecoverRead \/ RecoverWrite \/ RecoverOffset

Next == Write \/ Recover \/ WriteSteps \/ Reset

Spec == Init /\ [][Next]_vars

-----------------------------------------------------------------------------
(* What a reader finds between the read and the write position.            *)

LogPages == 0..(MaxPage - 1)

\* How far a page is from the read position.
Behind(p) == (p + MaxPage - rPage) % MaxPage

\* The slots that were written, or passed over.  While the write position wraps,
\* the page just filled still counts.
Passed(p, s) ==
    \/ Behind(p) < dist
    \/ Behind(p) = dist /\ (s < wOff \/ pc = "wrap_page")

Readable(p, s) == nand[p][s] > 0 /\ Block(p) \notin skipped

\* In a full log the block of the read position is given up together with the
\* next one, as soon as that one holds nothing.
FirstKept ==
    IF /\ page_free <= PPB
       /\ \A p \in LogPages, s \in Slots : Behind(p) \in PPB..(2 * PPB - 1) => ~Readable(p, s)
    THEN PPB ELSE 0

\* The pages and slots in which a reader finds a record.
Found ==
    LET first == FirstKept
    IN {x \in LogPages \X Slots :
           Behind(x[1]) >= first /\ Passed(x[1], x[2]) /\ Readable(x[1], x[2])}

\* After a recovery that was cut short the positions mean nothing until it is
\* repeated.
Trusted == ~mixed /\ pc \notin {"recover_w", "recover_off"}

\* The records, which InOrder says are found in the order of their numbers.
Records == IF Trusted THEN {nand[x[1]][x[2]] : x \in Found} ELSE {}

Fifo == INSTANCE RecordFifo WITH log <- Records, PageSize <- RPP, Record <- 1..MaxRecords

-----------------------------------------------------------------------------
(* Properties                                                              *)

\* The write position never reaches the read position from behind, whatever
\* fails and whenever the device is reset: equal positions always mean an
\* empty log, never a full one (the test of page_free in llif_record_write).
NeverLaps ==
    /\ TypeOK
    /\ dist \in 0..(MaxPage - 1)
    /\ dist = (wPage + MaxPage - rPage) % MaxPage

\* A record whose write returned 0 is in the log, in the slot before the write
\* position, unless it went to a page that a reset had left half written (the
\* return value of llif_record_write).
ReportedIsStored ==
    pc = "idle" /\ ret = "ok" /\ ~mixed =>
        LET p == IF wOff = 0 THEN (wPage + MaxPage - 1) % MaxPage ELSE wPage
            s == IF wOff = 0 THEN RPP - 1 ELSE wOff - 1
        IN p \in hit \/ (<<p, s>> \in Found /\ nand[p][s] = cur)

\* Of two records that a reader finds the one further on is the newer.  In a page
\* that a reset hit, old records can lie behind new ones: that page is written
\* from its start again, over what it holds.
InOrder ==
    Trusted =>
        \A x, y \in Found :
            Behind(x[1]) < Behind(y[1]) \/ (x[1] = y[1] /\ x[2] < y[2]) =>
                \/ nand[x[1]][x[2]] < nand[y[1]][y[2]]
                \/ x[1] = y[1] /\ x[1] \in hit

\* The log is a queue: records are added at its end, given up from its front,
\* and at most those of the page that is being written are damaged by a reset.
FifoSpec == Fifo!Spec

\* A full log does not get stuck: of two writes in a row one succeeds, but for
\* those that a failing erase costs, two for each (the write that moves the read
\* position is itself refused, and a skipped block may fill the log again).
NotStuck == refused <= 1 + 2 * faults

\* The comments at llif_record.c:125 and 133: the read position is moved to the
\* next block because of what the erase takes from it, so that from there on
\* nothing is missing while no operation fails.  The code erases the block that
\* it then moves to.
UnreadIntact ==
    faults + resets + recovers = 0 => \A p \in LogPages, s \in Slots : Passed(p, s) => nand[p][s] > 0

=============================================================================
