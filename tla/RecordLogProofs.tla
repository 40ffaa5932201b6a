--------------------------- MODULE RecordLogProofs ---------------------------
(***************************************************************************)
(* Theorems of RecordLog, for every size of the flash, number of records   *)
(* and any failures, resets and recoveries of the index: the write         *)
(* position never reaches the read position from behind, a full log does   *)
(* not refuse records for ever, and a record that was reported as written  *)
(* is where a reader finds it.                                             *)
(***************************************************************************)
EXTENDS RecordLog, FiniteSetTheorems, TLAPS

(***************************************************************************)
(* The invariant.                                                          *)
(***************************************************************************)

\* The read position is at the start of a block.
BlockStart(p) == \E b \in 0..(NB - 1) : p = b * PPB

\* No page more than a block is free: the next write clears a block ahead.
Full == dist + PPB >= MaxPage

\* Places in llif_record_write after the free pages were looked at.
Writing == {"erase_new", "program", "wrap_off", "wrap_page"}

\* The write position is dist pages from the read position, around the ring.
Positions ==
  /\ rPage \in 0..(MaxPage - 1) /\ wPage \in 0..(MaxPage - 1) /\ BlockStart(rPage)
  /\ dist \in 0..(MaxPage - 1)
  /\ rPage + dist \in {wPage, wPage + MaxPage}

\* What a call in progress knows of the positions.
Called ==
  /\ pc = "erase_ahead" => Full
  /\ pc \in Writing => ~Full
  /\ pc = "recover_w" => rPage = 0

\* Refusals are paid for by faults, two for each; one more while there is room.
Refusals ==
  /\ refused \in Nat /\ faults \in Nat
  /\ refused <= 1 + 2 * faults
  /\ Full \/ pc \in {"wrap_off", "wrap_page"} => refused <= 2 * faults
  /\ pc \in {"recover_r", "recover_w", "recover_off"} => refused = 0

IInv == TypeOK /\ Positions /\ Called /\ Refusals

(***************************************************************************)
(* What lies in the flash under and behind the write position.             *)
(***************************************************************************)

\* The next write begins with the erasing of the block under the write position.
EraseDue == NewBlock /\ pc \in {"idle", "erase_ahead", "erase_new", "recover_r"}

\* A slot that is still to be written before the next block is erased.
Unwritten(p, s) ==
  /\ Block(p) = Block(wPage)
  /\ p > wPage \/ (p = wPage /\ s >= wOff /\ pc # "wrap_page")

\* Such a slot is erased, unless a reset came to its page.
Clean ==
  Trusted /\ ~EraseDue =>
    /\ \A p \in Pages, s \in Slots :
         Unwritten(p, s) => nand[p][s] = Erased \/ (p = wPage /\ p \in hit)
    /\ Block(wPage) \notin skipped
    /\ wOff = RPP /\ pc # "wrap_off" => wPage \in hit

\* What is known at the places of llif_record_write.
Midway ==
  /\ pc \in Writing \cup {"erase_ahead"} => cur >= 1
  /\ pc = "erase_new" => NewBlock
  /\ pc = "wrap_off" => wOff = RPP
  /\ pc = "wrap_page" => wOff = 0
  /\ pc \in {"recover_r", "recover_w", "recover_off"} => ret = "none"
  /\ pc = "recover_off" => wPage = 0 /\ dist = 0

\* The slot written last.
LastPage ==
  IF wOff # 0 \/ pc = "wrap_page" THEN wPage
  ELSE IF wPage = 0 THEN MaxPage - 1 ELSE wPage - 1
LastSlot == IF wOff = 0 THEN RPP - 1 ELSE wOff - 1

\* It holds the record of a write that is to return 0.
Stored ==
  pc \in {"idle", "wrap_off", "wrap_page"} /\ ret = "ok" /\ ~mixed =>
    /\ \/ LastPage \in hit
       \/ nand[LastPage][LastSlot] = cur /\ Block(LastPage) \notin skipped
    /\ cur >= 1
    /\ pc = "idle" /\ wOff = 0 => dist >= 1

Storage == Clean /\ Midway /\ Stored

(***************************************************************************)
(* The order of the records.                                               *)
(***************************************************************************)

\* No record is newer than that of the call, nor as new before it is programmed.
Older ==
  \A p \in Pages, s \in Slots :
    /\ nand[p][s] <= cur
    /\ pc \in {"erase_ahead", "erase_new", "program"} => nand[p][s] < cur

\* The pages that the log has come to.
Reached(p) == Behind(p) < dist \/ (p = wPage /\ ~EraseDue)

Present(p, s) == Reached(p) /\ Readable(p, s)

\* The order of the slots, but for those of a page that a reset came to.
Precedes(p, s, q, t) == Behind(p) < Behind(q) \/ (p = q /\ s < t /\ p \notin hit)

Ordered ==
  Trusted =>
    \A p \in LogPages, s \in Slots, q \in LogPages, t \in Slots :
      Present(p, s) /\ Present(q, t) /\ Precedes(p, s, q, t) => nand[p][s] < nand[q][t]

\* Only a reset marks a page.
Marks == resets \in Nat /\ (resets = 0 => hit = {})

Order == Older /\ Ordered /\ Marks

(***************************************************************************)
(* Lemmas.                                                                 *)
(***************************************************************************)

\* The flash has three blocks or more, of a page or more, of a record or more.
LEMMA Sizes ==
  /\ NB \in Nat /\ NB >= 3 /\ PPB \in Nat /\ PPB >= 1 /\ RPP \in Nat /\ RPP >= 1
  /\ MaxRecords \in Nat /\ MaxResets \in Nat /\ MaxFaults \in Nat /\ MaxRecovers \in Nat
  /\ MaxPage \in Nat /\ MaxPage >= 3 * PPB
<1>1. /\ NB \in Nat /\ NB >= 3 /\ PPB \in Nat /\ PPB >= 1 /\ RPP \in Nat /\ RPP >= 1
      /\ MaxRecords \in Nat /\ MaxResets \in Nat /\ MaxFaults \in Nat /\ MaxRecovers \in Nat
  BY RecordLogAssumption
<1>2. NB * PPB \in Nat /\ NB * PPB >= 3 * PPB
  <2>1. (NB - 3) * PPB \in Nat /\ (NB - 3) * PPB = NB * PPB - 3 * PPB
    BY <1>1
  <2>2. QED
    BY <1>1, <2>1
<1>3. QED
  BY <1>1, <1>2 DEF MaxPage

\* A position that goes on by no more than the ring is taken around it once.
LEMMA Around ==
  ASSUME NEW m \in Nat, m > 0, NEW a \in Nat, a < 2 * m
  PROVE  a % m = IF a < m THEN a ELSE a - m
<1>1. CASE a < m
  BY <1>1
<1>2. CASE a >= m
  <2>1. a - m \in 0..(m - 1) /\ a = m * 1 + (a - m)
    BY <1>2
  <2>2. QED
    BY <1>2, <2>1
<1>3. QED
  BY <1>1, <1>2

\* Division with remainder.
LEMMA Divide ==
  ASSUME NEW m \in Nat, m > 0, NEW a \in Nat, NEW n \in Nat, a < n * m
  PROVE  a \div m \in 0..(n - 1) /\ m * (a \div m) <= a /\ a < m * (a \div m) + m
<1>1. a \div m \in Nat /\ m * (a \div m) <= a /\ a < m * (a \div m) + m
  OBVIOUS
<1>2. a \div m < n
  OBVIOUS
<1>3. QED
  BY <1>1, <1>2

\* A number that leaves no remainder is a multiple, and the quotient tells which.
LEMMA Multiple ==
  ASSUME NEW m \in Nat, m > 0, NEW a \in Nat
  PROVE  /\ a = m * (a \div m) + (a % m)
         /\ a \div m \in Nat /\ m * (a \div m) \in Nat /\ a % m \in 0..(m - 1)
<1>1. a = m * (a \div m) + (a % m)
  OBVIOUS
<1>2. a \div m \in Nat /\ m * (a \div m) \in Nat
  OBVIOUS
<1>3. a % m \in 0..(m - 1)
  OBVIOUS
<1>4. QED
  BY <1>1, <1>2, <1>3

\* The block of a page of the log is one of its blocks.
LEMMA BlockOfPage ==
  ASSUME NEW p \in 0..(MaxPage - 1)
  PROVE  Block(p) \in 0..(NB - 1)
<1>1. p \in Nat /\ p < NB * PPB /\ PPB \in Nat /\ PPB > 0 /\ NB \in Nat
  BY Sizes DEF MaxPage
<1>2. QED
  BY <1>1, Divide DEF Block

\* The read position goes from the start of a block to that of the next one.
LEMMA NextBlock ==
  ASSUME NEW p \in 0..(MaxPage - 1), BlockStart(p)
  PROVE  /\ p % PPB = 0 /\ p + PPB <= MaxPage
         /\ (p + PPB) % MaxPage = IF p + PPB = MaxPage THEN 0 ELSE p + PPB
         /\ BlockStart((p + PPB) % MaxPage)
         /\ (p + PPB) % MaxPage \in 0..(MaxPage - 1)
<1>1. PICK b \in 0..(NB - 1) : p = b * PPB
  BY DEF BlockStart
<1>2. p % PPB = 0
  BY <1>1, Sizes
<1>3. (b + 1) * PPB = p + PPB /\ (NB - (b + 1)) * PPB \in Nat
      /\ (NB - (b + 1)) * PPB = NB * PPB - (b + 1) * PPB
  BY <1>1, Sizes
<1>4. p + PPB <= MaxPage
  BY <1>1, <1>3, Sizes DEF MaxPage
<1>5. (p + PPB) % MaxPage = IF p + PPB = MaxPage THEN 0 ELSE p + PPB
  BY <1>4, Around, Sizes
<1>6. BlockStart((p + PPB) % MaxPage)
  <2>1. CASE p + PPB = MaxPage
    <3>1. 0 \in 0..(NB - 1) /\ 0 = 0 * PPB
      BY Sizes
    <3>2. QED
      BY <1>5, <2>1, <3>1 DEF BlockStart
  <2>2. CASE p + PPB # MaxPage
    <3>1. b + 1 \in 0..(NB - 1)
      BY <1>1, <1>3, <2>2, Sizes DEF MaxPage
    <3>2. QED
      BY <1>3, <1>5, <2>2, <3>1 DEF BlockStart
  <2>3. QED
    BY <2>1, <2>2
<1>7. QED
  BY <1>2, <1>4, <1>5, <1>6, Sizes

\* The free pages, as llif_record_write computes them.
LEMMA FreePages ==
  ASSUME Positions
  PROVE  /\ dist = (wPage + MaxPage - rPage) % MaxPage
         /\ (page_free <= PPB) <=> Full
<1>1. /\ rPage \in 0..(MaxPage - 1) /\ wPage \in 0..(MaxPage - 1) /\ dist \in 0..(MaxPage - 1)
      /\ rPage + dist = wPage \/ rPage + dist = wPage + MaxPage
  BY DEF Positions
<1>2. wPage + MaxPage - rPage \in Nat /\ wPage + MaxPage - rPage < 2 * MaxPage
  BY <1>1, Sizes
<1>3. dist = (wPage + MaxPage - rPage) % MaxPage
  BY <1>1, <1>2, Around, Sizes
<1>4. QED
  BY <1>1, <1>3, Sizes DEF page_free, Full

\* What an erase or a programming leaves of the flash is a flash.
LEMMA FlashTyped ==
  ASSUME TypeOK, NEW b, NEW x \in {Erased, Garbage}
  PROVE  /\ Fill(b, x) \in [Pages -> [Slots -> {Erased, Garbage} \cup 1..MaxRecords]]
         /\ Programmed \in [Pages -> [Slots -> {Erased, Garbage} \cup 1..MaxRecords]]
         /\ Torn \subseteq [Pages -> [Slots -> {Erased, Garbage} \cup 1..MaxRecords]]
<1> DEFINE Slot == {Erased, Garbage} \cup 1..MaxRecords
<1>1. nand \in [Pages -> [Slots -> Slot]] /\ cur \in Slot
  BY Sizes DEF TypeOK, Erased
<1>2. Garbage \in Slot
  OBVIOUS
<1> HIDE DEF Slot
<1>3. Fill(b, x) \in [Pages -> [Slots -> Slot]]
  <2>1. x \in Slot
    BY DEF Slot
  <2>2. QED
    BY <1>1, <2>1 DEF Fill
<1>4. Programmed \in [Pages -> [Slots -> Slot]]
  BY <1>1, <1>2 DEF Programmed
<1>5. Torn \subseteq [Pages -> [Slots -> Slot]]
  BY <1>1, <1>2 DEF Torn
<1>6. QED
  BY <1>3, <1>4, <1>5 DEF Slot

\* The pages of the log are among those of the flash, those of its first block too.
LEMMA PagesOfLog == 0..(MaxPage - 1) \subseteq Pages /\ PagesOf(0) \subseteq Pages
BY Sizes DEF Pages, PagesOf

(***************************************************************************)
(* The induction.                                                          *)
(***************************************************************************)

\* The first state satisfies the invariant.
LEMMA InitIInv == Init => IInv
<1> SUFFICES ASSUME Init PROVE IInv
  OBVIOUS
<1>1. TypeOK
  <2>1. nand \in [Pages -> [Slots -> {Erased, Garbage} \cup 1..MaxRecords]]
    BY DEF Init
  <2>2. /\ 0 \in 0..(MaxPage - 1) /\ 0 \in 0..RPP /\ 0 \in 0..MaxRecords
        /\ 0 \in 0..MaxResets /\ 0 \in 0..MaxFaults /\ 0 \in 0..MaxRecovers
    BY Sizes
  <2>3. pc \in {"idle"} /\ ret \in {"none"} /\ mixed \in BOOLEAN
    BY DEF Init
  <2>4. skipped \subseteq 0..NB /\ hit \subseteq Pages
    BY DEF Init
  <2>5. QED
    BY <2>1, <2>2, <2>3, <2>4 DEF Init, TypeOK
<1>2. Positions
  <2>1. 0 \in 0..(NB - 1) /\ 0 = 0 * PPB
    BY Sizes
  <2>2. QED
    BY <2>1, Sizes DEF Init, Positions, BlockStart
<1>3. Called /\ Refusals
  BY Sizes DEF Init, Called, Refusals, Full, Writing
<1>4. QED
  BY <1>1, <1>2, <1>3 DEF IInv

\* A write that begins: what it goes on with is what the free pages say.
LEMMA WriteIInv ==
  ASSUME IInv, Write
  PROVE  IInv'
<1>1. /\ pc = "idle" /\ cur' = cur + 1 /\ cur < MaxRecords /\ ret' = "none"
      /\ UNCHANGED <<nand, refused, positions, history, bounds>>
      /\ pc' = IF page_free <= PPB THEN "erase_ahead" ELSE AfterAhead
  BY DEF Write
<1>2. pc' = IF Full THEN "erase_ahead" ELSE AfterAhead
  <2>1. Positions
    BY DEF IInv
  <2>2. QED
    BY <1>1, <2>1, FreePages
<1>3. AfterAhead \in {"erase_new", "program"}
  BY DEF AfterAhead
<1>4. TypeOK'
  <2>1. cur' \in 0..MaxRecords
    BY <1>1, Sizes DEF IInv, TypeOK
  <2>2. QED
    BY <1>1, <1>2, <1>3, <2>1 DEF IInv, TypeOK, positions, history, bounds
<1>5. Positions'
  BY <1>1 DEF IInv, Positions, positions
<1>6. Called'
  BY <1>1, <1>2, <1>3 DEF Called, Full, Writing, positions
<1>7. Refusals'
  BY <1>1, <1>2, <1>3 DEF IInv, Refusals, Full, positions, bounds
<1>8. QED
  BY <1>4, <1>5, <1>6, <1>7 DEF IInv

\* The read position moves on by the block that it was at the start of.
LEMMA ReadMoves ==
  ASSUME IInv, pc = "erase_ahead", MoveRead, wPage' = wPage
  PROVE  Positions' /\ ~Full'
<1>1. rPage \in 0..(MaxPage - 1) /\ BlockStart(rPage) /\ wPage \in 0..(MaxPage - 1)
      /\ dist \in 0..(MaxPage - 1) /\ rPage + dist \in {wPage, wPage + MaxPage}
      /\ dist + PPB >= MaxPage
  BY DEF IInv, Positions, Called, Full
<1>2. rPage % PPB = 0 /\ PPB - 0 = PPB
  BY <1>1, NextBlock, Sizes
<1>3. rPage' = (rPage + PPB) % MaxPage /\ dist' = dist - PPB
  BY <1>2 DEF MoveRead
<1>4. /\ rPage' \in 0..(MaxPage - 1) /\ BlockStart(rPage')
      /\ rPage' = IF rPage + PPB = MaxPage THEN 0 ELSE rPage + PPB
  BY <1>1, <1>3, NextBlock
<1>5. dist' \in 0..(MaxPage - 1) /\ ~(dist' + PPB >= MaxPage)
  BY <1>1, <1>3, Sizes
<1>6. rPage' + dist' \in {wPage, wPage + MaxPage}
  BY <1>1, <1>3, <1>4, <1>5, Sizes
<1>7. BlockStart(rPage)'
  BY <1>4 DEF BlockStart
<1>8. QED
  BY <1>1, <1>4, <1>5, <1>6, <1>7 DEF Positions, Full

\* A block cleared ahead, and a block that could not be.
LEMMA EraseAheadIInv ==
  ASSUME IInv, EraseAhead_Ok \/ EraseAhead_Fail
  PROVE  IInv'
<1>1. /\ pc = "erase_ahead" /\ MoveRead
      /\ UNCHANGED <<wPage, wOff, cur, mixed, resets, recovers>>
      /\ skipped' \subseteq skipped /\ hit' \subseteq hit
  BY DEF EraseAhead_Ok, EraseAhead_Fail
<1>2. Positions' /\ ~Full'
  BY <1>1, ReadMoves
<1>3. /\ refused \in Nat /\ faults \in Nat /\ refused <= 2 * faults
  BY <1>1 DEF IInv, Called, Refusals
<1>4. nand' \in [Pages -> [Slots -> {Erased, Garbage} \cup 1..MaxRecords]]
  BY FlashTyped DEF EraseAhead_Ok, EraseAhead_Fail, IInv, TypeOK
<1>5. /\ rPage' \in 0..(MaxPage - 1) /\ dist' \in Int
      /\ skipped' \subseteq 0..NB /\ hit' \subseteq Pages
  BY <1>1, <1>2 DEF Positions, IInv, TypeOK
<1>6. CASE EraseAhead_Ok
  <2>1. faults' = faults /\ pc' = "idle" /\ ret' = "fail" /\ refused' = refused + 1
    BY <1>6 DEF EraseAhead_Ok, Works, Return
  <2>2. TypeOK'
    BY <1>1, <1>3, <1>4, <1>5, <2>1 DEF IInv, TypeOK
  <2>3. Called' /\ Refusals'
    BY <1>2, <1>3, <2>1 DEF Called, Refusals, Writing
  <2>4. QED
    BY <1>2, <2>2, <2>3 DEF IInv
<1>7. CASE EraseAhead_Fail
  <2>1. /\ faults < MaxFaults /\ faults' = faults + 1 /\ ret' = ret /\ refused' = refused
        /\ pc' \in {"erase_new", "program"}
    BY <1>7 DEF EraseAhead_Fail, Fails, AfterAhead
  <2>2. faults' \in 0..MaxFaults
    BY <1>3, <2>1, Sizes
  <2>3. TypeOK'
    BY <1>1, <1>3, <1>4, <1>5, <2>1, <2>2 DEF IInv, TypeOK
  <2>4. Called' /\ Refusals'
    BY <1>2, <1>3, <2>1 DEF Called, Refusals, Writing
  <2>5. QED
    BY <1>2, <2>3, <2>4 DEF IInv
<1>8. QED
  BY <1>6, <1>7

\* The block under the write position cleared.
LEMMA EraseNewOkIInv ==
  ASSUME IInv, EraseNew_Ok
  PROVE  IInv'
<1>1. /\ pc = "erase_new" /\ faults' = faults /\ pc' = "program"
      /\ skipped' \subseteq skipped /\ hit' \subseteq hit
      /\ UNCHANGED <<positions, cur, ret, refused, mixed, resets, recovers>>
  BY DEF EraseNew_Ok, Works
<1>2. nand' \in [Pages -> [Slots -> {Erased, Garbage} \cup 1..MaxRecords]]
  BY FlashTyped DEF EraseNew_Ok, IInv
<1>3. TypeOK'
  BY <1>1, <1>2 DEF IInv, TypeOK, positions
<1>4. Positions'
  BY <1>1 DEF IInv, Positions, BlockStart, positions
<1>5. Called' /\ Refusals'
  BY <1>1 DEF IInv, Called, Refusals, Full, Writing, positions
<1>6. QED
  BY <1>3, <1>4, <1>5 DEF IInv

\* A block that could not be cleared is passed over: there is room for that.
LEMMA EraseNewFailIInv ==
  ASSUME IInv, EraseNew_Fail
  PROVE  IInv'
<1>1. /\ pc = "erase_new" /\ faults < MaxFaults /\ faults' = faults + 1
      /\ wPage' = (wPage + PPB) % MaxPage /\ dist' = dist + PPB
      /\ skipped' = skipped \cup {Block(wPage)}
      /\ pc' = "idle" /\ ret' = "fail" /\ refused' = refused + 1
      /\ UNCHANGED <<rPage, wOff, cur, hit, mixed, resets, recovers>>
  BY DEF EraseNew_Fail, Fails, Return
<1>2. /\ rPage \in 0..(MaxPage - 1) /\ BlockStart(rPage) /\ wPage \in 0..(MaxPage - 1)
      /\ dist \in 0..(MaxPage - 1) /\ rPage + dist \in {wPage, wPage + MaxPage}
      /\ ~(dist + PPB >= MaxPage)
      /\ refused \in Nat /\ faults \in Nat /\ refused <= 1 + 2 * faults
  BY <1>1 DEF IInv, Positions, Called, Refusals, Full, Writing
<1>3. wPage' = IF wPage + PPB < MaxPage THEN wPage + PPB ELSE wPage + PPB - MaxPage
  BY <1>1, <1>2, Around, Sizes
<1>4. Positions'
  <2>1. wPage' \in 0..(MaxPage - 1) /\ dist' \in 0..(MaxPage - 1)
    BY <1>1, <1>2, <1>3, Sizes
  <2>2. rPage' + dist' \in {wPage', wPage' + MaxPage}
    BY <1>1, <1>2, <1>3, Sizes
  <2>3. BlockStart(rPage)'
    BY <1>1, <1>2 DEF BlockStart
  <2>4. QED
    BY <1>1, <1>2, <2>1, <2>2, <2>3 DEF Positions
<1>5. nand' \in [Pages -> [Slots -> {Erased, Garbage} \cup 1..MaxRecords]]
  BY FlashTyped DEF EraseNew_Fail, IInv, TypeOK
<1>6. TypeOK'
  <2>1. faults' \in 0..MaxFaults /\ refused' \in Nat /\ dist' \in Int
    BY <1>1, <1>2, Sizes
  <2>2. Block(wPage) \in 0..NB
    BY <1>2, BlockOfPage, Sizes
  <2>3. wPage' \in 0..(MaxPage - 1)
    BY <1>4 DEF Positions
  <2>4. QED
    BY <1>1, <1>5, <2>1, <2>2, <2>3 DEF IInv, TypeOK
<1>7. Called' /\ Refusals'
  BY <1>1, <1>2 DEF Called, Refusals, Writing
<1>8. QED
  BY <1>4, <1>6, <1>7 DEF IInv

\* A slot programmed, and the write position moved on.
LEMMA ProgramIInv ==
  ASSUME IInv, Program
  PROVE  IInv'
<1>1. /\ pc = "program" /\ pc' \in {"wrap_off", "idle"}
      /\ wOff' = IF wOff = RPP THEN wOff ELSE wOff + 1
      /\ UNCHANGED <<rPage, wPage, dist, cur, history, resets, recovers>>
  BY DEF Program
<1>2. refused \in Nat /\ faults \in Nat /\ refused <= 1 + 2 * faults
  BY DEF IInv, Refusals
<1>3. /\ ret' \in {"ok", "fail"} /\ refused' \in Nat /\ faults' \in 0..MaxFaults /\ faults' \in Nat
      /\ refused' <= 2 * faults' /\ refused' <= 1 + 2 * faults'
  <2>1. CASE Works /\ Return("ok")
    BY <1>2, <2>1 DEF Works, Return, IInv, TypeOK
  <2>2. CASE Fails /\ Return("fail")
    BY <1>2, <2>2, Sizes DEF Fails, Return
  <2>3. QED
    BY <2>1, <2>2 DEF Program
<1>4. nand' \in [Pages -> [Slots -> {Erased, Garbage} \cup 1..MaxRecords]]
  BY FlashTyped DEF Program, IInv
<1>5. wOff' \in 0..RPP
  BY <1>1, Sizes DEF IInv, TypeOK
<1>6. TypeOK'
  BY <1>1, <1>3, <1>4, <1>5 DEF IInv, TypeOK, history
<1>7. Positions'
  BY <1>1 DEF IInv, Positions, BlockStart
<1>8. Called'
  BY <1>1 DEF IInv, Called, Full, Writing
<1>9. Refusals'
  BY <1>1, <1>3 DEF Refusals
<1>10. QED
  BY <1>6, <1>7, <1>8, <1>9 DEF IInv

\* The end of a page: there is room for another one.
LEMMA WrapIInv ==
  ASSUME IInv, WrapOffset \/ WrapPage
  PROVE  IInv'
<1>1. CASE WrapOffset
  <2>1. pc = "wrap_off" /\ pc' = "wrap_page" /\ wOff' = 0
        /\ UNCHANGED <<nand, rPage, wPage, dist, cur, ret, refused, history, bounds>>
    BY <1>1 DEF WrapOffset
  <2>2. TypeOK'
    BY <2>1, Sizes DEF IInv, TypeOK, history, bounds
  <2>3. Positions' /\ Called' /\ Refusals'
    BY <2>1 DEF IInv, Positions, BlockStart, Called, Refusals, Full, Writing, bounds
  <2>4. QED
    BY <2>2, <2>3 DEF IInv
<1>2. CASE WrapPage
  <2>1. /\ pc = "wrap_page" /\ pc' = "idle"
        /\ wPage' = (wPage + 1) % MaxPage /\ dist' = dist + 1
        /\ UNCHANGED <<nand, rPage, wOff, cur, ret, refused, history, bounds>>
    BY <1>2 DEF WrapPage
  <2>2. /\ rPage \in 0..(MaxPage - 1) /\ BlockStart(rPage) /\ wPage \in 0..(MaxPage - 1)
        /\ dist \in 0..(MaxPage - 1) /\ rPage + dist \in {wPage, wPage + MaxPage}
        /\ ~(dist + PPB >= MaxPage)
        /\ refused \in Nat /\ faults \in Nat /\ refused <= 2 * faults
    BY <2>1 DEF IInv, Positions, Called, Refusals, Full, Writing
  <2>3. wPage' = IF wPage + 1 < MaxPage THEN wPage + 1 ELSE wPage + 1 - MaxPage
    BY <2>1, <2>2, Around, Sizes
  <2>4. wPage' \in 0..(MaxPage - 1) /\ dist' \in 0..(MaxPage - 1)
        /\ rPage' + dist' \in {wPage', wPage' + MaxPage}
    BY <2>1, <2>2, <2>3, Sizes
  <2>5. BlockStart(rPage)'
    BY <2>1, <2>2 DEF BlockStart
  <2>6. Positions'
    BY <2>1, <2>2, <2>4, <2>5 DEF Positions
  <2>7. TypeOK'
    BY <2>1, <2>4 DEF IInv, TypeOK, history, bounds
  <2>8. Called' /\ Refusals'
    BY <2>1, <2>2 DEF Called, Refusals, Writing, bounds
  <2>9. QED
    BY <2>6, <2>7, <2>8 DEF IInv
<1>3. QED
  BY <1>1, <1>2

\* A recovery of the index: equal positions in the end.
LEMMA RecoverIInv ==
  ASSUME IInv, Recover \/ RecoverRead \/ RecoverWrite \/ RecoverOffset
  PROVE  IInv'
<1>1. CASE Recover
  <2>1. /\ pc = "idle" /\ recovers < MaxRecovers /\ recovers' = recovers + 1
        /\ pc' = "recover_r" /\ ret' = "none" /\ refused' = 0
        /\ UNCHANGED <<nand, positions, cur, history, resets, faults>>
    BY <1>1 DEF Recover
  <2>2. recovers' \in 0..MaxRecovers /\ 0 \in Nat
    BY <2>1, Sizes DEF IInv, TypeOK
  <2>3. TypeOK'
    BY <2>1, <2>2 DEF IInv, TypeOK, positions, history
  <2>4. Positions' /\ Called'
    BY <2>1 DEF IInv, Positions, BlockStart, Called, Writing, positions
  <2>5. Refusals'
    BY <2>1 DEF IInv, Refusals
  <2>6. QED
    BY <2>3, <2>4, <2>5 DEF IInv
<1>2. CASE RecoverRead
  <2>1. /\ pc = "recover_r" /\ pc' = "recover_w" /\ rPage' = 0 /\ dist' = wPage
        /\ UNCHANGED <<nand, wPage, wOff, cur, ret, refused, history, bounds>>
    BY <1>2 DEF RecoverRead
  <2>2. wPage \in 0..(MaxPage - 1) /\ 0 \in 0..(MaxPage - 1) /\ 0 + wPage = wPage
    BY Sizes DEF IInv, Positions
  <2>3. BlockStart(rPage)'
    <3>1. 0 \in 0..(NB - 1) /\ 0 = 0 * PPB
      BY Sizes
    <3>2. QED
      BY <2>1, <3>1 DEF BlockStart
  <2>4. Positions'
    BY <2>1, <2>2, <2>3 DEF Positions
  <2>5. TypeOK'
    BY <2>1, <2>2 DEF IInv, TypeOK, history, bounds
  <2>6. Called' /\ Refusals'
    BY <2>1 DEF IInv, Called, Refusals, Writing, bounds
  <2>7. QED
    BY <2>4, <2>5, <2>6 DEF IInv
<1>3. CASE RecoverWrite
  <2>1. /\ pc = "recover_w" /\ pc' = "recover_off" /\ wPage' = 0 /\ dist' = 0 /\ rPage = 0
        /\ UNCHANGED <<nand, rPage, wOff, cur, ret, refused, history, bounds>>
    BY <1>3 DEF RecoverWrite, IInv, Called
  <2>2. 0 \in 0..(MaxPage - 1) /\ 0 + 0 = 0
    BY Sizes
  <2>3. Positions'
    BY <2>1, <2>2 DEF IInv, Positions, BlockStart
  <2>4. TypeOK'
    BY <2>1, <2>2 DEF IInv, TypeOK, history, bounds
  <2>5. Called' /\ Refusals'
    BY <2>1 DEF IInv, Called, Refusals, Writing, bounds
  <2>6. QED
    BY <2>3, <2>4, <2>5 DEF IInv
<1>4. CASE RecoverOffset
  <2>1. /\ pc = "recover_off" /\ pc' = "idle" /\ wOff' = 0 /\ skipped' = {} /\ mixed' = FALSE
        /\ UNCHANGED <<nand, rPage, wPage, dist, cur, ret, refused, hit, bounds>>
    BY <1>4 DEF RecoverOffset
  <2>2. TypeOK'
    <3>1. wOff' \in 0..RPP
      BY <2>1, Sizes
    <3>2. skipped' \subseteq 0..NB
      BY <2>1
    <3>3. mixed' \in BOOLEAN
      BY <2>1
    <3>4. QED
      BY <2>1, <3>1, <3>2, <3>3 DEF IInv, TypeOK, bounds
  <2>3. Positions' /\ Called'
    BY <2>1 DEF IInv, Positions, BlockStart, Called, Writing
  <2>4. Refusals'
    BY <2>1 DEF IInv, Refusals, Full, bounds
  <2>5. QED
    BY <2>2, <2>3, <2>4 DEF IInv
<1>5. QED
  BY <1>1, <1>2, <1>3, <1>4

\* A reset leaves the positions as they are, whatever it leaves of the flash.
LEMMA ResetIInv ==
  ASSUME IInv, Reset
  PROVE  IInv'
<1>1. /\ resets < MaxResets /\ resets' = resets + 1 /\ nand' \in CutShort
      /\ hit' = hit \cup (IF pc = "recover_off" THEN PagesOf(0) ELSE {wPage})
      /\ mixed' \in BOOLEAN /\ pc' = "idle" /\ ret' = "none"
      /\ UNCHANGED <<positions, refused, cur, skipped, faults, recovers>>
  BY DEF Reset
<1>2. nand' \in [Pages -> [Slots -> {Erased, Garbage} \cup 1..MaxRecords]]
  <2> DEFINE Flash == [Pages -> [Slots -> {Erased, Garbage} \cup 1..MaxRecords]]
  <2>1. /\ nand \in Flash /\ Programmed \in Flash /\ Torn \subseteq Flash
        /\ \A b : Fill(b, Erased) \in Flash /\ Fill(b, Garbage) \in Flash
    BY FlashTyped DEF IInv, TypeOK
  <2> HIDE DEF Flash
  <2>2. CutShort \subseteq Flash
    BY <2>1 DEF CutShort
  <2>3. QED
    BY <1>1, <2>2 DEF Flash
<1>3. hit' \subseteq Pages
  BY <1>1, PagesOfLog DEF IInv, TypeOK
<1>4. resets' \in 0..MaxResets
  BY <1>1, Sizes DEF IInv, TypeOK
<1>5. TypeOK'
  BY <1>1, <1>2, <1>3, <1>4 DEF IInv, TypeOK, positions
<1>6. Positions' /\ Called'
  BY <1>1 DEF IInv, Positions, BlockStart, Called, Writing, positions
<1>7. Refusals'
  BY <1>1 DEF IInv, Refusals, Full, positions
<1>8. QED
  BY <1>5, <1>6, <1>7 DEF IInv

\* The invariant holds in every reachable state.
LEMMA Invariance == Spec => []IInv
<1>1. IInv /\ [Next]_vars => IInv'
  <2>1. SUFFICES ASSUME IInv, [Next]_vars PROVE IInv'
    OBVIOUS
  <2>2. CASE Next
    BY <2>1, <2>2, WriteIInv, EraseAheadIInv, EraseNewOkIInv, EraseNewFailIInv, ProgramIInv, WrapIInv,
       RecoverIInv, ResetIInv DEF Next, WriteSteps
  <2>3. CASE UNCHANGED vars
    BY <2>1, <2>3 DEF vars, positions, history, bounds, IInv, TypeOK, Positions, BlockStart, Called,
                      Refusals, Full, Writing
  <2>4. QED
    BY <2>1, <2>2, <2>3
<1>2. QED
  BY <1>1, InitIInv, PTL DEF Spec

(***************************************************************************)
(* The flash: lemmas.                                                      *)
(***************************************************************************)

\* The pages of a block are those with its number.
LEMMA BlockPages ==
  ASSUME NEW b \in Nat, NEW p \in Pages
  PROVE  p \in PagesOf(b) <=> Block(p) = b
<1> DEFINE q == p \div PPB
<1>1. p \in Nat /\ PPB \in Nat /\ PPB > 0
  BY Sizes DEF Pages
<1>2. q \in Nat /\ PPB * q <= p /\ p < PPB * q + PPB
  BY <1>1
<1>3. p \in PagesOf(b) <=> PPB * b <= p /\ p < PPB * b + PPB
  BY <1>1 DEF PagesOf
<1>4. ASSUME PPB * b <= p, p < PPB * b + PPB PROVE b = q
  <2>1. PPB * (b - q) = PPB * b - PPB * q /\ PPB * (q - b) = PPB * q - PPB * b
    BY <1>1, <1>2
  <2>2. PPB * (b - q) < PPB /\ PPB * (q - b) < PPB
    BY <1>1, <1>2, <1>4, <2>1
  <2>3. b - q < 1 /\ q - b < 1
    BY <1>1, <1>2, <2>2
  <2>4. QED
    BY <1>2, <2>3
<1>5. QED
  BY <1>2, <1>3, <1>4 DEF Block

\* When a block is cleared ahead the write position is in another one.
LEMMA AheadElsewhere ==
  ASSUME IInv, pc = "erase_ahead"
  PROVE  Ahead \in Nat /\ Block(wPage) # Ahead /\ wPage \notin PagesOf(Ahead)
<1>1. /\ rPage \in 0..(MaxPage - 1) /\ wPage \in 0..(MaxPage - 1) /\ BlockStart(rPage)
      /\ dist \in 0..(MaxPage - 1) /\ rPage + dist \in {wPage, wPage + MaxPage}
      /\ dist + PPB >= MaxPage
  BY DEF IInv, Positions, Called, Full
<1>2. Block(rPage) \in Nat /\ PPB * Block(rPage) <= rPage /\ rPage < PPB * Block(rPage) + PPB
  <2>1. rPage \in Nat /\ PPB \in Nat /\ PPB > 0
    BY <1>1, Sizes
  <2>2. QED
    BY <2>1 DEF Block
<1>3. Ahead \in Nat /\ Ahead * PPB = PPB * Block(rPage) + PPB
  BY <1>2, Sizes DEF Ahead
<1>4. PagesOf(Ahead) = (PPB * Block(rPage) + PPB)..(PPB * Block(rPage) + PPB + PPB - 1)
  BY <1>3 DEF PagesOf
<1>5. wPage \notin PagesOf(Ahead)
  <2>1. rPage = PPB * Block(rPage)
    <3>1. rPage % PPB = 0
      BY <1>1, NextBlock
    <3>2. rPage \in Nat /\ PPB \in Nat /\ PPB > 0
      BY <1>1, Sizes
    <3>3. rPage = PPB * (rPage \div PPB) + (rPage % PPB) /\ PPB * (rPage \div PPB) \in Nat
      BY <3>2, Multiple
    <3>4. QED
      BY <3>1, <3>3 DEF Block
  <2>2. PagesOf(Ahead) = (rPage + PPB)..(rPage + PPB + PPB - 1)
    BY <1>4, <2>1
  <2>3. CASE rPage + dist = wPage
    <3>1. wPage >= rPage + 2 * PPB
      BY <1>1, <2>3, Sizes
    <3>2. QED
      BY <1>1, <2>2, <3>1, Sizes
  <2>4. CASE rPage + dist = wPage + MaxPage
    BY <1>1, <2>2, <2>4, Sizes
  <2>5. QED
    BY <1>1, <2>3, <2>4
<1>6. wPage \in Pages
  BY <1>1, PagesOfLog
<1>7. QED
  BY <1>3, <1>5, <1>6, BlockPages

\* The block of the write position is not the one cleared ahead: Fill leaves the
\* slots there alone.
LEMMA FillElsewhere ==
  ASSUME NEW b \in Nat, NEW p \in Pages, Block(p) # b, NEW x
  PROVE  Fill(b, x)[p] = nand[p]
BY BlockPages DEF Fill

\* And all of the block that it clears is erased.
LEMMA FillErases ==
  ASSUME NEW b \in Nat, NEW p \in Pages, NEW s \in Slots, Block(p) = b
  PROVE  Fill(b, Erased)[p][s] = Erased
BY BlockPages DEF Fill

\* A programming, whole or not, changes no other slot.
LEMMA ProgramsOneSlot ==
  ASSUME IInv, NEW n \in {Programmed} \cup Torn, NEW p \in Pages, NEW s \in Slots,
         p # wPage \/ s # wOff
  PROVE  n[p][s] = nand[p][s]
<1>1. nand \in [Pages -> [Slots -> {Erased, Garbage} \cup 1..MaxRecords]] /\ wPage \in Pages
  BY PagesOfLog DEF IInv, TypeOK
<1>2. ASSUME NEW x PROVE [nand EXCEPT ![wPage][wOff] = x][p][s] = nand[p][s]
  BY <1>1
<1>3. CASE n = Programmed
  <2>1. CASE wOff = RPP
    BY <1>3, <2>1 DEF Programmed
  <2>2. CASE wOff # RPP
    <3>1. n = [nand EXCEPT ![wPage][wOff] = IF @ = Erased THEN cur ELSE Garbage]
      BY <1>3, <2>2 DEF Programmed
    <3>2. QED
      BY <1>1, <3>1
  <2>3. QED
    BY <2>1, <2>2
<1>4. CASE n \in Torn
  BY <1>2, <1>4 DEF Torn
<1>5. QED
  BY <1>3, <1>4

\* The page before the write position.
LEMMA PageBefore ==
  ASSUME wPage \in 0..(MaxPage - 1)
  PROVE  (wPage + MaxPage - 1) % MaxPage = IF wPage = 0 THEN MaxPage - 1 ELSE wPage - 1
<1>1. wPage + MaxPage - 1 \in Nat /\ wPage + MaxPage - 1 < 2 * MaxPage
  BY Sizes
<1>2. QED
  BY <1>1, Around, Sizes

(***************************************************************************)
(* The flash: the induction.                                               *)
(***************************************************************************)

\* Nothing has been written.
LEMMA InitStorage == Init => Storage
BY Sizes DEF Init, Storage, Clean, EraseDue, NewBlock, Midway, Writing, Stored

\* A write that begins.
LEMMA WriteStorage ==
  ASSUME IInv, Storage, Write
  PROVE  Storage'
<1>1. /\ pc = "idle" /\ pc' \in {"erase_ahead", AfterAhead} /\ cur' = cur + 1 /\ ret' = "none"
      /\ UNCHANGED <<nand, rPage, wPage, wOff, dist, skipped, hit, mixed>>
  BY DEF Write, positions, history
<1>2. NewBlock' = NewBlock /\ AfterAhead = IF NewBlock THEN "erase_new" ELSE "program"
  BY <1>1 DEF NewBlock, AfterAhead
<1>3. EraseDue' <=> EraseDue
  BY <1>1, <1>2 DEF EraseDue
<1>4. Clean'
  BY <1>1, <1>2, <1>3 DEF Storage, Clean, Trusted, Unwritten
<1>5. cur' >= 1
  BY <1>1 DEF IInv, TypeOK
<1>6. Midway' /\ Stored'
  BY <1>1, <1>2, <1>5 DEF Midway, Stored
<1>7. QED
  BY <1>4, <1>6 DEF Storage

\* A block cleared ahead, or damaged, is not the one that is written.
LEMMA EraseAheadStorage ==
  ASSUME IInv, Storage, EraseAhead_Ok \/ EraseAhead_Fail
  PROVE  Storage'
<1>1. /\ pc = "erase_ahead" /\ pc' \in {"idle", AfterAhead}
      /\ ret' \in {"fail", ret} /\ (pc' = "idle" => ret' = "fail")
      /\ UNCHANGED <<wPage, wOff, cur, mixed>> /\ skipped' \subseteq skipped
      /\ hit' \in {hit, hit \ PagesOf(Ahead)}
      /\ nand' \in {nand, Fill(Ahead, Erased), Fill(Ahead, Garbage)}
  BY DEF EraseAhead_Ok, EraseAhead_Fail, Return, AfterAhead
<1>2. NewBlock' = NewBlock /\ AfterAhead = IF NewBlock THEN "erase_new" ELSE "program"
  BY <1>1 DEF NewBlock, AfterAhead
<1>3. EraseDue' <=> EraseDue
  BY <1>1, <1>2 DEF EraseDue
<1>4. ASSUME NEW p \in Pages, Block(p) = Block(wPage)
      PROVE  nand'[p] = nand[p] /\ (p \in hit' <=> p \in hit)
  <2>1. Ahead \in Nat /\ Block(p) # Ahead
    BY <1>1, <1>4, AheadElsewhere
  <2>2. QED
    BY <1>1, <2>1, FillElsewhere, BlockPages
<1>5. wPage \in Pages
  BY PagesOfLog DEF IInv, TypeOK
<1>6. Clean'
  BY <1>1, <1>2, <1>3, <1>4, <1>5 DEF Storage, Clean, Trusted, Unwritten
<1>7. Midway' /\ Stored'
  BY <1>1, <1>2 DEF Storage, Midway, Stored, Writing
<1>8. QED
  BY <1>6, <1>7 DEF Storage

\* The block under the write position is erased and belongs to the log again.
LEMMA EraseNewOkStorage ==
  ASSUME IInv, Storage, EraseNew_Ok
  PROVE  Storage'
<1>1. /\ pc = "erase_new" /\ pc' = "program"
      /\ nand' = Fill(Block(wPage), Erased)
      /\ skipped' = skipped \ {Block(wPage)} /\ hit' = hit \ PagesOf(Block(wPage))
      /\ UNCHANGED <<rPage, wPage, wOff, dist, cur, ret, mixed>>
  BY DEF EraseNew_Ok, positions
<1>2. Block(wPage) \in Nat
  BY BlockOfPage, Sizes DEF IInv, TypeOK
<1>3. wOff = 0
  BY <1>1 DEF Storage, Midway, NewBlock
<1>4. Clean'
  BY <1>1, <1>2, <1>3, FillErases, Sizes DEF Clean, Unwritten
<1>5. Midway' /\ Stored'
  BY <1>1 DEF Storage, Midway, Stored, Writing
<1>6. QED
  BY <1>4, <1>5 DEF Storage

\* A block that could not be erased is left behind: the next one is due.
LEMMA EraseNewFailStorage ==
  ASSUME IInv, Storage, EraseNew_Fail
  PROVE  Storage'
<1>1. /\ pc = "erase_new" /\ wPage' = (wPage + PPB) % MaxPage /\ wOff' = wOff
      /\ pc' = "idle" /\ ret' = "fail"
  BY DEF EraseNew_Fail, Return
<1>2. wPage \in 0..(MaxPage - 1) /\ wPage % PPB = 0 /\ wOff = 0
  BY <1>1 DEF IInv, TypeOK, Storage, Midway, NewBlock
<1>3. BlockStart(wPage)
  <2>1. Block(wPage) \in 0..(NB - 1)
    BY <1>2, BlockOfPage
  <2>2. wPage = PPB * Block(wPage)
    <3>1. wPage \in Nat /\ PPB \in Nat /\ PPB > 0
      BY <1>2, Sizes
    <3>2. wPage = PPB * (wPage \div PPB) + (wPage % PPB) /\ PPB * (wPage \div PPB) \in Nat
      BY <3>1, Multiple
    <3>3. QED
      BY <1>2, <3>2 DEF Block
  <2>3. wPage = Block(wPage) * PPB
    BY <2>1, <2>2, Sizes
  <2>4. QED
    BY <2>1, <2>3 DEF BlockStart
<1>4. wPage' % PPB = 0
  <2>1. BlockStart((wPage + PPB) % MaxPage) /\ (wPage + PPB) % MaxPage \in 0..(MaxPage - 1)
    BY <1>2, <1>3, NextBlock
  <2>2. QED
    BY <1>1, <2>1, NextBlock
<1>5. EraseDue'
  BY <1>1, <1>2, <1>4 DEF EraseDue, NewBlock
<1>6. QED
  BY <1>1, <1>5 DEF Storage, Clean, Midway, Writing, Stored

\* The record goes to an erased slot, or to a page that a reset came to.
LEMMA ProgramStorage ==
  ASSUME IInv, Storage, Program
  PROVE  Storage'
<1>1. /\ pc = "program" /\ pc' = (IF wOff + 1 >= RPP THEN "wrap_off" ELSE "idle")
      /\ wOff' = (IF wOff = RPP THEN wOff ELSE wOff + 1)
      /\ UNCHANGED <<rPage, wPage, dist, cur, skipped, hit, mixed>>
      /\ nand' \in {Programmed} \cup Torn
      /\ ret' = "ok" => nand' = Programmed
  BY DEF Program, Return, history
<1>2. /\ wPage \in Pages /\ wOff \in Nat /\ wOff <= RPP /\ RPP \in Nat /\ RPP >= 1
      /\ nand \in [Pages -> [Slots -> {Erased, Garbage} \cup 1..MaxRecords]]
  BY PagesOfLog, Sizes DEF IInv, TypeOK
<1>3. cur >= 1
  BY <1>1 DEF Storage, Midway, Writing
<1>4. ~EraseDue
  BY <1>1 DEF EraseDue
<1>5. ASSUME Trusted
      PROVE  /\ \A p \in Pages, s \in Slots : 
                    Unwritten(p, s) => nand[p][s] = Erased \/ (p = wPage /\ p \in hit)
             /\ Block(wPage) \notin skipped
             /\ wOff = RPP => wPage \in hit
  BY <1>1, <1>4, <1>5 DEF Storage, Clean
<1>6. Trusted' <=> Trusted
  BY <1>1 DEF Trusted
<1>7. wOff' >= 1 /\ wOff' \in Nat
  BY <1>1, <1>2
<1>8. Clean'
  <2>1. SUFFICES ASSUME Trusted PROVE Clean'
    BY <1>6 DEF Clean
  <2>2. ASSUME NEW p \in Pages, NEW s \in Slots, Unwritten(p, s)'
        PROVE  nand'[p][s] = Erased \/ (p = wPage /\ p \in hit)
    <3>1. Unwritten(p, s) /\ (p # wPage \/ s # wOff)
      <4>1. /\ Block(p) = Block(wPage) /\ wPage' = wPage /\ pc # "wrap_page"
            /\ p > wPage \/ (p = wPage /\ s >= wOff')
        BY <1>1, <2>2 DEF Unwritten, Block
      <4>2. s \in Nat /\ s < RPP /\ p \in Nat /\ wPage \in Nat
        BY <1>2, Sizes DEF Slots, Pages
      <4>3. CASE p > wPage
        BY <4>1, <4>2, <4>3 DEF Unwritten
      <4>4. CASE p = wPage /\ s >= wOff'
        <5>1. wOff' = wOff + 1
          BY <1>1, <1>2, <4>2, <4>4
        <5>2. s >= wOff /\ s # wOff
          BY <1>2, <4>2, <4>4, <5>1
        <5>3. QED
          BY <4>1, <4>4, <5>2 DEF Unwritten
      <4>5. QED
        BY <4>1, <4>3, <4>4
    <3>2. nand'[p][s] = nand[p][s]
      BY <1>1, <3>1, ProgramsOneSlot
    <3>3. QED
      BY <1>5, <2>1, <3>1, <3>2
  <2>3. wOff' = RPP /\ pc' # "wrap_off" => wPage \in hit
    BY <1>1, <1>2, <1>5, <2>1
  <2>4. QED
    BY <1>1, <1>5, <2>1, <2>2, <2>3 DEF Clean
<1>9. Midway'
  BY <1>1, <1>2, <1>3 DEF Midway, Writing
<1>10. Stored'
  <2>1. SUFFICES ASSUME ret' = "ok", ~mixed
                 PROVE  wPage \in hit \/ (nand'[wPage][wOff' - 1] = cur /\ Block(wPage) \notin skipped)
    BY <1>1, <1>3, <1>7 DEF Stored, LastPage, LastSlot
  <2>2. Trusted
    BY <1>1, <2>1 DEF Trusted
  <2>3. CASE wOff = RPP
    BY <1>5, <2>2, <2>3
  <2>4. CASE wOff # RPP
    <3>1. wOff \in Slots /\ wOff' - 1 = wOff
      BY <1>1, <1>2, <2>4 DEF Slots
    <3>2. Unwritten(wPage, wOff)
      BY <1>1, <1>2 DEF Unwritten
    <3>3. nand' = [nand EXCEPT ![wPage][wOff] = IF @ = Erased THEN cur ELSE Garbage]
      BY <1>1, <2>1, <2>4 DEF Programmed
    <3>4. nand[wPage][wOff] = Erased => nand'[wPage][wOff] = cur
      BY <1>2, <3>1, <3>3
    <3>5. wPage \in hit \/ nand[wPage][wOff] = Erased
      BY <1>2, <1>5, <2>2, <3>1, <3>2
    <3>6. QED
      BY <1>5, <2>2, <3>1, <3>4, <3>5
  <2>5. QED
    BY <2>3, <2>4
<1>11. QED
  BY <1>8, <1>9, <1>10 DEF Storage

\* The end of a page: what follows in its block is still erased.
LEMMA WrapOffsetStorage ==
  ASSUME IInv, Storage, WrapOffset
  PROVE  Storage'
<1>1. /\ pc = "wrap_off" /\ pc' = "wrap_page" /\ wOff' = 0 /\ wOff = RPP
      /\ UNCHANGED <<nand, rPage, wPage, dist, cur, ret, skipped, hit, mixed>>
  BY DEF WrapOffset, history, Storage, Midway
<1>2. ~EraseDue /\ (Trusted' <=> Trusted)
  BY <1>1 DEF EraseDue, Trusted
<1>3. \A p \in Pages, s \in Slots : Unwritten(p, s)' => Unwritten(p, s)
  BY <1>1 DEF Unwritten
<1>4. Clean'
  BY <1>1, <1>2, <1>3, Sizes DEF Storage, Clean
<1>5. Midway' /\ Stored'
  BY <1>1, Sizes DEF Storage, Midway, Writing, Stored, LastPage, LastSlot
<1>6. QED
  BY <1>4, <1>5 DEF Storage

\* The page after the write position is of the same block, or a block is due.
LEMMA SameBlock ==
  ASSUME IInv, WrapPage, wOff = 0, ~EraseDue'
  PROVE  wPage' = wPage + 1 /\ Block(wPage') = Block(wPage)
<1>1. pc' = "idle" /\ wOff' = 0 /\ wPage' = (wPage + 1) % MaxPage
  BY DEF WrapPage
<1>2. wPage \in 0..(MaxPage - 1)
  BY DEF IInv, TypeOK
<1>3. wPage' = IF wPage + 1 < MaxPage THEN wPage + 1 ELSE 0
  BY <1>1, <1>2, Around, Sizes
<1>4. wPage' % PPB # 0
  BY <1>1 DEF EraseDue, NewBlock
<1>5. wPage' = wPage + 1
  BY <1>3, <1>4, Sizes
<1>6. Block(wPage') = Block(wPage)
  <2> DEFINE v == wPage + 1
             q == v \div PPB
  <2>1. v \in Nat /\ PPB \in Nat /\ PPB > 0 /\ wPage \in Nat
    BY <1>2, Sizes
  <2>2. q \in Nat /\ PPB * q \in Nat /\ v = PPB * q + (v % PPB) /\ v % PPB \in 0..(PPB - 1)
    BY <2>1, Multiple
  <2>3. v % PPB # 0
    BY <1>4, <1>5
  <2>4. PPB * q <= wPage /\ wPage < PPB * q + PPB
    BY <2>1, <2>2, <2>3
  <2>5. wPage \in PagesOf(q) /\ wPage \in Pages
    BY <1>2, <2>1, <2>2, <2>4, PagesOfLog DEF PagesOf
  <2>6. QED
    BY <1>5, <2>2, <2>5, BlockPages DEF Block
<1>7. QED
  BY <1>5, <1>6

\* The next page is of the same block, or the next block is due.
LEMMA WrapPageStorage ==
  ASSUME IInv, Storage, WrapPage
  PROVE  Storage'
<1>1. /\ pc = "wrap_page" /\ pc' = "idle" /\ wOff = 0 /\ wOff' = 0
      /\ wPage' = (wPage + 1) % MaxPage /\ dist' = dist + 1
      /\ UNCHANGED <<nand, rPage, cur, ret, skipped, hit, mixed>>
  BY DEF WrapPage, history, Storage, Midway
<1>2. wPage \in 0..(MaxPage - 1) /\ dist \in 0..(MaxPage - 1) /\ cur >= 1
  BY <1>1 DEF IInv, TypeOK, Positions, Storage, Midway, Writing
<1>3. wPage' = IF wPage + 1 < MaxPage THEN wPage + 1 ELSE 0
  BY <1>1, <1>2, Around, Sizes
<1>4. ~EraseDue /\ (Trusted' <=> Trusted)
  BY <1>1 DEF EraseDue, Trusted
<1>5. ASSUME ~EraseDue' PROVE wPage' = wPage + 1 /\ Block(wPage') = Block(wPage)
  BY <1>1, <1>5, SameBlock
<1>6. Clean'
  <2>1. SUFFICES ASSUME Trusted, ~EraseDue' PROVE Clean'
    BY <1>4 DEF Clean
  <2>2. \A p \in Pages, s \in Slots : Unwritten(p, s)' => Unwritten(p, s) /\ p # wPage
    BY <1>1, <1>2, <1>5, <2>1 DEF Unwritten, Pages
  <2>3. QED
    BY <1>1, <1>4, <1>5, <2>1, <2>2, Sizes DEF Storage, Clean
<1>7. LastPage' = wPage /\ LastPage = wPage /\ LastSlot' = LastSlot
  BY <1>1, <1>2, <1>3, Sizes DEF LastPage, LastSlot
<1>8. Stored'
  BY <1>1, <1>2, <1>7 DEF Storage, Stored
<1>9. Midway'
  BY <1>1 DEF Midway, Writing
<1>10. QED
  BY <1>6, <1>8, <1>9 DEF Storage

\* A recovery of the index ends where the first block is due.
LEMMA RecoverStorage ==
  ASSUME IInv, Storage, Recover \/ RecoverRead \/ RecoverWrite \/ RecoverOffset
  PROVE  Storage'
<1>1. CASE Recover
  BY <1>1 DEF Recover, positions, history, Storage, Clean, Trusted, EraseDue, NewBlock, Unwritten,
              Midway, Writing, Stored
<1>2. CASE RecoverRead
  BY <1>2 DEF RecoverRead, history, Storage, Clean, Trusted, Midway, Writing, Stored
<1>3. CASE RecoverWrite
  BY <1>3 DEF RecoverWrite, history, Storage, Clean, Trusted, Midway, Writing, Stored
<1>4. CASE RecoverOffset
  <2>1. pc' = "idle" /\ wOff' = 0 /\ wPage' = wPage /\ ret' = "none"
    BY <1>4 DEF RecoverOffset, Storage, Midway
  <2>2. wPage' % PPB = 0
    BY <1>4, <2>1, Sizes DEF RecoverOffset, Storage, Midway
  <2>3. Clean'
    BY <2>1, <2>2 DEF EraseDue, NewBlock, Clean
  <2>4. QED
    BY <2>1, <2>3 DEF Storage, Midway, Writing, Stored
<1>5. QED
  BY <1>1, <1>2, <1>3, <1>4

\* A reset damages at most the page under the write position, and marks it.
LEMMA ResetStorage ==
  ASSUME IInv, Storage, Reset
  PROVE  Storage'
<1>1. /\ nand' \in CutShort /\ pc' = "idle" /\ ret' = "none"
      /\ hit' = hit \cup (IF pc = "recover_off" THEN PagesOf(0) ELSE {wPage})
      /\ mixed' = (mixed \/ pc \in {"recover_w", "recover_off"})
      /\ UNCHANGED <<rPage, wPage, wOff, dist, cur, skipped>>
  BY DEF Reset, positions
<1>2. Clean'
  <2>1. SUFFICES ASSUME Trusted, ~EraseDue' PROVE Clean'
    BY <1>1 DEF Clean, Trusted
  <2>2. ~EraseDue /\ pc # "erase_new"
    BY <1>1, <2>1 DEF EraseDue, NewBlock, Storage, Midway
  <2>3. wPage \in hit'
    BY <1>1, <2>1 DEF Trusted
  <2>4. ASSUME NEW p \in Pages, NEW s \in Slots, Unwritten(p, s)', p # wPage
        PROVE  Unwritten(p, s) /\ nand'[p][s] = nand[p][s]
    <3>1. Unwritten(p, s)
      BY <1>1, <2>4 DEF Unwritten
    <3>2. CASE pc = "erase_ahead"
      <4>1. nand' \in {nand, Fill(Ahead, Erased), Fill(Ahead, Garbage)}
        BY <1>1, <3>2 DEF CutShort
      <4>2. Ahead \in Nat /\ Block(p) # Ahead
        BY <3>1, <3>2, AheadElsewhere DEF Unwritten
      <4>3. QED
        BY <3>1, <4>1, <4>2, FillElsewhere
    <3>3. CASE pc = "program"
      <4>1. nand' \in {Programmed} \cup Torn
        BY <1>1, <3>3 DEF CutShort
      <4>2. QED
        BY <2>4, <3>1, <4>1, ProgramsOneSlot
    <3>4. CASE pc \notin {"erase_ahead", "program"}
      BY <1>1, <2>2, <3>1, <3>4 DEF CutShort
    <3>5. QED
      BY <3>2, <3>3, <3>4
  <2>5. QED
    BY <1>1, <2>1, <2>2, <2>3, <2>4 DEF Storage, Clean
<1>3. Midway' /\ Stored'
  BY <1>1 DEF Midway, Writing, Stored
<1>4. QED
  BY <1>2, <1>3 DEF Storage

\* Both invariants hold in every reachable state.
LEMMA StorageInvariance == Spec => [](IInv /\ Storage)
<1>1. IInv /\ Storage /\ [Next]_vars => Storage'
  <2>1. SUFFICES ASSUME IInv, Storage, [Next]_vars PROVE Storage'
    OBVIOUS
  <2>2. CASE Next
    BY <2>1, <2>2, WriteStorage, EraseAheadStorage, EraseNewOkStorage, EraseNewFailStorage,
       ProgramStorage, WrapOffsetStorage, WrapPageStorage, RecoverStorage, ResetStorage
       DEF Next, WriteSteps
  <2>3. CASE UNCHANGED vars
    BY <2>1, <2>3 DEF vars, positions, history, Storage, Clean, Trusted, EraseDue, NewBlock, Unwritten,
                      Midway, Stored, LastPage, LastSlot
  <2>4. QED
    BY <2>1, <2>2, <2>3
<1>2. QED
  BY <1>1, InitStorage, Invariance, PTL DEF Spec

(***************************************************************************)
(* The order of the records: lemmas.                                       *)
(***************************************************************************)

\* How far a page is from another one, around the ring.
LEMMA Distance ==
  ASSUME NEW p \in LogPages, NEW r \in LogPages
  PROVE  /\ (p + MaxPage - r) % MaxPage = IF p >= r THEN p - r ELSE p + MaxPage - r
         /\ (p + MaxPage - r) % MaxPage \in 0..(MaxPage - 1)
<1>1. /\ p \in Nat /\ r \in Nat /\ p < MaxPage /\ r < MaxPage
      /\ MaxPage \in Nat /\ MaxPage > 0
  BY Sizes DEF LogPages
<1>2. p + MaxPage - r \in Nat /\ p + MaxPage - r < 2 * MaxPage
  BY <1>1
<1>3. (p + MaxPage - r) % MaxPage
        = IF p + MaxPage - r < MaxPage THEN p + MaxPage - r ELSE p + MaxPage - r - MaxPage
  BY <1>1, <1>2, Around
<1>4. QED
  BY <1>1, <1>3

\* The places of the pages behind the read position.
LEMMA Place ==
  ASSUME IInv, NEW p \in LogPages
  PROVE  /\ Behind(p) = IF p >= rPage THEN p - rPage ELSE p + MaxPage - rPage
         /\ Behind(p) \in 0..(MaxPage - 1) /\ Behind(wPage) = dist
         /\ rPage \in LogPages /\ wPage \in LogPages
<1>1. /\ rPage \in LogPages /\ wPage \in LogPages
      /\ dist = (wPage + MaxPage - rPage) % MaxPage
  BY FreePages DEF IInv, Positions, LogPages
<1>2. QED
  BY <1>1, Distance DEF Behind

\* No two pages are at one place.
LEMMA SamePlace ==
  ASSUME IInv, NEW p \in LogPages, NEW q \in LogPages, Behind(p) = Behind(q)
  PROVE  p = q
BY Place, Sizes DEF LogPages

\* What is in a slot can be compared.
LEMMA SlotTyped ==
  ASSUME TypeOK, NEW p \in LogPages, NEW s \in Slots
  PROVE  nand[p][s] \in Int /\ p \in Pages /\ p \in Nat /\ s \in Nat /\ s < RPP
<1>1. p \in Pages
  BY PagesOfLog DEF LogPages
<1>2. nand[p][s] \in {Erased, Garbage} \cup 1..MaxRecords
  BY <1>1 DEF TypeOK
<1>3. QED
  BY <1>1, <1>2, Sizes DEF Erased, Garbage, Pages, Slots

\* A page without remainder is the first one of its block.
LEMMA StartOfBlock ==
  ASSUME NEW w \in LogPages, w % PPB = 0
  PROVE  /\ BlockStart(w) /\ Block(w) \in Nat /\ w = PPB * Block(w) /\ w + PPB <= MaxPage
         /\ \A p \in Pages : Block(p) = Block(w) <=> w <= p /\ p < w + PPB
<1>1. w \in Nat /\ PPB \in Nat /\ PPB > 0 /\ Block(w) \in 0..(NB - 1)
  BY BlockOfPage, Sizes DEF LogPages
<1>2. w = PPB * Block(w)
  <2>1. w = PPB * (w \div PPB) + (w % PPB) /\ PPB * (w \div PPB) \in Nat
    BY <1>1, Multiple
  <2>2. QED
    BY <2>1 DEF Block
<1>3. BlockStart(w)
  <2>1. w = Block(w) * PPB
    BY <1>1, <1>2, Sizes
  <2>2. QED
    BY <1>1, <2>1 DEF BlockStart
<1>4. w + PPB <= MaxPage
  BY <1>3, NextBlock DEF LogPages
<1>5. PagesOf(Block(w)) = w..(w + PPB - 1)
  BY <1>1, <1>2, Sizes DEF PagesOf
<1>6. ASSUME NEW p \in Pages PROVE Block(p) = Block(w) <=> w <= p /\ p < w + PPB
  <2>1. p \in Nat
    BY Sizes DEF Pages
  <2>2. p \in PagesOf(Block(w)) <=> Block(p) = Block(w)
    BY <1>1, BlockPages, Sizes
  <2>3. QED
    BY <1>1, <1>5, <2>1, <2>2
<1>7. QED
  BY <1>1, <1>2, <1>3, <1>4, <1>6

\* The block of the read position and the one ahead of it, by their places.
LEMMA OldBlocks ==
  ASSUME IInv, NEW p \in LogPages
  PROVE  /\ Block(p) = Block(rPage) <=> Behind(p) < PPB
         /\ Block(p) = Ahead <=> rPage + PPB < MaxPage /\ Behind(p) >= PPB /\ Behind(p) < 2 * PPB
<1>1. /\ rPage \in LogPages /\ rPage % PPB = 0 /\ rPage + PPB <= MaxPage
      /\ BlockStart((rPage + PPB) % MaxPage) /\ (rPage + PPB) % MaxPage \in LogPages
      /\ (rPage + PPB) % MaxPage = IF rPage + PPB = MaxPage THEN 0 ELSE rPage + PPB
  BY NextBlock DEF IInv, Positions, LogPages
<1>2. /\ Behind(p) = IF p >= rPage THEN p - rPage ELSE p + MaxPage - rPage
      /\ p \in Nat /\ rPage \in Nat /\ p < MaxPage /\ p \in Pages
      /\ PPB \in Nat /\ PPB >= 1 /\ MaxPage \in Nat
  BY <1>1, Place, PagesOfLog, Sizes DEF LogPages
<1>3. /\ Block(p) = Block(rPage) <=> rPage <= p /\ p < rPage + PPB
      /\ Block(rPage) \in Nat /\ rPage = PPB * Block(rPage)
  BY <1>1, <1>2, StartOfBlock
<1>4. Block(p) = Block(rPage) <=> Behind(p) < PPB
  BY <1>1, <1>2, <1>3
<1>5. Block(p) = Ahead <=> rPage + PPB <= p /\ p < rPage + 2 * PPB
  <2>1. Ahead \in Nat /\ Ahead * PPB = rPage + PPB
    BY <1>2, <1>3 DEF Ahead
  <2>2. PagesOf(Ahead) = (rPage + PPB)..(rPage + 2 * PPB - 1)
    BY <1>2, <2>1 DEF PagesOf
  <2>3. QED
    BY <1>2, <2>1, <2>2, BlockPages
<1>6. rPage + PPB < MaxPage => rPage + 2 * PPB <= MaxPage
  <2>1. SUFFICES ASSUME rPage + PPB < MaxPage PROVE rPage + 2 * PPB <= MaxPage
    OBVIOUS
  <2>2. rPage + PPB \in 0..(MaxPage - 1) /\ BlockStart(rPage + PPB)
    BY <1>1, <1>2, <2>1
  <2>3. QED
    BY <1>2, <2>2, NextBlock
<1>7. QED
  BY <1>1, <1>2, <1>4, <1>5, <1>6

\* The block of the write position, before it is cleared.
LEMMA NextToWrite ==
  ASSUME IInv, ~Full, wPage % PPB = 0, NEW p \in LogPages
  PROVE  Block(p) = Block(wPage) <=> Behind(p) >= dist /\ Behind(p) < dist + PPB
<1>1. /\ wPage \in LogPages /\ p \in Pages
      /\ Behind(p) = IF p >= rPage THEN p - rPage ELSE p + MaxPage - rPage
  BY Place, PagesOfLog DEF LogPages
<1>2. wPage + PPB <= MaxPage /\ (Block(p) = Block(wPage) <=> wPage <= p /\ p < wPage + PPB)
  BY <1>1, StartOfBlock
<1>3. /\ p \in Nat /\ rPage \in Nat /\ wPage \in Nat /\ dist \in Nat
      /\ p < MaxPage /\ rPage < MaxPage /\ dist + PPB < MaxPage
      /\ rPage + dist = wPage \/ rPage + dist = wPage + MaxPage
      /\ PPB \in Nat /\ PPB >= 1 /\ MaxPage \in Nat
  BY Sizes DEF IInv, Positions, Full, LogPages
<1>4. QED
  BY <1>1, <1>2, <1>3

\* The slots in which a reader finds a record.
Kept(p, s) == Behind(p) >= FirstKept /\ Passed(p, s) /\ Readable(p, s)

\* They are of pages that the log has come to.
LEMMA KeptIsPresent ==
  ASSUME IInv, NEW p \in LogPages, NEW s \in Slots, Kept(p, s)
  PROVE  Present(p, s) /\ Behind(p) <= dist
<1>1. Passed(p, s) /\ Readable(p, s) /\ Behind(p) \in 0..(MaxPage - 1) /\ dist \in 0..(MaxPage - 1)
  BY Place DEF Kept, IInv, Positions
<1>2. CASE Behind(p) < dist
  BY <1>1, <1>2 DEF Present, Reached
<1>3. CASE Behind(p) = dist /\ (s < wOff \/ pc = "wrap_page")
  <2>1. p = wPage
    BY <1>3, SamePlace, Place
  <2>2. ~EraseDue
    <3>1. s < wOff => wOff # 0
      BY SlotTyped DEF IInv
    <3>2. QED
      BY <1>3, <3>1 DEF EraseDue, NewBlock
  <2>3. QED
    BY <1>1, <1>3, <2>1, <2>2 DEF Present, Reached
<1>4. QED
  BY <1>1, <1>2, <1>3 DEF Passed

\* The records given up in front: two blocks when the log is full, or none.
LEMMA InFront ==
  ASSUME IInv
  PROVE  /\ FirstKept \in {0, PPB}
         /\ FirstKept = PPB => /\ Full
                               /\ \A p \in LogPages, s \in Slots :
                                    Behind(p) >= PPB /\ Behind(p) < 2 * PPB => ~Readable(p, s)
<1>1. FirstKept = 0 \/ FirstKept = PPB
  BY DEF FirstKept
<1>2. ASSUME FirstKept = PPB, NEW p \in LogPages, NEW s \in Slots, Behind(p) >= PPB, Behind(p) < 2 * PPB
      PROVE  ~Readable(p, s)
  <2>1. Behind(p) \in PPB..(2 * PPB - 1)
    BY <1>2, Place, Sizes
  <2>2. QED
    BY <1>2, <2>1, Sizes DEF FirstKept
<1>3. FirstKept = PPB => Full
  BY FreePages, Sizes DEF FirstKept, IInv
<1>4. QED
  BY <1>1, <1>2, <1>3

(***************************************************************************)
(* The order of the records: the induction.                                *)
(***************************************************************************)

\* Slots that are only given up, and pages that only move together, stay in order.
LEMMA OrderKept ==
  ASSUME Ordered, Trusted' => Trusted,
         \A p \in LogPages, s \in Slots :
            Present(p, s)' => /\ Present(p, s) /\ nand'[p][s] = nand[p][s]
                              /\ p \in hit => p \in hit',
         \A p \in LogPages, q \in LogPages, s \in Slots, t \in Slots :
            Present(p, s)' /\ Present(q, t)' /\ Behind(p)' < Behind(q)' => Behind(p) < Behind(q)
  PROVE  Ordered'
<1>1. SUFFICES ASSUME Trusted', NEW p \in LogPages, NEW s \in Slots, NEW q \in LogPages, NEW t \in Slots,
                      Present(p, s)', Present(q, t)', Precedes(p, s, q, t)'
               PROVE  nand'[p][s] < nand'[q][t]
  BY DEF Ordered, LogPages, Slots, MaxPage
<1>2. /\ Present(p, s) /\ nand'[p][s] = nand[p][s] /\ (p \in hit => p \in hit')
      /\ Present(q, t) /\ nand'[q][t] = nand[q][t] /\ Trusted
  BY <1>1
<1>3. Precedes(p, s, q, t)
  BY <1>1, <1>2 DEF Precedes
<1>4. QED
  BY <1>1, <1>2, <1>3 DEF Ordered

\* What an erase ahead does to the pages of the log: those of the old block are left
\* behind, and the rest comes nearer.
LEMMA AfterEraseAhead ==
  ASSUME IInv, EraseAhead_Ok \/ EraseAhead_Fail, NEW p \in LogPages
  PROVE  /\ Behind(p) >= PPB => Behind(p)' = Behind(p) - PPB
         /\ Behind(p) < PPB => Behind(p)' > dist'
         /\ Behind(p)' \in Nat
         /\ dist' = dist - PPB /\ ~Full' /\ Full /\ pc = "erase_ahead" /\ wPage' = wPage
<1>1. pc = "erase_ahead" /\ MoveRead /\ wPage' = wPage
  BY DEF EraseAhead_Ok, EraseAhead_Fail
<1>2. /\ rPage \in 0..(MaxPage - 1) /\ BlockStart(rPage)
      /\ dist \in 0..(MaxPage - 1) /\ Full
  BY <1>1 DEF IInv, Positions, Called
<1>3. rPage % PPB = 0 /\ PPB - 0 = PPB
  BY <1>2, NextBlock, Sizes
<1>4. rPage' = (rPage + PPB) % MaxPage /\ dist' = dist - PPB
  BY <1>1, <1>3 DEF MoveRead
<1>5. /\ rPage' \in LogPages /\ rPage + PPB <= MaxPage
      /\ rPage' = IF rPage + PPB = MaxPage THEN 0 ELSE rPage + PPB
  BY <1>2, <1>4, NextBlock DEF LogPages
<1>6. Behind(p)' = (p + MaxPage - rPage') % MaxPage
  BY DEF Behind, MaxPage
<1>7. /\ Behind(p)' = IF p >= rPage' THEN p - rPage' ELSE p + MaxPage - rPage'
      /\ Behind(p)' \in 0..(MaxPage - 1)
  BY <1>5, <1>6, Distance
<1>8. /\ Behind(p) = IF p >= rPage THEN p - rPage ELSE p + MaxPage - rPage
      /\ p \in Nat /\ p < MaxPage /\ rPage \in Nat /\ rPage < MaxPage /\ dist \in Nat /\ dist < MaxPage
      /\ PPB \in Nat /\ PPB >= 1 /\ MaxPage \in Nat /\ MaxPage >= 3 * PPB
  BY <1>2, Place, Sizes DEF LogPages
<1>9. Behind(p) >= PPB => Behind(p)' = Behind(p) - PPB
  BY <1>5, <1>7, <1>8
<1>10. Behind(p) < PPB => Behind(p)' > dist'
  BY <1>4, <1>5, <1>7, <1>8
<1>11. ~Full'
  BY <1>1, ReadMoves
<1>12. QED
  BY <1>1, <1>2, <1>4, <1>7, <1>9, <1>10, <1>11, Sizes

\* What it does to the slots: those ahead of the old block stay as they are, but for
\* a block that is cleared or damaged as a whole.
LEMMA SlotsAfterEraseAhead ==
  ASSUME IInv, EraseAhead_Ok \/ EraseAhead_Fail
  PROVE  /\ \A p \in LogPages, s \in Slots :
              Behind(p) >= PPB /\ Readable(p, s)' =>
                 /\ Readable(p, s) /\ nand'[p][s] = nand[p][s]
                 /\ p \in hit => p \in hit'
         /\ \A p \in LogPages, s \in Slots :
              Behind(p) >= PPB /\ Readable(p, s) /\ Block(p) # Ahead => Readable(p, s)'
         /\ \/ \A p \in LogPages, s \in Slots : Block(p) = Ahead => ~Readable(p, s)'
            \/ nand' = nand /\ skipped' = skipped \ {Block(rPage)}
<1>1. /\ pc = "erase_ahead" /\ Ahead \in Nat /\ LogPages \subseteq Pages
      /\ nand' \in {nand, Fill(Ahead, Erased), Fill(Ahead, Garbage)}
      /\ hit' \in {hit, hit \ PagesOf(Ahead)}
      /\ skipped' \in {skipped \ {Block(rPage)}, skipped \ {Ahead, Block(rPage)}}
      /\ nand' = nand => skipped' = skipped \ {Block(rPage)} \/ nand' = Fill(Ahead, Erased)
      /\ (Ahead \in skipped /\ Ahead \notin skipped') \/ hit' # hit =>
            nand' = Fill(Ahead, Erased) \/ Ahead = Block(rPage)
  BY AheadElsewhere, PagesOfLog DEF EraseAhead_Ok, EraseAhead_Fail, LogPages
<1>2. ASSUME NEW p \in LogPages, Block(p) # Ahead, Behind(p) >= PPB
      PROVE  /\ nand'[p] = nand[p] /\ (p \in hit' <=> p \in hit)
             /\ Block(p) \in skipped' <=> Block(p) \in skipped
  <2>1. nand'[p] = nand[p]
    BY <1>1, <1>2, FillElsewhere
  <2>2. p \notin PagesOf(Ahead)
    BY <1>1, <1>2, BlockPages
  <2>3. Block(p) # Block(rPage)
    BY <1>2, OldBlocks, Place, Sizes
  <2>4. QED
    BY <1>1, <1>2, <2>1, <2>2, <2>3
<1>3. ASSUME NEW p \in LogPages, NEW s \in Slots, Block(p) = Ahead,
             NEW x \in {Erased, Garbage}, nand' = Fill(Ahead, x)
      PROVE  ~Readable(p, s)'
  <2>1. nand'[p][s] = x
    BY <1>1, <1>3, BlockPages DEF Fill
  <2>2. ~(nand'[p][s] > 0)
    BY <2>1 DEF Erased, Garbage
  <2>3. QED
    BY <2>2 DEF Readable
<1>4. ASSUME NEW p \in LogPages, NEW s \in Slots, Block(p) = Ahead, Behind(p) >= PPB, Readable(p, s)'
      PROVE  Readable(p, s) /\ nand' = nand /\ (p \in hit => p \in hit')
  <2>1. nand' \notin {Fill(Ahead, Erased), Fill(Ahead, Garbage)}
    BY <1>3, <1>4
  <2>2. nand' = nand /\ skipped' = skipped \ {Block(rPage)}
    BY <1>1, <2>1
  <2>3. Block(rPage) # Ahead
    BY <1>4, OldBlocks, Place, Sizes
  <2>4. hit' = hit /\ Block(p) \notin skipped
    BY <1>1, <1>4, <2>1, <2>2, <2>3 DEF Readable, Block
  <2>5. QED
    BY <1>4, <2>2, <2>4 DEF Readable, Block
<1>5. ASSUME NEW p \in LogPages, NEW s \in Slots, Behind(p) >= PPB
      PROVE  /\ Readable(p, s)' => /\ Readable(p, s) /\ nand'[p][s] = nand[p][s]
                                   /\ p \in hit => p \in hit'
             /\ Readable(p, s) /\ Block(p) # Ahead => Readable(p, s)'
  BY <1>2, <1>4, <1>5 DEF Readable, Block
<1>6. \/ \A p \in LogPages, s \in Slots : Block(p) = Ahead => ~Readable(p, s)'
      \/ nand' = nand /\ skipped' = skipped \ {Block(rPage)}
  BY <1>1, <1>3
<1>7. QED
  BY <1>5, <1>6

\* Records only go, or stay as they are: none becomes newer than that of the call.
LEMMA OlderKept ==
  ASSUME IInv, Older, cur' = cur,
         \A p \in Pages, s \in Slots : nand'[p][s] = nand[p][s] \/ (nand'[p][s] <= 0 /\ nand'[p][s] \in Int),
         pc' \in {"erase_ahead", "erase_new", "program"} =>
            pc \in {"erase_ahead", "erase_new", "program"} /\ cur >= 1
  PROVE  Older'
<1>1. cur \in Nat
  BY Sizes DEF IInv, TypeOK
<1>2. SUFFICES ASSUME NEW p \in Pages, NEW s \in Slots
               PROVE  /\ nand'[p][s] <= cur
                      /\ pc' \in {"erase_ahead", "erase_new", "program"} => nand'[p][s] < cur
  BY DEF Older, Pages, Slots, MaxPage
<1>3. CASE nand'[p][s] = nand[p][s]
  BY <1>3 DEF Older
<1>4. CASE nand'[p][s] <= 0 /\ nand'[p][s] \in Int
  BY <1>1, <1>4
<1>5. QED
  BY <1>3, <1>4

\* What an erase leaves of a slot.
LEMMA FillValues ==
  ASSUME NEW b, NEW n \in {nand, Fill(b, Erased), Fill(b, Garbage)}, NEW p \in Pages, NEW s \in Slots
  PROVE  n[p][s] = nand[p][s] \/ (n[p][s] <= 0 /\ n[p][s] \in Int)
<1>1. ASSUME NEW x \in {Erased, Garbage}
      PROVE  Fill(b, x)[p][s] \in {nand[p][s], x}
  BY DEF Fill
<1>2. n[p][s] \in {nand[p][s], Erased, Garbage}
  BY <1>1
<1>3. \A v \in {Erased, Garbage} : v <= 0 /\ v \in Int
  BY DEF Erased, Garbage
<1>4. QED
  BY <1>2, <1>3

\* What a programming leaves of the slot: the record only if it was erased.
LEMMA ProgramValue ==
  ASSUME IInv, wOff \in Slots, NEW n \in {Programmed} \cup Torn
  PROVE  \/ n[wPage][wOff] \in {nand[wPage][wOff], Garbage}
         \/ n[wPage][wOff] = cur /\ nand[wPage][wOff] = Erased /\ n = Programmed
<1>1. nand \in [Pages -> [Slots -> {Erased, Garbage} \cup 1..MaxRecords]] /\ wPage \in Pages
  BY PagesOfLog DEF IInv, TypeOK
<1>2. ASSUME NEW x PROVE [nand EXCEPT ![wPage][wOff] = x][wPage][wOff] = x
  BY <1>1
<1>3. wOff # RPP
  BY Sizes DEF Slots
<1>4. CASE n = Programmed
  <2>1. n = [nand EXCEPT ![wPage][wOff] = IF @ = Erased THEN cur ELSE Garbage]
    BY <1>3, <1>4 DEF Programmed
  <2>2. n[wPage][wOff] = IF nand[wPage][wOff] = Erased THEN cur ELSE Garbage
    BY <1>1, <2>1
  <2>3. QED
    BY <1>4, <2>2
<1>5. CASE n \in Torn
  <2>1. n \in {nand, [nand EXCEPT ![wPage][wOff] = Garbage]}
    BY <1>3, <1>5 DEF Torn
  <2>2. QED
    BY <1>2, <2>1
<1>6. QED
  BY <1>4, <1>5

\* A record that is programmed is the newest, in the page that the log came to last.
LEMMA ProgramOrdered ==
  ASSUME IInv, Storage, Older, Ordered, Trusted, pc = "program",
         nand' \in {Programmed} \cup Torn, skipped' = skipped, hit \subseteq hit', rPage' = rPage,
         \A p \in LogPages : Reached(p)' => Reached(p)
  PROVE  Ordered'
<1>1. SUFFICES ASSUME NEW p \in LogPages, NEW s \in Slots, NEW q \in LogPages, NEW t \in Slots,
                      Present(p, s)', Present(q, t)', Precedes(p, s, q, t)'
               PROVE  nand'[p][s] < nand'[q][t]
  BY DEF Ordered, LogPages, Slots, MaxPage
<1>2. Precedes(p, s, q, t)
  BY <1>1 DEF Precedes, Behind, MaxPage
<1>3. /\ p \in Pages /\ q \in Pages /\ s \in Nat /\ t \in Nat
      /\ Behind(p) \in Nat /\ Behind(q) \in Nat /\ Behind(wPage) = dist /\ dist \in Nat
  BY SlotTyped, Place DEF IInv, Positions
<1>4. Reached(p) /\ Reached(q) /\ Behind(q) <= dist
  <2>1. Reached(p) /\ Reached(q)
    BY <1>1 DEF Present
  <2>2. QED
    BY <1>3, <2>1 DEF Reached
<1>5. nand'[p][s] > 0 /\ Block(p) \notin skipped /\ nand'[q][t] > 0 /\ Block(q) \notin skipped
  BY <1>1 DEF Present, Readable, Block
<1>6. ASSUME nand'[p][s] = nand[p][s], nand'[q][t] = nand[q][t]
      PROVE  nand'[p][s] < nand'[q][t]
  BY <1>1, <1>2, <1>4, <1>5, <1>6 DEF Ordered, Present, Readable
<1>7. CASE p = wPage /\ s = wOff
  <2>1. q = wPage /\ t > wOff /\ wPage \notin hit
    BY <1>2, <1>3, <1>4, <1>7 DEF Precedes
  <2>2. nand'[q][t] = nand[q][t]
    BY <1>3, <1>7, <2>1, ProgramsOneSlot
  <2>3. Unwritten(q, t) /\ ~EraseDue
    BY <1>3, <1>7, <2>1 DEF Unwritten, EraseDue
  <2>4. nand[q][t] = Erased
    BY <1>3, <2>1, <2>3 DEF Storage, Clean
  <2>5. QED
    BY <1>5, <2>2, <2>4 DEF Erased
<1>8. CASE ~(p = wPage /\ s = wOff) /\ q = wPage /\ t = wOff
  <2>1. nand'[p][s] = nand[p][s]
    BY <1>3, <1>8, ProgramsOneSlot
  <2>2. nand'[q][t] \in {nand[q][t], Garbage, cur}
    BY <1>8, ProgramValue
  <2>3. nand'[q][t] # Garbage
    BY <1>5 DEF Garbage
  <2>4. nand[p][s] < cur
    BY <1>3 DEF Older
  <2>5. QED
    BY <1>6, <2>1, <2>2, <2>3, <2>4
<1>9. CASE ~(p = wPage /\ s = wOff) /\ ~(q = wPage /\ t = wOff)
  BY <1>3, <1>6, <1>9, ProgramsOneSlot
<1>10. QED
  BY <1>7, <1>8, <1>9

\* A call that begins.
LEMMA BeginOrder ==
  ASSUME IInv, Older, Ordered, Write \/ Recover
  PROVE  Older' /\ Ordered'
<1>1. /\ pc = "idle" /\ cur' \in {cur, cur + 1}
      /\ pc' = "recover_r" \/ (pc' \in {"erase_ahead", AfterAhead} /\ cur' = cur + 1)
      /\ UNCHANGED <<nand, rPage, wPage, wOff, dist, skipped, hit, mixed>>
  BY DEF Write, Recover, positions, history
<1>2. NewBlock' = NewBlock /\ AfterAhead = IF NewBlock THEN "erase_new" ELSE "program"
  BY <1>1 DEF NewBlock, AfterAhead
<1>3. EraseDue' <=> EraseDue
  BY <1>1, <1>2 DEF EraseDue
<1>4. Ordered'
  BY <1>1, <1>2, <1>3 DEF Ordered, Trusted, Present, Reached, Precedes, Readable, Behind, LogPages, Slots,
                         MaxPage, Block
<1>5. Older'
  <2>1. SUFFICES ASSUME NEW p \in Pages, NEW s \in Slots
                 PROVE  /\ nand[p][s] <= cur'
                        /\ pc' \in {"erase_ahead", "erase_new", "program"} => nand[p][s] < cur'
    BY <1>1 DEF Older, Pages, Slots, MaxPage
  <2>2. cur \in Nat /\ nand[p][s] \in Int /\ nand[p][s] <= cur
    <3>1. nand[p][s] \in {Erased, Garbage} \cup 1..MaxRecords
      BY DEF IInv, TypeOK
    <3>2. QED
      BY <3>1, Sizes DEF IInv, TypeOK, Older, Erased, Garbage
  <2>3. QED
    BY <1>1, <1>2, <2>2
<1>6. QED
  BY <1>4, <1>5

\* A block cleared or damaged ahead, and the old one left behind.
LEMMA EraseAheadOrder ==
  ASSUME IInv, Storage, Older, Ordered, EraseAhead_Ok \/ EraseAhead_Fail
  PROVE  Older' /\ Ordered'
<1>1. /\ pc = "erase_ahead" /\ pc' \in {"idle", AfterAhead} /\ UNCHANGED <<wPage, wOff, cur, mixed>>
      /\ nand' \in {nand, Fill(Ahead, Erased), Fill(Ahead, Garbage)}
  BY DEF EraseAhead_Ok, EraseAhead_Fail
<1>2. NewBlock' = NewBlock /\ AfterAhead = IF NewBlock THEN "erase_new" ELSE "program"
  BY <1>1 DEF NewBlock, AfterAhead
<1>3. EraseDue' <=> EraseDue
  BY <1>1, <1>2 DEF EraseDue
<1>4. Older'
  <2>1. cur >= 1
    BY <1>1 DEF Storage, Midway
  <2>2. QED
    BY <1>1, <2>1, FillValues, OlderKept
<1>5. ASSUME NEW p \in LogPages, Reached(p)'
      PROVE  Behind(p) >= PPB /\ Behind(p)' = Behind(p) - PPB /\ Reached(p)
  <2>1. /\ Behind(p) \in Nat /\ dist \in Nat /\ PPB \in Nat /\ PPB >= 1 /\ MaxPage \in Nat
        /\ Behind(wPage) = dist
    BY Place, Sizes DEF IInv, Positions
  <2>2. /\ Behind(p) >= PPB => Behind(p)' = Behind(p) - PPB
        /\ Behind(p) < PPB => Behind(p)' > dist'
        /\ dist' = dist - PPB /\ dist + PPB >= MaxPage /\ MaxPage >= 3 * PPB
    BY AfterEraseAhead, Sizes DEF Full
  <2>3. CASE Behind(p)' < dist'
    <3>1. Behind(p)' \in Nat
      BY AfterEraseAhead
    <3>2. QED
      BY <2>1, <2>2, <2>3, <3>1 DEF Reached
  <2>4. CASE p = wPage /\ ~EraseDue'
    BY <1>3, <2>1, <2>2, <2>4 DEF Reached
  <2>5. QED
    BY <1>1, <1>5, <2>3, <2>4 DEF Reached
<1>6. Ordered'
  <2>1. ASSUME NEW p \in LogPages, NEW s \in Slots, Present(p, s)'
        PROVE  Present(p, s) /\ nand'[p][s] = nand[p][s] /\ (p \in hit => p \in hit')
    BY <1>5, <2>1, SlotsAfterEraseAhead DEF Present
  <2>2. ASSUME NEW p \in LogPages, NEW q \in LogPages, NEW s \in Slots, NEW t \in Slots,
               Present(p, s)', Present(q, t)', Behind(p)' < Behind(q)'
        PROVE  Behind(p) < Behind(q)
    <3>1. Behind(p)' = Behind(p) - PPB /\ Behind(q)' = Behind(q) - PPB
      BY <1>5, <2>2 DEF Present
    <3>2. Behind(p) \in Nat /\ Behind(q) \in Nat /\ PPB \in Nat
      BY Place, Sizes
    <3>3. QED
      BY <2>2, <3>1, <3>2
  <2>3. Trusted' => Trusted
    BY <1>1 DEF Trusted
  <2>4. QED
    BY <2>1, <2>2, <2>3, OrderKept
<1>7. QED
  BY <1>4, <1>6

\* The block under the write position cleared: nothing of the log is in it.
LEMMA EraseNewOkOrder ==
  ASSUME IInv, Storage, Older, Ordered, EraseNew_Ok
  PROVE  Older' /\ Ordered'
<1>1. /\ pc = "erase_new" /\ pc' = "program" /\ nand' = Fill(Block(wPage), Erased)
      /\ skipped' = skipped \ {Block(wPage)} /\ hit' = hit \ PagesOf(Block(wPage))
      /\ UNCHANGED <<rPage, wPage, wOff, dist, cur, mixed>>
  BY DEF EraseNew_Ok, positions
<1>2. /\ ~Full /\ wPage % PPB = 0 /\ cur >= 1
      /\ wPage \in LogPages /\ Block(wPage) \in Nat
  <2>1. ~Full /\ wPage % PPB = 0 /\ cur >= 1
    BY <1>1 DEF IInv, Called, Writing, Storage, Midway, NewBlock
  <2>2. wPage \in LogPages
    BY Place, Sizes DEF IInv, TypeOK, LogPages
  <2>3. QED
    BY <2>1, <2>2, StartOfBlock
<1>3. Older'
  BY <1>1, <1>2, FillValues, OlderKept
<1>4. ASSUME NEW p \in LogPages, NEW s \in Slots, Present(p, s)'
      PROVE  Present(p, s) /\ nand'[p][s] = nand[p][s] /\ (p \in hit => p \in hit')
  <2>1. p \in Pages
    BY SlotTyped DEF IInv
  <2>2. nand'[p][s] > 0 /\ Block(p) \notin skipped'
    BY <1>4 DEF Present, Readable, Block
  <2>3. Block(p) # Block(wPage)
    BY <1>1, <1>2, <2>1, <2>2, FillErases DEF Erased
  <2>4. nand'[p] = nand[p] /\ p \notin PagesOf(Block(wPage))
    BY <1>1, <1>2, <2>1, <2>3, FillElsewhere, BlockPages
  <2>5. p # wPage
    BY <2>3
  <2>6. Reached(p)
    BY <1>1, <1>4, <2>5 DEF Present, Reached, Behind, MaxPage
  <2>7. QED
    BY <1>1, <2>2, <2>3, <2>4, <2>6 DEF Present, Readable
<1>5. Ordered'
  BY <1>1, <1>4, OrderKept DEF Trusted, Behind, MaxPage
<1>6. QED
  BY <1>3, <1>5

\* A block that could not be cleared: its pages are passed over as a whole.
LEMMA EraseNewFailOrder ==
  ASSUME IInv, Storage, Older, Ordered, EraseNew_Fail
  PROVE  Older' /\ Ordered'
<1>1. /\ pc = "erase_new" /\ pc' = "idle" /\ nand' \in {nand, Fill(Block(wPage), Garbage)}
      /\ wPage' = (wPage + PPB) % MaxPage /\ dist' = dist + PPB
      /\ skipped' = skipped \cup {Block(wPage)}
      /\ UNCHANGED <<rPage, wOff, cur, hit, mixed>>
  BY DEF EraseNew_Fail
<1>2. ~Full /\ wPage % PPB = 0 /\ wOff = 0
  BY <1>1 DEF IInv, Called, Writing, Storage, Midway, NewBlock
<1>3. wPage \in LogPages /\ Block(wPage) \in Nat
  BY <1>2, StartOfBlock DEF IInv, TypeOK, LogPages
<1>4. EraseDue'
  <2>1. BlockStart(wPage) /\ wPage \in 0..(MaxPage - 1)
    BY <1>2, <1>3, StartOfBlock DEF LogPages
  <2>2. BlockStart((wPage + PPB) % MaxPage) /\ (wPage + PPB) % MaxPage \in 0..(MaxPage - 1)
    BY <2>1, NextBlock
  <2>3. wPage' % PPB = 0
    BY <1>1, <2>2, NextBlock
  <2>4. QED
    BY <1>1, <1>2, <2>3 DEF EraseDue, NewBlock
<1>5. Older'
  BY <1>1, FillValues, OlderKept
<1>6. ASSUME NEW p \in LogPages, NEW s \in Slots, Present(p, s)'
      PROVE  Present(p, s) /\ nand'[p][s] = nand[p][s]
  <2>1. Behind(p)' = Behind(p)
    BY <1>1 DEF Behind, MaxPage
  <2>2. Behind(p) < dist + PPB /\ nand'[p][s] > 0 /\ Block(p) \notin skipped'
    BY <1>1, <1>4, <1>6, <2>1 DEF Present, Reached, Readable, Block
  <2>3. Block(p) # Block(wPage) /\ Block(p) \notin skipped
    BY <1>1, <2>2
  <2>4. Behind(p) < dist
    BY <1>2, <2>2, <2>3, NextToWrite, Place DEF IInv, Positions
  <2>5. nand'[p] = nand[p]
    BY <1>1, <1>3, <2>3, FillElsewhere, SlotTyped DEF IInv
  <2>6. QED
    BY <2>2, <2>3, <2>4, <2>5 DEF Present, Reached, Readable
<1>7. Ordered'
  BY <1>1, <1>6, OrderKept DEF Trusted, Behind, MaxPage
<1>8. QED
  BY <1>5, <1>7

\* The record of the call, or nothing, in the next slot.
LEMMA ProgramOrder ==
  ASSUME IInv, Storage, Older, Ordered, Program
  PROVE  Older' /\ Ordered'
<1>1. /\ pc = "program" /\ pc' \in {"wrap_off", "idle"}
      /\ pc' = (IF wOff + 1 >= RPP THEN "wrap_off" ELSE "idle")
      /\ wOff' = (IF wOff = RPP THEN wOff ELSE wOff + 1)
      /\ UNCHANGED <<rPage, wPage, dist, cur, skipped, hit, mixed>>
      /\ nand' \in {Programmed} \cup Torn
  BY DEF Program, history
<1>2. Older'
  <2>1. SUFFICES ASSUME NEW p \in Pages, NEW s \in Slots PROVE nand'[p][s] <= cur
    BY <1>1 DEF Older, Pages, Slots, MaxPage
  <2>2. nand[p][s] <= cur /\ cur \in Nat
    BY Sizes DEF Older, IInv, TypeOK
  <2>3. CASE p = wPage /\ s = wOff
    <3>1. nand'[p][s] \in {nand[p][s], Garbage, cur}
      BY <1>1, <2>3, ProgramValue
    <3>2. QED
      BY <2>2, <3>1 DEF Garbage
  <2>4. CASE ~(p = wPage /\ s = wOff)
    BY <1>1, <2>2, <2>4, ProgramsOneSlot
  <2>5. QED
    BY <2>3, <2>4
<1>3. ASSUME NEW p \in LogPages, Reached(p)' PROVE Reached(p)
  BY <1>1, <1>3 DEF Reached, EraseDue, Behind, MaxPage
<1>4. Ordered'
  <2>1. CASE Trusted
    BY <1>1, <1>3, <2>1, ProgramOrdered
  <2>2. CASE ~Trusted
    BY <1>1, <2>2 DEF Ordered, Trusted
  <2>3. QED
    BY <2>1, <2>2
<1>5. QED
  BY <1>2, <1>4

\* The end of a page.  What follows in its block is erased.
LEMMA WrapOrder ==
  ASSUME IInv, Storage, Older, Ordered, WrapOffset \/ WrapPage
  PROVE  Older' /\ Ordered'
<1>1. /\ pc \in {"wrap_off", "wrap_page"} /\ pc' \in {"wrap_page", "idle"}
      /\ UNCHANGED <<nand, rPage, cur, skipped, hit, mixed>>
  BY DEF WrapOffset, WrapPage, history
<1>2. Older'
  BY <1>1 DEF Older, Pages, Slots, MaxPage
<1>3. ASSUME NEW p \in LogPages, NEW s \in Slots, Trusted, Present(p, s)'
      PROVE  Reached(p)
  <2>1. Behind(p)' = Behind(p) /\ Behind(p) \in Nat /\ dist \in Nat /\ ~EraseDue
    BY <1>1, Place DEF Behind, MaxPage, IInv, Positions, EraseDue
  <2>2. CASE WrapOffset
    BY <1>3, <2>1, <2>2 DEF WrapOffset, Present, Reached
  <2>3. CASE WrapPage
    <3>1. dist' = dist + 1 /\ pc = "wrap_page" /\ wOff = 0
      BY <2>3 DEF WrapPage, Storage, Midway
    <3>2. CASE Behind(p) < dist
      BY <3>2 DEF Reached
    <3>3. CASE Behind(p) = dist
      BY <2>1, <3>3, SamePlace, Place DEF Reached
    <3>4. CASE p = wPage' /\ ~EraseDue'
      <4>1. wPage' = wPage + 1 /\ Block(wPage') = Block(wPage)
        BY <2>3, <3>1, <3>4, SameBlock
      <4>2. Unwritten(p, s) /\ p # wPage /\ p \in Pages
        BY <3>4, <4>1, PagesOfLog DEF Unwritten, IInv, TypeOK, LogPages
      <4>3. nand[p][s] = Erased
        BY <1>3, <2>1, <4>2 DEF Storage, Clean
      <4>4. QED
        BY <1>1, <1>3, <4>3 DEF Present, Readable, Erased
    <3>5. QED
      BY <1>3, <2>1, <3>1, <3>2, <3>3, <3>4 DEF Present, Reached
  <2>4. QED
    BY <2>2, <2>3
<1>4. Ordered'
  <2>1. CASE Trusted
    BY <1>1, <1>3, <2>1, OrderKept DEF Present, Readable, Behind, MaxPage, Block
  <2>2. CASE ~Trusted
    BY <1>1, <2>2 DEF Ordered, Trusted
  <2>3. QED
    BY <2>1, <2>2
<1>5. QED
  BY <1>2, <1>4

\* A recovery of the index gives up the whole log.
LEMMA RecoverOrder ==
  ASSUME IInv, Storage, Older, RecoverRead \/ RecoverWrite \/ RecoverOffset
  PROVE  Older' /\ Ordered'
<1>1. pc' \in {"recover_w", "recover_off", "idle"} /\ cur' = cur /\ nand' = nand
  BY DEF RecoverRead, RecoverWrite, RecoverOffset
<1>2. Older'
  BY <1>1 DEF Older, Pages, Slots, MaxPage
<1>3. CASE RecoverRead \/ RecoverWrite
  BY <1>2, <1>3 DEF RecoverRead, RecoverWrite, Ordered, Trusted
<1>4. CASE RecoverOffset
  <2>1. /\ pc = "recover_off" /\ pc' = "idle" /\ wPage' = 0 /\ wOff' = 0 /\ dist' = 0 /\ rPage' = rPage
    BY <1>4 DEF RecoverOffset, Storage, Midway
  <2>2. EraseDue'
    BY <2>1, Sizes DEF EraseDue, NewBlock
  <2>3. ASSUME NEW p \in LogPages PROVE ~Reached(p)'
    <3>1. Behind(p)' \in Nat
      BY <2>1, Place DEF Behind, MaxPage
    <3>2. QED
      BY <2>1, <2>2, <3>1 DEF Reached
  <2>4. QED
    BY <1>2, <2>3 DEF Ordered, Present, LogPages, MaxPage
<1>5. QED
  BY <1>2, <1>3, <1>4

\* A reset marks the page under the write position; what it damages otherwise is of a
\* block that holds nothing of the log, or that is given up.
LEMMA ResetOrder ==
  ASSUME IInv, Storage, Older, Ordered, Reset
  PROVE  Older' /\ Ordered'
<1>1. /\ nand' \in CutShort /\ pc' = "idle"
      /\ hit' = hit \cup (IF pc = "recover_off" THEN PagesOf(0) ELSE {wPage})
      /\ mixed' = (mixed \/ pc \in {"recover_w", "recover_off"})
      /\ UNCHANGED <<rPage, wPage, wOff, dist, cur, skipped>>
  BY DEF Reset, positions
<1>2. Ahead \in Nat /\ Block(wPage) \in Nat
  BY BlockOfPage, Sizes DEF Ahead, IInv, TypeOK
<1>3. Older'
  <2>1. CASE pc # "program"
    <3>1. \E b : nand' \in {nand, Fill(b, Erased), Fill(b, Garbage)}
      BY <1>1, <2>1 DEF CutShort
    <3>2. QED
      BY <1>1, <3>1, FillValues, OlderKept
  <2>2. CASE pc = "program"
    <3>1. SUFFICES ASSUME NEW p \in Pages, NEW s \in Slots PROVE nand'[p][s] <= cur
      BY <1>1 DEF Older, Pages, Slots, MaxPage
    <3>2. nand[p][s] <= cur /\ cur \in Nat /\ nand' \in {Programmed} \cup Torn
      BY <1>1, <2>2, Sizes DEF Older, IInv, TypeOK, CutShort
    <3>3. CASE p = wPage /\ s = wOff
      <4>1. nand'[p][s] \in {nand[p][s], Garbage, cur}
        BY <3>2, <3>3, ProgramValue
      <4>2. QED
        BY <3>2, <4>1 DEF Garbage
    <3>4. CASE ~(p = wPage /\ s = wOff)
      BY <3>2, <3>4, ProgramsOneSlot
    <3>5. QED
      BY <3>3, <3>4
  <2>3. QED
    BY <2>1, <2>2
<1>4. ASSUME NEW p \in LogPages
      PROVE  Behind(p)' = Behind(p) /\ (Reached(p)' => Reached(p))
  BY <1>1 DEF Reached, EraseDue, NewBlock, Behind, MaxPage, Storage, Midway
<1>5. Ordered'
  <2>1. SUFFICES ASSUME Trusted PROVE Ordered'
    BY <1>1 DEF Ordered, Trusted
  <2>2. CASE pc = "program"
    BY <1>1, <1>4, <2>1, <2>2, ProgramOrdered DEF CutShort
  <2>3. CASE pc # "program"
    <3>1. ASSUME NEW p \in LogPages, NEW s \in Slots, Present(p, s)'
          PROVE  Present(p, s) /\ nand'[p][s] = nand[p][s]
      <4>1. Reached(p) /\ nand'[p][s] > 0 /\ Block(p) \notin skipped /\ p \in Pages
        BY <1>1, <1>4, <3>1, SlotTyped DEF Present, Readable, Block, IInv
      <4>2. PICK b \in Nat : nand' \in {nand, Fill(b, Erased), Fill(b, Garbage)}
        BY <1>1, <1>2, <2>3 DEF CutShort
      <4>3. ASSUME NEW x \in {Erased, Garbage}, nand' = Fill(b, x) PROVE Block(p) # b
        <5>1. ~(x > 0)
          BY DEF Erased, Garbage
        <5>2. Block(p) = b => Fill(b, x)[p][s] = x
          BY <4>1, BlockPages DEF Fill
        <5>3. QED
          BY <4>1, <4>3, <5>1, <5>2
      <4>4. nand'[p] = nand[p]
        BY <4>1, <4>2, <4>3, FillElsewhere
      <4>5. QED
        BY <4>1, <4>4 DEF Present, Readable
    <3>2. QED
      BY <1>1, <1>4, <2>1, <3>1, OrderKept
  <2>4. QED
    BY <2>2, <2>3
<1>6. QED
  BY <1>3, <1>5

\* Only a reset marks pages, and is counted.
LEMMA MarksKept ==
  ASSUME IInv, Marks, [Next]_vars
  PROVE  Marks'
<1>1. (resets' = resets /\ hit' \subseteq hit) \/ resets' = resets + 1
  BY DEF Next, WriteSteps, Write, Recover, EraseAhead_Ok, EraseAhead_Fail, EraseNew_Ok, EraseNew_Fail,
         Program, WrapOffset, WrapPage, RecoverRead, RecoverWrite, RecoverOffset, Reset, vars,
         positions, history, bounds
<1>2. resets \in Nat
  BY DEF Marks
<1>3. QED
  BY <1>1, <1>2 DEF Marks

\* The order holds in every reachable state, with the other invariants.
LEMMA OrderInvariance == Spec => [](IInv /\ Storage /\ Order)
<1>1. Init => Order
  <2>1. SUFFICES ASSUME Init PROVE Order
    OBVIOUS
  <2>2. Older
    BY <2>1 DEF Init, Older, Garbage
  <2>3. Ordered
    <3>1. \A p \in LogPages, s \in Slots : nand[p][s] = Garbage
      BY <2>1, PagesOfLog DEF Init, LogPages
    <3>2. QED
      BY <3>1 DEF Ordered, Present, Readable, Garbage
  <2>4. QED
    BY <2>1, <2>2, <2>3 DEF Init, Order, Marks
<1>2. IInv /\ Storage /\ Order /\ [Next]_vars => Order'
  <2>1. SUFFICES ASSUME IInv, Storage, Order, [Next]_vars PROVE Order'
    OBVIOUS
  <2>2. Older /\ Ordered /\ Marks /\ Marks'
    BY <2>1, MarksKept DEF Order
  <2>3. Older' /\ Ordered'
    <3>1. CASE Next
      BY <2>1, <2>2, <3>1, BeginOrder, EraseAheadOrder, EraseNewOkOrder, EraseNewFailOrder,
         ProgramOrder, WrapOrder, RecoverOrder, ResetOrder DEF Next, WriteSteps
    <3>2. CASE UNCHANGED vars
      BY <2>2, <3>2 DEF vars, positions, history, Older, Ordered, Trusted, Present, Reached, Precedes,
                        Readable, Behind, EraseDue, NewBlock, LogPages, Pages, Slots, MaxPage, Block
    <3>3. QED
      BY <2>1, <3>1, <3>2
  <2>4. QED
    BY <2>2, <2>3 DEF Order
<1>3. QED
  BY <1>1, <1>2, StorageInvariance, PTL DEF Spec

(***************************************************************************)
(* The log as a queue: lemmas.                                             *)
(***************************************************************************)

\* The records are those of the slots in which a reader finds one.
LEMMA Members ==
  \A r : r \in Records <=> Trusted /\ \E p \in LogPages, s \in Slots : Kept(p, s) /\ r = nand[p][s]
<1>1. ASSUME NEW p \in LogPages, NEW s \in Slots PROVE <<p, s>> \in Found <=> Kept(p, s)
  BY DEF Found, Kept
<1>2. Found \subseteq LogPages \X Slots
  BY DEF Found
<1>3. ASSUME Trusted, NEW r
      PROVE  r \in Records <=> \E p \in LogPages, s \in Slots : Kept(p, s) /\ r = nand[p][s]
  <2>1. r \in Records <=> \E x \in Found : r = nand[x[1]][x[2]]
    BY <1>3 DEF Records
  <2>2. ASSUME NEW x \in Found
        PROVE  x[1] \in LogPages /\ x[2] \in Slots /\ x = <<x[1], x[2]>>
    BY <1>2
  <2>3. ASSUME NEW p \in LogPages, NEW s \in Slots, Kept(p, s)
        PROVE  \E x \in Found : nand[x[1]][x[2]] = nand[p][s]
    BY <1>1, <2>3
  <2>4. QED
    BY <1>1, <2>1, <2>2, <2>3
<1>4. QED
  BY <1>3 DEF Records

\* And so they are in the next state.
LEMMA MembersNext ==
  \A r : r \in Records' <=>
            Trusted' /\ \E p \in LogPages, s \in Slots : Kept(p, s)' /\ r = nand'[p][s]
<1>1. (\A r : r \in Records <=>
                 Trusted /\ \E p \in LogPages, s \in Slots : Kept(p, s) /\ r = nand[p][s])'
  BY Members, PTL
<1>2. QED
  BY <1>1 DEF LogPages, Slots, MaxPage

\* Nothing is given up in front of a log that is not full, nor in the next state.
LEMMA NothingInFront ==
  /\ IInv /\ ~Full => FirstKept = 0
  /\ IInv' /\ ~Full' => FirstKept' = 0
<1>1. IInv /\ ~Full => FirstKept = 0
  BY InFront, Sizes
<1>2. (IInv /\ ~Full => FirstKept = 0)'
  BY <1>1, InFront, PTL
<1>3. QED
  BY <1>1, <1>2

\* In a full log it is, as soon as nothing is in the block ahead.
LEMMA WhenFull ==
  IInv /\ Full =>
    (FirstKept = PPB <=> \A p \in LogPages, s \in Slots :
                            Behind(p) >= PPB /\ Behind(p) < 2 * PPB => ~Readable(p, s))
<1>1. SUFFICES ASSUME IInv, Full
               PROVE  FirstKept = PPB <=> \A p \in LogPages, s \in Slots :
                            Behind(p) >= PPB /\ Behind(p) < 2 * PPB => ~Readable(p, s)
  OBVIOUS
<1>2. page_free <= PPB /\ PPB # 0 /\ PPB \in Nat
  BY <1>1, FreePages, Sizes DEF IInv
<1>3. \A p \in LogPages : Behind(p) \in PPB..(2 * PPB - 1) <=> Behind(p) >= PPB /\ Behind(p) < 2 * PPB
  BY <1>1, <1>2, Place
<1>4. QED
  BY <1>2, <1>3 DEF FirstKept

\* And in the next state.
LEMMA WhenFullNext ==
  ASSUME IInv', Full'
  PROVE  /\ FirstKept' \in {0, PPB}
         /\ FirstKept' = PPB <=> \A p \in LogPages, s \in Slots :
                                   Behind(p)' >= PPB /\ Behind(p)' < 2 * PPB => ~Readable(p, s)'
<1>1. (IInv => FirstKept \in {0, PPB})'
  BY InFront, PTL
<1>2. (IInv /\ Full =>
        (FirstKept = PPB <=> \A p \in LogPages, s \in Slots :
                                Behind(p) >= PPB /\ Behind(p) < 2 * PPB => ~Readable(p, s)))'
  BY WhenFull, PTL
<1>3. QED
  BY <1>1, <1>2 DEF LogPages, Slots, MaxPage

\* The same slots with the same content are the same records.
LEMMA SameRecords ==
  ASSUME Trusted' <=> Trusted,
         Trusted => \A p \in LogPages, s \in Slots :
                       /\ Kept(p, s)' <=> Kept(p, s)
                       /\ Kept(p, s) => nand'[p][s] = nand[p][s]
  PROVE  Records' = Records
<1>1. \A r : r \in Records' <=> r \in Records
  BY Members, MembersNext
<1>2. QED
  BY <1>1

\* Slots given up, each behind every one that is kept, are the oldest records.
LEMMA FrontGoes ==
  ASSUME Ordered, Trusted, Trusted', IInv,
         \A p \in LogPages, s \in Slots :
            Kept(p, s)' => Kept(p, s) /\ nand'[p][s] = nand[p][s],
         \A p \in LogPages, s \in Slots, q \in LogPages, t \in Slots :
            Kept(p, s) /\ ~Kept(p, s)' /\ Kept(q, t)' => Behind(p) < Behind(q)
  PROVE  Fifo!LosesOldest
<1>1. Records' \subseteq Records
  BY Members, MembersNext
<1>2. ASSUME NEW q \in Records \ Records', NEW r \in Records'
      PROVE  q < r
  <2>1. PICK p1 \in LogPages, s1 \in Slots : Kept(p1, s1) /\ q = nand[p1][s1]
    BY Members
  <2>2. PICK p2 \in LogPages, s2 \in Slots : Kept(p2, s2)' /\ r = nand'[p2][s2]
    BY MembersNext
  <2>3. ~Kept(p1, s1)'
    BY <1>2, <2>1, MembersNext
  <2>4. Behind(p1) < Behind(p2) /\ Kept(p2, s2) /\ r = nand[p2][s2]
    BY <2>1, <2>2, <2>3
  <2>5. Present(p1, s1) /\ Present(p2, s2)
    BY <2>1, <2>4, KeptIsPresent
  <2>6. QED
    BY <2>1, <2>4, <2>5 DEF Ordered, Precedes
<1>3. QED
  BY <1>1, <1>2 DEF Fifo!LosesOldest, Fifo!Before

\* When the log gets full its first block may be given up, with the one that is empty.
LEMMA FilledUp ==
  ASSUME IInv, IInv', Ordered, Trusted' <=> Trusted, ~Full, resets' = resets,
         Trusted => \A p \in LogPages, s \in Slots :
                       /\ Behind(p)' = Behind(p)
                       /\ (Passed(p, s) /\ Readable(p, s))' <=> Passed(p, s) /\ Readable(p, s)
                       /\ Passed(p, s) /\ Readable(p, s) => nand'[p][s] = nand[p][s]
  PROVE  Fifo!Next \/ Records' = Records
<1>1. CASE ~Trusted
  BY <1>1, SameRecords
<1>2. CASE Trusted
  <2>1. FirstKept = 0
    BY NothingInFront
  <2>2. ASSUME NEW p \in LogPages, NEW s \in Slots
        PROVE  /\ Kept(p, s)' <=> Kept(p, s) /\ Behind(p) >= FirstKept'
               /\ Kept(p, s) => nand'[p][s] = nand[p][s]
    <3>1. Behind(p) >= 0
      BY Place
    <3>2. QED
      BY <1>2, <2>1, <3>1 DEF Kept
  <2>3. ASSUME NEW p \in LogPages, NEW s \in Slots, NEW q \in LogPages, NEW t \in Slots,
               Kept(p, s), ~Kept(p, s)', Kept(q, t)'
        PROVE  Behind(p) < Behind(q)
    <3>1. ~(Behind(p) >= FirstKept') /\ Behind(q) >= FirstKept'
      BY <2>2, <2>3
    <3>2. Behind(p) \in Int /\ Behind(q) \in Int /\ FirstKept' \in Int
      <4>1. (IInv => FirstKept \in {0, PPB})'
        BY InFront, PTL
      <4>2. QED
        BY <4>1, Place, Sizes
    <3>3. QED
      BY <3>1, <3>2
  <2>4. Fifo!LosesOldest
    BY <1>2, <2>2, <2>3, FrontGoes
  <2>5. QED
    BY <2>4 DEF Fifo!Next, Fifo!GiveUp
<1>3. QED
  BY <1>1, <1>2

\* The queue counts as the log does.
LEMMA SameCount == \A S : Fifo!Cardinality(S) = Cardinality(S)
BY DEF Fifo!Cardinality, Cardinality, Fifo!IsFiniteSet, IsFiniteSet

\* There are no more records in some slots of a page than slots.
LEMMA FewValues ==
  ASSUME NEW n \in Nat, NEW f, NEW T, T \subseteq {f[s] : s \in 0..(n - 1)}
  PROVE  IsFiniteSet(T) /\ Cardinality(T) <= n
<1> DEFINE S == 0..(n - 1)
           g == [s \in S |-> f[s]]
           R == {f[s] : s \in S}
<1>1. IsFiniteSet(S) /\ Cardinality(S) = n
  BY FS_Interval
<1>2. g \in Surjection(S, R)
  BY DEF Surjection
<1>3. IsFiniteSet(R) /\ Cardinality(R) <= n
  BY <1>1, <1>2, FS_Surjection
<1>4. T \in SUBSET R
  OBVIOUS
<1> HIDE DEF R
<1>5. IsFiniteSet(T) /\ Cardinality(T) <= Cardinality(R)
  BY <1>3, <1>4, FS_Subset
<1>6. QED
  BY <1>3, <1>5, FS_CardinalityType

(***************************************************************************)
(* The log as a queue: the steps.                                          *)
(***************************************************************************)

FifoStep == Fifo!Next \/ (Records' = Records /\ resets' = resets)

\* A call that begins.
LEMMA BeginFifo ==
  ASSUME Write \/ Recover
  PROVE  FifoStep
<1>1. /\ pc = "idle" /\ pc' # "wrap_page" /\ pc' \notin {"recover_w", "recover_off"}
      /\ UNCHANGED <<nand, rPage, wPage, wOff, dist, skipped, mixed, resets>>
  BY DEF Write, Recover, AfterAhead, positions, history, bounds
<1>2. page_free' = page_free /\ Trusted' = Trusted
  BY <1>1 DEF page_free, MaxPage, Trusted
<1>3. ASSUME NEW p, NEW s
      PROVE  /\ Behind(p)' = Behind(p) /\ Readable(p, s)' = Readable(p, s)
             /\ Passed(p, s)' = Passed(p, s)
  BY <1>1 DEF Behind, Readable, Passed, MaxPage, Block
<1>4. FirstKept' = FirstKept
  BY <1>2, <1>3 DEF FirstKept, LogPages, Slots, MaxPage
<1>5. Records' = Records
  BY <1>1, <1>2, <1>3, <1>4, SameRecords DEF Kept
<1>6. QED
  BY <1>1, <1>5 DEF FifoStep

\* An erase ahead gives up the block of the read position, and the next one if that is
\* what it cleared.
LEMMA EraseAheadFifo ==
  ASSUME IInv, IInv', Order, EraseAhead_Ok \/ EraseAhead_Fail
  PROVE  FifoStep
<1>1. /\ pc = "erase_ahead" /\ pc' \in {"idle", "erase_new", "program"}
      /\ UNCHANGED <<wPage, wOff, mixed, resets>>
  BY DEF EraseAhead_Ok, EraseAhead_Fail, AfterAhead
<1>2. Trusted' <=> Trusted
  BY <1>1 DEF Trusted
<1>3. CASE ~Trusted
  BY <1>1, <1>2, <1>3, SameRecords DEF FifoStep
<1>4. CASE Trusted
  <2>1. FirstKept' = 0 /\ FirstKept \in {0, PPB}
    <3>1. ~Full'
      <4>1. wPage \in LogPages
        BY DEF IInv, TypeOK, LogPages
      <4>2. QED
        BY <4>1, AfterEraseAhead
    <3>2. QED
      BY <3>1, NothingInFront, InFront
  <2>2. /\ dist \in Nat /\ PPB \in Nat /\ PPB >= 1 /\ dist' = dist - PPB
        /\ \A p \in LogPages : Behind(p) \in Nat /\ Behind(p)' \in Nat
    <3>1. \A p \in LogPages : Behind(p) \in Nat /\ Behind(p)' \in Nat
      BY Place, AfterEraseAhead
    <3>2. dist \in Nat /\ PPB \in Nat /\ PPB >= 1
      BY Sizes DEF IInv, Positions
    <3>3. wPage \in LogPages
      BY DEF IInv, TypeOK, LogPages
    <3>4. QED
      BY <3>1, <3>2, <3>3, AfterEraseAhead
  <2>3. ASSUME NEW p \in LogPages, Behind(p) >= PPB
        PROVE  /\ Behind(p)' = Behind(p) - PPB
               /\ \A s \in Slots : Passed(p, s)' <=> Passed(p, s)
    <3>1. Behind(p)' = Behind(p) - PPB
      BY <2>3, AfterEraseAhead
    <3>2. (Behind(p)' < dist' <=> Behind(p) < dist) /\ (Behind(p)' = dist' <=> Behind(p) = dist)
      BY <2>2, <3>1
    <3>3. QED
      BY <1>1, <3>1, <3>2 DEF Passed
  <2>4. ASSUME NEW p \in LogPages, NEW s \in Slots, Kept(p, s)'
        PROVE  Behind(p) >= PPB
    <3>1. Behind(p)' <= dist'
      BY <2>2, <2>4 DEF Kept, Passed
    <3>2. QED
      BY <2>2, <3>1, AfterEraseAhead
  <2>5. ASSUME NEW p \in LogPages, NEW s \in Slots, Kept(p, s)'
        PROVE  Kept(p, s) /\ nand'[p][s] = nand[p][s]
    <3>1. Behind(p) >= PPB /\ Passed(p, s)
      BY <2>3, <2>4, <2>5 DEF Kept
    <3>2. Readable(p, s) /\ nand'[p][s] = nand[p][s]
      BY <2>5, <3>1, SlotsAfterEraseAhead DEF Kept
    <3>3. Behind(p) >= FirstKept
      BY <2>1, <2>2, <3>1
    <3>4. QED
      BY <3>1, <3>2, <3>3 DEF Kept
  <2>6. ASSUME NEW p \in LogPages, NEW s \in Slots, NEW q \in LogPages, NEW t \in Slots,
               Kept(p, s), ~Kept(p, s)', Kept(q, t)'
        PROVE  Behind(p) < Behind(q)
    <3>1. Behind(q) >= PPB
      BY <2>4, <2>6
    <3>2. CASE Behind(p) < PPB
      BY <2>2, <3>1, <3>2
    <3>3. CASE Behind(p) >= PPB
      <4>1. ~Readable(p, s)' /\ Readable(p, s) /\ Readable(q, t)'
        <5>1. Passed(p, s)' /\ Behind(p)' >= FirstKept'
          BY <2>1, <2>2, <2>3, <2>6, <3>3 DEF Kept
        <5>2. QED
          BY <2>6, <5>1 DEF Kept
      <4>2. Block(p) = Ahead
        BY <3>3, <4>1, SlotsAfterEraseAhead
      <4>3. ~(nand' = nand /\ skipped' = skipped \ {Block(rPage)})
        BY <4>1 DEF Readable, Block
      <4>4. Block(q) # Ahead
        BY <4>1, <4>3, SlotsAfterEraseAhead
      <4>5. rPage + PPB < MaxPage /\ Behind(p) < 2 * PPB
        BY <4>2, OldBlocks
      <4>6. ~(Behind(q) < 2 * PPB)
        BY <3>1, <4>4, <4>5, OldBlocks
      <4>7. QED
        BY <2>2, <4>5, <4>6
    <3>4. QED
      BY <2>2, <3>2, <3>3
  <2>7. Fifo!LosesOldest
    BY <1>2, <1>4, <2>5, <2>6, FrontGoes DEF Order
  <2>8. QED
    BY <1>1, <2>7 DEF FifoStep, Fifo!Next, Fifo!GiveUp
<1>5. QED
  BY <1>3, <1>4

\* The block under the write position cleared, or passed over: nothing of the log is in it.
LEMMA EraseNewFifo ==
  ASSUME IInv, IInv', Storage, Order, EraseNew_Ok \/ EraseNew_Fail
  PROVE  FifoStep
<1>1. /\ pc = "erase_new" /\ pc' \in {"idle", "program"}
      /\ nand' \in {nand, Fill(Block(wPage), Erased), Fill(Block(wPage), Garbage)}
      /\ UNCHANGED <<rPage, wOff, mixed, resets>>
      /\ \/ dist' = dist /\ wPage' = wPage /\ skipped' = skipped \ {Block(wPage)}
            /\ nand' = Fill(Block(wPage), Erased)
         \/ dist' = dist + PPB /\ skipped' = skipped \cup {Block(wPage)}
  BY DEF EraseNew_Ok, EraseNew_Fail, positions
<1>2. ~Full /\ wPage % PPB = 0 /\ wOff = 0 /\ (Trusted' <=> Trusted)
  BY <1>1 DEF IInv, Called, Writing, Storage, Midway, NewBlock, Trusted
<1>3. Block(wPage) \in Nat
  BY <1>2, StartOfBlock DEF IInv, TypeOK, LogPages
<1>4. ASSUME NEW p \in LogPages, NEW s \in Slots
      PROVE  /\ Behind(p)' = Behind(p)
             /\ (Passed(p, s) /\ Readable(p, s))' <=> Passed(p, s) /\ Readable(p, s)
             /\ Passed(p, s) /\ Readable(p, s) => nand'[p][s] = nand[p][s]
  <2>1. /\ Behind(p)' = Behind(p) /\ Behind(p) \in Nat /\ dist \in Nat /\ PPB \in Nat /\ PPB >= 1
        /\ p \in Pages /\ s \in Nat
    BY <1>1, Place, SlotTyped, Sizes DEF Behind, MaxPage, IInv, Positions
  <2>2. Passed(p, s) <=> Behind(p) < dist
    BY <1>1, <1>2, <2>1 DEF Passed
  <2>3. Passed(p, s)' <=> Behind(p) < dist'
    BY <1>1, <1>2, <2>1 DEF Passed
  <2>4. Block(p) = Block(wPage) <=> Behind(p) >= dist /\ Behind(p) < dist + PPB
    BY <1>2, NextToWrite
  <2>5. CASE Block(p) # Block(wPage)
    <3>1. nand'[p] = nand[p] /\ (Block(p) \in skipped' <=> Block(p) \in skipped)
      BY <1>1, <1>3, <2>1, <2>5, FillElsewhere
    <3>2. Readable(p, s)' <=> Readable(p, s)
      BY <3>1 DEF Readable, Block
    <3>3. Behind(p) < dist' <=> Behind(p) < dist
      BY <1>1, <2>1, <2>4, <2>5
    <3>4. QED
      BY <2>1, <2>2, <2>3, <3>1, <3>2, <3>3
  <2>6. CASE Block(p) = Block(wPage)
    <3>1. ~Passed(p, s)
      BY <2>1, <2>2, <2>4, <2>6
    <3>2. ~Passed(p, s)' \/ ~Readable(p, s)'
      <4>1. CASE dist' = dist
        BY <2>1, <2>3, <2>4, <2>6, <4>1
      <4>2. CASE Block(p) \in skipped'
        BY <4>2 DEF Readable, Block
      <4>3. QED
        BY <1>1, <2>6, <4>1, <4>2
    <3>3. QED
      BY <2>1, <3>1, <3>2
  <2>7. QED
    BY <2>5, <2>6
<1>5. Fifo!Next \/ Records' = Records
  BY <1>1, <1>2, <1>4, FilledUp DEF Order
<1>6. QED
  BY <1>1, <1>5 DEF FifoStep

\* The end of a page, in two steps: the page counts as written all the time.
LEMMA WrapFifo ==
  ASSUME IInv, IInv', Storage, Order, WrapOffset \/ WrapPage
  PROVE  FifoStep
<1>1. /\ pc \in {"wrap_off", "wrap_page"} /\ pc' \in {"wrap_page", "idle"}
      /\ UNCHANGED <<nand, rPage, skipped, mixed, resets>>
  BY DEF WrapOffset, WrapPage, history, bounds
<1>2. ~Full /\ (Trusted' <=> Trusted)
  BY <1>1 DEF IInv, Called, Writing, Trusted
<1>3. ASSUME NEW p \in LogPages, NEW s \in Slots
      PROVE  /\ Behind(p)' = Behind(p)
             /\ (Passed(p, s) /\ Readable(p, s))' <=> Passed(p, s) /\ Readable(p, s)
  <2>1. /\ Behind(p)' = Behind(p) /\ Behind(p) \in Nat /\ dist \in Nat
        /\ s \in Nat /\ s < RPP
        /\ Readable(p, s)' <=> Readable(p, s)
    BY <1>1, Place, SlotTyped, Sizes DEF Behind, MaxPage, IInv, Positions, Readable, Block
  <2>2. CASE WrapOffset
    <3>1. pc = "wrap_off" /\ wOff = RPP /\ pc' = "wrap_page" /\ dist' = dist
      BY <2>2 DEF WrapOffset, Storage, Midway
    <3>2. QED
      BY <2>1, <3>1 DEF Passed
  <2>3. CASE WrapPage
    <3>1. pc = "wrap_page" /\ wOff' = 0 /\ pc' = "idle" /\ dist' = dist + 1
      BY <2>3 DEF WrapPage, Storage, Midway
    <3>2. Passed(p, s)' <=> Behind(p) < dist + 1
      BY <2>1, <3>1 DEF Passed
    <3>3. Passed(p, s) <=> Behind(p) < dist \/ Behind(p) = dist
      BY <3>1 DEF Passed
    <3>4. QED
      BY <2>1, <3>2, <3>3
  <2>4. QED
    BY <2>2, <2>3
<1>4. Fifo!Next \/ Records' = Records
  BY <1>1, <1>2, <1>3, FilledUp DEF Order
<1>5. QED
  BY <1>1, <1>4 DEF FifoStep

\* The record of the call is added; or an old one of the page that a reset came to, which
\* has newer ones only in that page before it.
LEMMA ProgramFifo ==
  ASSUME IInv, IInv', Storage, Order, Program
  PROVE  FifoStep
<1>1. /\ pc = "program" /\ pc' \in {"wrap_off", "idle"}
      /\ wOff' = (IF wOff = RPP THEN wOff ELSE wOff + 1)
      /\ UNCHANGED <<rPage, wPage, dist, cur, skipped, hit, mixed, resets>>
      /\ nand' \in {Programmed} \cup Torn
  BY DEF Program, history
<1>2. ~Full /\ ~Full' /\ (Trusted' <=> Trusted) /\ ~EraseDue
  BY <1>1 DEF IInv, Called, Writing, Full, Trusted, EraseDue
<1>3. FirstKept = 0 /\ FirstKept' = 0
  BY <1>2, NothingInFront
<1>4. /\ wPage \in LogPages /\ wPage \in Pages /\ wOff \in 0..RPP /\ RPP \in Nat
      /\ Behind(wPage) = dist /\ dist \in Nat /\ cur \in Nat
  BY Place, PagesOfLog, Sizes DEF IInv, TypeOK, Positions, LogPages
<1>5. ASSUME NEW p \in LogPages, NEW s \in Slots
      PROVE  /\ Kept(p, s) <=> (Behind(p) < dist \/ (p = wPage /\ s < wOff)) /\ Readable(p, s)
             /\ Kept(p, s)' <=> (Behind(p) < dist \/ (p = wPage /\ s < wOff')) /\ Readable(p, s)'
  <2>1. Behind(p)' = Behind(p) /\ Behind(p) >= 0 /\ (Behind(p) = dist <=> p = wPage)
    BY <1>1, <1>4, Place, SamePlace DEF Behind, MaxPage
  <2>2. QED
    BY <1>1, <1>3, <2>1 DEF Kept, Passed
<1>6. ASSUME NEW p \in LogPages, NEW s \in Slots, ~(p = wPage /\ s = wOff)
      PROVE  (Kept(p, s)' <=> Kept(p, s)) /\ nand'[p][s] = nand[p][s]
  <2>1. p \in Pages /\ s \in Nat /\ s < RPP
    BY SlotTyped DEF IInv
  <2>2. nand'[p][s] = nand[p][s]
    BY <1>1, <1>6, <2>1, ProgramsOneSlot
  <2>3. Readable(p, s)' <=> Readable(p, s)
    BY <1>1, <2>2 DEF Readable, Block
  <2>4. p = wPage => (s < wOff' <=> s < wOff)
    BY <1>1, <1>4, <1>6, <2>1
  <2>5. QED
    BY <1>5, <2>2, <2>3, <2>4
<1>7. CASE ~(Trusted /\ wOff \in Slots /\ nand'[wPage][wOff] > 0)
  <2>1. ASSUME Trusted, NEW p \in LogPages, NEW s \in Slots
        PROVE  (Kept(p, s)' <=> Kept(p, s)) /\ (Kept(p, s) => nand'[p][s] = nand[p][s])
    <3>1. CASE p = wPage /\ s = wOff
      <4>1. ~Kept(p, s)
        BY <1>4, <1>5, <3>1
      <4>2. ~Kept(p, s)'
        BY <1>5, <1>7, <2>1, <3>1 DEF Readable
      <4>3. QED
        BY <4>1, <4>2
    <3>2. QED
      BY <1>6, <3>1
  <2>2. Records' = Records
    BY <1>2, <2>1, SameRecords
  <2>3. QED
    BY <1>1, <2>2 DEF FifoStep
<1>8. CASE Trusted /\ wOff \in Slots /\ nand'[wPage][wOff] > 0
  <2> DEFINE v == nand'[wPage][wOff]
  <2>1. /\ \A p \in Pages, s \in Slots :
             Unwritten(p, s) => nand[p][s] = Erased \/ (p = wPage /\ p \in hit)
        /\ Block(wPage) \notin skipped
    BY <1>2, <1>8 DEF Storage, Clean
  <2>2. v \in 1..MaxRecords
    <3>1. nand' \in [Pages -> [Slots -> {Erased, Garbage} \cup 1..MaxRecords]]
      BY FlashTyped, <1>1 DEF IInv
    <3>2. v \in {Erased, Garbage} \cup 1..MaxRecords
      BY <1>4, <1>8, <3>1
    <3>3. QED
      BY <1>8, <3>2 DEF Erased, Garbage
  <2>3. ASSUME NEW p \in LogPages, NEW s \in Slots, p = wPage, s = wOff
        PROVE  ~Kept(p, s) /\ Kept(p, s)' /\ nand'[p][s] = v
    <3>1. wOff' = wOff + 1 /\ wOff \in Nat
      BY <1>1, <1>4, <1>8, Sizes DEF Slots
    <3>2. Readable(p, s)'
      BY <1>1, <1>8, <2>1, <2>3 DEF Readable, Block
    <3>3. ~Kept(p, s)
      BY <1>4, <1>5, <2>3, <3>1
    <3>4. Kept(p, s)'
      BY <1>5, <2>3, <3>1, <3>2
    <3>5. QED
      BY <2>3, <3>3, <3>4
  <2>4. Records' = Records \cup {v}
    <3>1. \A r : r \in Records' <=> r \in Records \/ r = v
      BY <1>2, <1>4, <1>6, <1>8, <2>3, Members, MembersNext
    <3>2. QED
      BY <3>1
  <2>5. Fifo!Newer(v) = {} \/ (resets > 0 /\ Cardinality(Fifo!Newer(v)) < RPP)
    <3> DEFINE N == Fifo!Newer(v)
    <3>1. N = {q \in Records : v < q}
      BY DEF Fifo!Newer
    <3>2. ASSUME NEW q \in N
          PROVE  v # cur /\ \E s \in 0..(wOff - 1) : q = nand[wPage][s]
      <4>1. q \in Records /\ v < q
        BY <3>1, <3>2
      <4>2. PICK p \in LogPages, s \in Slots : Kept(p, s) /\ q = nand[p][s]
        BY <4>1, Members
      <4>3. q \in Int /\ s \in Nat /\ p \in Pages
        BY <4>2, SlotTyped DEF IInv
      <4>4. v # cur
        <5>1. q < cur
          BY <1>1, <4>2, <4>3 DEF Order, Older
        <5>2. QED
          BY <1>4, <4>1, <4>3, <5>1
      <4>5. v = nand[wPage][wOff]
        <5>1. v \in {nand[wPage][wOff], Garbage}
          BY <1>1, <1>8, <4>4, ProgramValue
        <5>2. QED
          BY <1>8, <5>1 DEF Garbage
      <4>6. ~(Behind(p) < dist)
        <5>1. ASSUME Behind(p) < dist PROVE FALSE
          <6>1. Present(p, s)
            BY <4>2, KeptIsPresent
          <6>2. Present(wPage, wOff)
            BY <1>2, <1>8, <2>1, <4>5 DEF Present, Reached, Readable
          <6>3. q < v
            BY <1>4, <1>8, <4>2, <4>5, <5>1, <6>1, <6>2 DEF Order, Ordered, Precedes
          <6>4. QED
            BY <2>2, <4>1, <4>3, <6>3
        <5>2. QED
          BY <5>1
      <4>7. p = wPage /\ s < wOff
        BY <1>5, <4>2, <4>6
      <4>8. s \in 0..(wOff - 1)
        BY <1>4, <4>3, <4>7
      <4>9. QED
        BY <4>2, <4>4, <4>7, <4>8
    <3> HIDE DEF N
    <3>3. CASE N = {}
      BY <3>3 DEF N
    <3>4. CASE N # {}
      <4>1. v # cur
        BY <3>2, <3>4
      <4>2. v = nand[wPage][wOff]
        <5>1. v \in {nand[wPage][wOff], Garbage}
          BY <1>1, <1>8, <4>1, ProgramValue
        <5>2. QED
          BY <1>8, <5>1 DEF Garbage
      <4>3. resets > 0
        <5>1. Unwritten(wPage, wOff)
          BY <1>1, <1>4 DEF Unwritten
        <5>2. wPage \in hit
          BY <1>4, <1>8, <2>1, <4>2, <5>1 DEF Erased
        <5>3. QED
          BY <5>2 DEF Order, Marks
      <4>4. N \subseteq {nand[wPage][s] : s \in 0..(wOff - 1)}
        BY <3>2
      <4>5. IsFiniteSet(N) /\ Cardinality(N) <= wOff
        <5>1. wOff \in Nat
          BY <1>4
        <5>2. QED
          BY <4>4, <5>1, FewValues
      <4>6. Cardinality(N) \in Nat /\ wOff < RPP
        BY <1>4, <1>8, <4>5, FS_CardinalityType, Sizes DEF Slots
      <4>7. QED
        BY <1>4, <4>3, <4>5, <4>6 DEF N
    <3>5. QED
      BY <3>3, <3>4
  <2> HIDE DEF v
  <2>6. Fifo!Store
    BY <1>1, <2>2, <2>4, <2>5, SameCount DEF Fifo!Store
  <2>7. QED
    BY <2>6 DEF FifoStep, Fifo!Next
<1>9. QED
  BY <1>7, <1>8

\* A recovery of the index gives up all records.
LEMMA RecoverFifo ==
  ASSUME IInv, Storage, RecoverRead \/ RecoverWrite \/ RecoverOffset
  PROVE  FifoStep
<1>1. resets' = resets
  BY DEF RecoverRead, RecoverWrite, RecoverOffset, bounds
<1>2. Records' = {}
  <2>1. CASE RecoverRead \/ RecoverWrite
    BY <2>1, MembersNext DEF RecoverRead, RecoverWrite, Trusted
  <2>2. CASE RecoverOffset
    <3>1. rPage' = rPage /\ dist' = 0 /\ wOff' = 0 /\ pc' = "idle"
      BY <2>2 DEF RecoverOffset, Storage, Midway
    <3>2. ASSUME NEW p \in LogPages, NEW s \in Slots PROVE ~Passed(p, s)'
      <4>1. Behind(p)' \in Nat
        BY <3>1, Place DEF Behind, MaxPage
      <4>2. s \in Nat
        BY SlotTyped DEF IInv
      <4>3. QED
        BY <3>1, <4>1, <4>2 DEF Passed
    <3>3. QED
      BY <3>2, MembersNext DEF Kept
  <2>3. QED
    BY <2>1, <2>2
<1>3. Fifo!LosesOldest
  BY <1>2 DEF Fifo!LosesOldest, Fifo!Before
<1>4. QED
  BY <1>1, <1>3 DEF FifoStep, Fifo!Next, Fifo!GiveUp

\* A reset takes records from one end of the log at most.
LEMMA ResetFifo ==
  ASSUME IInv, IInv', Storage, Order, Reset
  PROVE  FifoStep
<1>1. /\ nand' \in CutShort /\ pc' = "idle" /\ resets' = resets + 1
      /\ mixed' = (mixed \/ pc \in {"recover_w", "recover_off"})
      /\ UNCHANGED <<rPage, wPage, wOff, dist, cur, skipped>>
  BY DEF Reset, positions
<1>2. SUFFICES Fifo!LosesOldest \/ Fifo!LosesNewest
  BY <1>1 DEF FifoStep, Fifo!Next, Fifo!Reset
<1>3. CASE ~Trusted
  <2>1. Records' = {}
    BY <1>1, <1>3, MembersNext DEF Trusted
  <2>2. QED
    BY <2>1 DEF Fifo!LosesOldest, Fifo!Before
<1>4. CASE Trusted
  <2>1. Trusted'
    BY <1>1, <1>4 DEF Trusted
  <2>2. ASSUME NEW p \in LogPages, NEW s \in Slots
        PROVE  /\ Behind(p)' = Behind(p) /\ Behind(p) \in Nat /\ dist \in Nat
               /\ p \in Pages /\ s \in Nat /\ s < RPP
               /\ Passed(p, s)' <=> Behind(p) < dist \/ (Behind(p) = dist /\ s < wOff)
    BY <1>1, Place, SlotTyped DEF Behind, MaxPage, IInv, Positions, Passed
  <2>3. CASE pc = "erase_ahead"
    <3>1. PICK x \in {Erased, Garbage} : nand' = nand \/ nand' = Fill(Ahead, x)
      BY <1>1, <2>3 DEF CutShort
    <3>2. ~(x > 0) /\ Ahead \in Nat
      BY <2>3, AheadElsewhere DEF Erased, Garbage
    <3>3. ASSUME NEW p \in LogPages, NEW s \in Slots
          PROVE  /\ Block(p) # Ahead => nand'[p] = nand[p]
                 /\ Readable(p, s)' => Readable(p, s) /\ nand'[p][s] = nand[p][s]
                 /\ Passed(p, s)' <=> Passed(p, s)
      <4>1. Block(p) # Ahead => nand'[p] = nand[p]
        BY <2>2, <3>1, <3>2, <3>3, FillElsewhere
      <4>2. nand'[p][s] = nand[p][s] \/ nand'[p][s] = x
        BY <2>2, <3>1 DEF Fill
      <4>3. QED
        BY <1>1, <2>2, <2>3, <3>2, <4>1, <4>2 DEF Readable, Passed, Block
    <3>4. /\ FirstKept \in {0, PPB} /\ PPB \in Nat /\ PPB >= 1
          /\ FirstKept = PPB <=> \A p \in LogPages, s \in Slots :
                                   Behind(p) >= PPB /\ Behind(p) < 2 * PPB => ~Readable(p, s)
      <4>1. Full
        BY <2>3 DEF IInv, Called
      <4>2. QED
        BY <4>1, InFront, WhenFull, Sizes
    <3>5. /\ FirstKept' \in {0, PPB}
          /\ FirstKept' = PPB <=> \A p \in LogPages, s \in Slots :
                                    Behind(p) >= PPB /\ Behind(p) < 2 * PPB => ~Readable(p, s)'
      <4>1. Full'
        BY <1>1, <2>3 DEF IInv, Called, Full, MaxPage
      <4>2. QED
        BY <2>2, <4>1, WhenFullNext
    <3>6. FirstKept <= FirstKept'
      BY <3>3, <3>4, <3>5
    <3>7. ASSUME NEW p \in LogPages, NEW s \in Slots, Kept(p, s)'
          PROVE  Kept(p, s) /\ nand'[p][s] = nand[p][s]
      BY <2>2, <3>3, <3>4, <3>5, <3>6, <3>7 DEF Kept
    <3>8. ASSUME NEW p \in LogPages, NEW s \in Slots, NEW q \in LogPages, NEW t \in Slots,
                 Kept(p, s), ~Kept(p, s)', Kept(q, t)'
          PROVE  Behind(p) < Behind(q)
      <4>1. Behind(q) >= FirstKept' /\ Behind(q) \in Nat /\ Behind(p) \in Nat
        BY <2>2, <3>8 DEF Kept
      <4>2. CASE ~Readable(p, s)'
        <5>1. Block(p) = Ahead
          BY <1>1, <3>3, <3>8, <4>2 DEF Kept, Readable, Block
        <5>2. rPage + PPB < MaxPage /\ Behind(p) >= PPB /\ Behind(p) < 2 * PPB
          BY <5>1, OldBlocks
        <5>3. nand' = Fill(Ahead, x)
          BY <1>1, <3>1, <3>8, <4>2 DEF Kept, Readable, Block
        <5>4. ASSUME NEW y \in LogPages, NEW z \in Slots, Behind(y) >= PPB, Behind(y) < 2 * PPB
              PROVE  ~Readable(y, z)'
          <6>1. Block(y) = Ahead
            BY <5>2, <5>4, OldBlocks
          <6>2. nand'[y][z] = x
            BY <2>2, <3>2, <5>3, <6>1, BlockPages DEF Fill
          <6>3. QED
            BY <3>2, <6>2 DEF Readable
        <5>5. FirstKept' = PPB
          BY <3>5, <5>4
        <5>6. ~(Behind(q) >= PPB /\ Behind(q) < 2 * PPB)
          BY <3>8, <5>4 DEF Kept
        <5>7. QED
          BY <3>4, <4>1, <5>2, <5>5, <5>6
      <4>3. CASE Readable(p, s)'
        <5>1. ~(Behind(p) >= FirstKept')
          BY <2>2, <3>3, <3>8, <4>3 DEF Kept
        <5>2. QED
          BY <3>4, <3>5, <4>1, <5>1
      <4>4. QED
        BY <4>2, <4>3
    <3>9. QED
      BY <1>4, <2>1, <3>7, <3>8, FrontGoes DEF Order
  <2>4. CASE pc # "erase_ahead" /\ pc # "wrap_page"
    <3>1. ASSUME NEW p \in LogPages, NEW s \in Slots, Passed(p, s)
          PROVE  nand'[p][s] = nand[p][s]
      <4>1. Behind(p) < dist \/ (Behind(p) = dist /\ s < wOff)
        BY <2>4, <3>1 DEF Passed
      <4>2. CASE pc = "program"
        <5>1. ~(p = wPage /\ s = wOff)
          BY <2>2, <4>1, Place DEF IInv, TypeOK
        <5>2. QED
          BY <1>1, <2>2, <4>2, <5>1, ProgramsOneSlot DEF CutShort
      <4>3. CASE pc = "erase_new"
        <5>1. ~Full /\ wPage % PPB = 0 /\ wOff = 0
          BY <4>3 DEF IInv, Called, Writing, Storage, Midway, NewBlock
        <5>2. Block(p) # Block(wPage) /\ Block(wPage) \in Nat
          BY <2>2, <4>1, <5>1, NextToWrite, StartOfBlock DEF IInv, TypeOK, LogPages
        <5>3. QED
          BY <1>1, <2>2, <4>3, <5>2, FillElsewhere DEF CutShort
      <4>4. CASE pc \notin {"program", "erase_new"}
        BY <1>1, <2>4, <4>4 DEF CutShort
      <4>5. QED
        BY <4>2, <4>3, <4>4
    <3>2. ASSUME NEW p \in LogPages, NEW s \in Slots
          PROVE  /\ Passed(p, s)' <=> Passed(p, s)
                 /\ Passed(p, s) => (Readable(p, s)' <=> Readable(p, s))
      BY <1>1, <2>2, <2>4, <3>1 DEF Passed, Readable, Block
    <3>3. FirstKept' = FirstKept
      <4>1. CASE Full
        <5>1. pc \notin {"program", "erase_new"}
          BY <4>1 DEF IInv, Called, Writing
        <5>2. nand' = nand
          BY <1>1, <2>4, <5>1 DEF CutShort
        <5>3. QED
          BY <1>1, <5>2 DEF FirstKept, page_free, Readable, Behind, LogPages, Slots, MaxPage, Block
      <4>2. CASE ~Full
        BY <1>1, <4>2, NothingInFront DEF Full, MaxPage
      <4>3. QED
        BY <4>1, <4>2
    <3>4. Records' = Records
      <4>1. ASSUME NEW p \in LogPages, NEW s \in Slots
            PROVE  (Kept(p, s)' <=> Kept(p, s)) /\ (Kept(p, s) => nand'[p][s] = nand[p][s])
        BY <2>2, <3>1, <3>2, <3>3 DEF Kept
      <4>2. QED
        BY <1>4, <2>1, <4>1, SameRecords
    <3>5. QED
      BY <3>4 DEF Fifo!LosesOldest, Fifo!Before
  <2>5. CASE pc = "wrap_page"
    <3>1. nand' = nand /\ wOff = 0 /\ ~Full
      BY <1>1, <2>5 DEF CutShort, Storage, Midway, IInv, Called, Writing
    <3>2. FirstKept = 0 /\ FirstKept' = 0
      BY <1>1, <3>1, NothingInFront DEF Full, MaxPage
    <3>3. ASSUME NEW p \in LogPages, NEW s \in Slots
          PROVE  /\ Kept(p, s) <=> Readable(p, s) /\ (Behind(p) < dist \/ p = wPage)
                 /\ Kept(p, s)' <=> Readable(p, s) /\ Behind(p) < dist
      <4>1. Behind(p) = dist <=> p = wPage
        BY Place, SamePlace
      <4>2. Readable(p, s)' <=> Readable(p, s)
        BY <1>1, <3>1 DEF Readable, Block
      <4>3. QED
        BY <2>2, <2>5, <3>1, <3>2, <4>1, <4>2 DEF Kept, Passed
    <3>4. Records' \subseteq Records
      BY <1>4, <2>1, <3>1, <3>3, Members, MembersNext
    <3>5. ASSUME NEW r \in Records \ Records'
          PROVE  \E s \in Slots : Kept(wPage, s) /\ r = nand[wPage][s]
      <4>1. PICK p \in LogPages, s \in Slots : Kept(p, s) /\ r = nand[p][s]
        BY Members
      <4>2. ~Kept(p, s)'
        BY <2>1, <3>1, <3>5, <4>1, MembersNext
      <4>3. QED
        BY <3>3, <4>1, <4>2
    <3>6. ASSUME NEW q \in Records', NEW r \in Records \ Records'
          PROVE  q < r
      <4>1. PICK p \in LogPages, s \in Slots : Kept(p, s)' /\ q = nand[p][s]
        BY <3>1, MembersNext
      <4>2. PICK t \in Slots : Kept(wPage, t) /\ r = nand[wPage][t]
        BY <3>5
      <4>3. Kept(p, s) /\ Behind(p) < Behind(wPage) /\ wPage \in LogPages
        BY <3>3, <4>1, Place
      <4>4. Present(p, s) /\ Present(wPage, t)
        BY <4>2, <4>3, KeptIsPresent
      <4>5. QED
        BY <1>4, <4>1, <4>2, <4>3, <4>4 DEF Order, Ordered, Precedes
    <3>7. Cardinality(Records \ Records') <= RPP
      <4>1. Slots = 0..(RPP - 1)
        BY DEF Slots
      <4>2. Records \ Records' \subseteq {nand[wPage][s] : s \in 0..(RPP - 1)}
        BY <3>5, <4>1
      <4>3. QED
        BY <4>2, FewValues, Sizes
    <3>8. QED
      <4>1. Fifo!Before(Records', Records \ Records')
        BY <3>6 DEF Fifo!Before
      <4>2. QED
        BY <3>4, <3>7, <4>1, SameCount DEF Fifo!LosesNewest
  <2>6. QED
    BY <2>3, <2>4, <2>5
<1>5. QED
  BY <1>3, <1>4

(***************************************************************************)
(* The theorems.                                                           *)
(***************************************************************************)

\* The write position never reaches the read position from behind, whatever fails
\* and whenever the device is reset: equal positions mean an empty log.
THEOREM PositionsNeverLap == Spec => []NeverLaps
<1>1. IInv => NeverLaps
  BY FreePages DEF IInv, Positions, NeverLaps
<1>2. QED
  BY <1>1, Invariance, PTL

\* A full log takes records again: what llif_record_write refuses in a row is
\* one record, and two more for each operation of the flash that failed.
THEOREM RefusalsArePaidFor == Spec => []NotStuck
<1>1. IInv => NotStuck
  BY DEF IInv, Refusals, NotStuck
<1>2. QED
  BY <1>1, Invariance, PTL

\* A record whose write returned 0 is the last of the log, where a reader finds it,
\* unless it went to a page that a reset had left half written.
THEOREM ReportedRecordIsStored == Spec => []ReportedIsStored
<1>1. IInv /\ Storage => ReportedIsStored
  <2>1. SUFFICES ASSUME IInv, Storage, pc = "idle", ret = "ok", ~mixed
                 PROVE  LastPage \in hit \/ (<<LastPage, LastSlot>> \in Found
                                             /\ nand[LastPage][LastSlot] = cur)
    <3>1. pc = "idle" /\ IInv =>
            LastPage = IF wOff = 0 THEN (wPage + MaxPage - 1) % MaxPage ELSE wPage
      BY PageBefore DEF LastPage, IInv, TypeOK
    <3>2. QED
      BY <3>1 DEF ReportedIsStored, LastSlot
  <2>2. /\ LastPage \in hit \/ (nand[LastPage][LastSlot] = cur /\ Block(LastPage) \notin skipped)
        /\ cur >= 1 /\ (wOff = 0 => dist >= 1)
    BY <2>1 DEF Storage, Stored
  <2>3. SUFFICES ASSUME nand[LastPage][LastSlot] = cur, Block(LastPage) \notin skipped
                 PROVE  <<LastPage, LastSlot>> \in Found
    BY <2>2
  <2>4. /\ rPage \in Nat /\ wPage \in Nat /\ dist \in Nat /\ rPage < MaxPage /\ wPage < MaxPage
        /\ dist < MaxPage /\ (rPage + dist = wPage \/ rPage + dist = wPage + MaxPage)
        /\ wOff \in 0..RPP /\ cur \in Nat
        /\ PPB \in Nat /\ PPB >= 1 /\ RPP \in Nat /\ RPP >= 1 /\ MaxPage \in Nat /\ MaxPage >= 3 * PPB
    BY <2>1, Sizes DEF IInv, Positions, TypeOK
  <2>5. LastPage \in LogPages /\ LastSlot \in Slots
    BY <2>1, <2>4 DEF LastPage, LastSlot, LogPages, Slots
  <2>6. Behind(LastPage) = IF wOff = 0 THEN dist - 1 ELSE dist
    <3>1. Behind(LastPage) = IF LastPage >= rPage THEN LastPage - rPage ELSE LastPage + MaxPage - rPage
      BY <2>1, <2>5, Place
    <3>2. QED
      BY <2>1, <2>2, <2>4, <3>1 DEF LastPage
  <2>7. Passed(LastPage, LastSlot)
    BY <2>2, <2>4, <2>6 DEF Passed, LastSlot
  <2>8. Behind(LastPage) >= FirstKept
    <3>1. FirstKept = 0 \/ (FirstKept = PPB /\ dist + PPB >= MaxPage)
      BY <2>1, InFront DEF Full
    <3>2. QED
      BY <2>2, <2>4, <2>6, <3>1
  <2>9. Readable(LastPage, LastSlot)
    BY <2>2, <2>3, <2>4 DEF Readable
  <2>10. QED
    BY <2>5, <2>7, <2>8, <2>9 DEF Found
<1>2. QED
  BY <1>1, StorageInvariance, PTL

\* A reader who goes through the log meets the records in the order in which they were
\* written, but for those of a page that a reset came to.
THEOREM LogIsInOrder == Spec => []InOrder
<1>1. IInv /\ Order => InOrder
  <2>1. SUFFICES ASSUME IInv, Order, Trusted, NEW x \in Found, NEW y \in Found,
                        Behind(x[1]) < Behind(y[1]) \/ (x[1] = y[1] /\ x[2] < y[2])
                 PROVE  nand[x[1]][x[2]] < nand[y[1]][y[2]] \/ (x[1] = y[1] /\ x[1] \in hit)
    BY DEF InOrder
  <2>2. /\ x[1] \in LogPages /\ x[2] \in Slots /\ y[1] \in LogPages /\ y[2] \in Slots
        /\ Kept(x[1], x[2]) /\ Kept(y[1], y[2])
    BY <2>1 DEF Found, Kept
  <2>3. Present(x[1], x[2]) /\ Present(y[1], y[2])
    BY <2>1, <2>2, KeptIsPresent
  <2>4. CASE Precedes(x[1], x[2], y[1], y[2])
    BY <2>1, <2>2, <2>3, <2>4 DEF Order, Ordered
  <2>5. CASE ~Precedes(x[1], x[2], y[1], y[2])
    BY <2>1, <2>5 DEF Precedes
  <2>6. QED
    BY <2>4, <2>5
<1>2. QED
  BY <1>1, OrderInvariance, PTL

\* The log is a queue: llif_record_write adds at its end, what it erases goes from the front,
\* and a reset costs no records but the oldest or those of the page being written.
THEOREM LogImplementsFifo == Spec => FifoSpec
<1>1. Init => Fifo!Init
  <2>1. SUFFICES ASSUME Init PROVE Records = {} /\ resets = 0
    BY DEF Fifo!Init
  <2>2. \A p \in LogPages, s \in Slots : ~Readable(p, s)
    <3>1. \A p \in LogPages, s \in Slots : nand[p][s] = Garbage
      BY <2>1, PagesOfLog DEF Init, LogPages
    <3>2. QED
      BY <3>1 DEF Readable, Garbage
  <2>3. QED
    BY <2>1, <2>2, Members DEF Init, Kept
<1>2. IInv /\ IInv' /\ Storage /\ Order /\ [Next]_vars => [Fifo!Next]_<<Records, resets>>
  <2>1. SUFFICES ASSUME IInv, IInv', Storage, Order, [Next]_vars PROVE FifoStep
    BY DEF FifoStep
  <2>2. CASE Next
    BY <2>1, <2>2, BeginFifo, EraseAheadFifo, EraseNewFifo, ProgramFifo, WrapFifo, RecoverFifo,
       ResetFifo DEF Next, WriteSteps
  <2>3. CASE UNCHANGED vars
    BY <2>3 DEF vars, positions, history, bounds, FifoStep, Records, Trusted, Found, FirstKept, Passed,
                Readable, Behind, page_free, LogPages, Slots, MaxPage, Block
  <2>4. QED
    BY <2>1, <2>2, <2>3
<1>3. QED
  BY <1>1, <1>2, OrderInvariance, PTL DEF Spec, FifoSpec, Fifo!Spec

=============================================================================
