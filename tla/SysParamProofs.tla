--------------------------- MODULE SysParamProofs ---------------------------
(***************************************************************************)
(* Theorems of SysParam, for every set of settings and every number of     *)
(* failing flash operations: what the two sectors hold while the program   *)
(* runs and while it writes them, and that they implement ParamStore.      *)
(***************************************************************************)
EXTENDS SysParam, TLAPS

(***************************************************************************)
(* The invariant.                                                          *)
(***************************************************************************)

\* What is queued while the program writes, and how far the retries have come.
Progress ==
  /\ pc \in Writing <=> queue # << >>
  /\ pc \in Writing => img.crc
  /\ saving /\ queue # << >> => queue # <<"conf">>
  /\ queue = <<"conf", "bak">> => saving
  /\ pc = "program" => flash[Sector] = Blank
  /\ pc = "erase" => faults = 0
  /\ pc \in {"erase_retry", "erase_again"} => faults >= 1
  /\ pc = "program_again" => faults >= 1 /\ (flash[Sector] = Blank \/ faults >= 2)
  /\ faults <= limit

\* While the program writes its last sector the other one holds the image
\* already, unless writing that one failed for good.
FirstWritten ==
  pc \in Writing /\ queue # <<"conf", "bak">> /\ (~saving \/ written)
    => flash[Other(Sector)] = img

\* On a device whose writes do not fail for good, both sectors are the same
\* whenever a save begins, and the backup keeps the old record until the primary
\* has the new one; only at the very first start there is none.
OldRecordKept ==
  Mends =>
    /\ written
    /\ pc = "save" \/ (pc \in Writing /\ Sector = "conf") =>
         (flash["conf"].crc => flash["bak"] = flash["conf"])
    /\ (pc = "save" \/ queue = <<"conf", "bak">>) /\ recovered = 0 => flash["bak"].crc

IInv == TypeOK /\ Progress /\ FirstWritten /\ PairedUnlessWriteFailed /\ OldRecordKept

(***************************************************************************)
(* Lemmas.                                                                 *)
(***************************************************************************)

\* The two sectors of a device, by name.
LEMMA OtherSector == Other("conf") = "bak" /\ Other("bak") = "conf"
BY DEF Other, Sectors

\* The sectors a write call takes, one after the other.
LEMMA WriteOrder ==
  /\ Head(<<"conf">>) = "conf" /\ Tail(<<"conf">>) = << >>
  /\ Head(<<"bak">>) = "bak" /\ Tail(<<"bak">>) = << >>
  /\ Head(<<"conf", "bak">>) = "conf" /\ Tail(<<"conf", "bak">>) = <<"bak">>
  /\ <<"conf">> # << >> /\ <<"bak">> # << >> /\ <<"conf", "bak">> # << >>
  /\ <<"conf">> # <<"bak">> /\ <<"conf">> # <<"conf", "bak">> /\ <<"bak">> # <<"conf", "bak">>
  /\ {<< >>, <<"conf">>, <<"bak">>, <<"conf", "bak">>} \subseteq Queues
BY DEF Queues

\* What an interrupted or failed flash operation leaves has no right CRC.
LEMMA Images ==
  /\ Blank \in Image /\ Junk \in Image /\ ~Blank.crc /\ ~Junk.crc
  /\ \A d \in Data : Sealed(d) \in Image /\ Sealed(d).crc
  /\ \A i \in Image : \A p \in Partial(i) : p \in Image /\ ~p.crc
  /\ Recovery_Default \in Image /\ ~Recovery_Default.crc
<1>1. Blank \in Image /\ ~Blank.crc
  BY DEF Blank, Unsealed, Image, Data
<1>2. Junk \in Image /\ ~Junk.crc
  BY DEF Junk, Unsealed, Image, Data
<1>3. \A d \in Data : Sealed(d) \in Image /\ Sealed(d).crc
  BY DEF Sealed, Image
<1>4. ASSUME NEW i \in Image, NEW p \in Partial(i)
      PROVE  p \in Image /\ ~p.crc
  <2>1. [i EXCEPT !.crc = FALSE] \in Image /\ ~[i EXCEPT !.crc = FALSE].crc
    BY DEF Image
  <2>2. QED
    BY <1>1, <1>2, <2>1 DEF Partial
<1>5. Recovery_Default \in Image /\ ~Recovery_Default.crc
  BY DEF Recovery_Default, Image, Data
<1>6. QED
  BY <1>1, <1>2, <1>3, <1>4, <1>5

(***************************************************************************)
(* The induction.                                                          *)
(***************************************************************************)

\* A device starts with whole or empty sectors and nothing queued.
LEMMA InitIInv == Init => IInv
<1> SUFFICES ASSUME Init PROVE IInv
  OBVIOUS
<1>1. flash \in [Sectors -> Image]
  <2>1. ASSUME NEW c \in Settings PROVE Sealed([cfg |-> c, wdt_test |-> FALSE]) \in Image
    BY Images DEF Data
  <2>2. QED
    BY <2>1, Images DEF Init
<1>2. TypeOK
  <2>1. conf \in Image /\ shadow \in Image /\ img \in Image
    BY Images DEF Init
  <2>2. /\ pc \in Writing \cup {"boot", "run", "save"} /\ queue \in Queues
        /\ saving \in BOOLEAN /\ written \in BOOLEAN
    BY WriteOrder DEF Init
  <2>3. faults \in 0..(MaxFaults + 1) /\ recovered \in {-1, 0} /\ limit \in 0..MaxFaults
    BY SysParamAssumption DEF Init
  <2>4. QED
    BY <1>1, <2>1, <2>2, <2>3 DEF TypeOK
<1>3. Progress
  BY WriteOrder, SysParamAssumption DEF Init, Progress, Writing
<1>4. FirstWritten /\ PairedUnlessWriteFailed
  BY DEF Init, FirstWritten, PairedUnlessWriteFailed, Writing
<1>5. OldRecordKept
  BY WriteOrder DEF Init, OldRecordKept, Writing
<1>6. QED
  BY <1>2, <1>3, <1>4, <1>5 DEF IInv

\* The four outcomes of the recovery at start-up.
LEMMA BootIInv ==
  ASSUME IInv, Boot
  PROVE  IInv'
<1> USE OtherSector, WriteOrder, Images DEF IInv, TypeOK, Writing
<1>1. flash["conf"] \in Image /\ flash["bak"] \in Image
  BY DEF Sectors
<1>2. CASE RecoverPaired
  BY <1>1, <1>2 DEF RecoverPaired, Progress, FirstWritten, PairedUnlessWriteFailed, Paired, OldRecordKept, Mends
<1>3. CASE RecoverBackup
  <2>1. /\ pc' = "erase" /\ queue' = <<"bak">> /\ faults' = 0 /\ written' = TRUE /\ saving' = FALSE
        /\ UNCHANGED <<flash, limit>> /\ recovered' = 0
        /\ conf' = flash["conf"] /\ shadow' = flash["bak"]
        /\ img' = conf'
    BY <1>3 DEF RecoverBackup, StartWrite
  <2>2. img'.crc
    BY <1>3, <2>1 DEF RecoverBackup
  <2>3. TypeOK'
    <3>1. /\ flash' \in [Sectors -> Image] /\ limit' \in 0..MaxFaults
          /\ conf' \in Image /\ shadow' \in Image /\ img' \in Image
      BY <1>1, <2>1
    <3>2. /\ pc' \in Writing \cup {"boot", "run", "save"} /\ queue' \in Queues
          /\ saving' \in BOOLEAN /\ written' \in BOOLEAN
      BY <2>1
    <3>3. faults' \in 0..(MaxFaults + 1) /\ recovered' \in {-1, 0}
      BY <2>1, SysParamAssumption
    <3>4. QED
      BY <3>1, <3>2, <3>3
  <2>4. Progress'
    BY <2>1, <2>2 DEF Progress
  <2>5. FirstWritten' /\ PairedUnlessWriteFailed'
    BY <2>1 DEF FirstWritten, PairedUnlessWriteFailed, Sector
  <2>6. OldRecordKept'
    BY <1>3, <2>1 DEF OldRecordKept, Mends, Sector, RecoverBackup
  <2>7. QED
    BY <2>3, <2>4, <2>5, <2>6
<1>4. CASE RecoverPrimary
  <2>1. /\ pc' = "erase" /\ queue' = <<"conf">> /\ faults' = 0 /\ written' = TRUE /\ saving' = FALSE
        /\ UNCHANGED <<flash, limit>> /\ recovered' = 0
        /\ conf' = flash["conf"] /\ shadow' = flash["bak"]
        /\ img' = shadow'
    BY <1>4 DEF RecoverPrimary, StartWrite
  <2>2. img'.crc
    BY <1>4, <2>1 DEF RecoverPrimary
  <2>3. TypeOK'
    <3>1. /\ flash' \in [Sectors -> Image] /\ limit' \in 0..MaxFaults
          /\ conf' \in Image /\ shadow' \in Image /\ img' \in Image
      BY <1>1, <2>1
    <3>2. /\ pc' \in Writing \cup {"boot", "run", "save"} /\ queue' \in Queues
          /\ saving' \in BOOLEAN /\ written' \in BOOLEAN
      BY <2>1
    <3>3. faults' \in 0..(MaxFaults + 1) /\ recovered' \in {-1, 0}
      BY <2>1, SysParamAssumption
    <3>4. QED
      BY <3>1, <3>2, <3>3
  <2>4. Progress'
    BY <2>1, <2>2 DEF Progress
  <2>5. FirstWritten' /\ PairedUnlessWriteFailed'
    BY <2>1 DEF FirstWritten, PairedUnlessWriteFailed, Sector
  <2>6. OldRecordKept'
    BY <1>4, <2>1 DEF OldRecordKept, Mends, Sector, RecoverPrimary
  <2>7. QED
    BY <2>3, <2>4, <2>5, <2>6
<1>5. CASE RecoverNone
  BY <1>1, <1>5, SysParamAssumption DEF RecoverNone, Progress, FirstWritten, PairedUnlessWriteFailed, OldRecordKept, Mends, Sector
<1>6. QED
  BY <1>2, <1>3, <1>4, <1>5 DEF Boot

\* A change of the shadow copy, and the save that follows.
LEMMA SaveIInv ==
  ASSUME IInv, Modify \/ Api_Sys_Param_Save
  PROVE  IInv'
<1> USE OtherSector, WriteOrder, Images DEF IInv, Writing
<1>1. ASSUME Modify PROVE IInv'
  <2>1. /\ pc = "run" /\ pc' = "save" /\ shadow' \in Image
        /\ UNCHANGED <<flash, conf, queue, img, saving, faults, limit, recovered, written>>
    <3>1. shadow \in Image
      BY DEF TypeOK
    <3>2. [shadow EXCEPT !.data.wdt_test = TRUE, !.crc = FALSE] \in Image
      BY <3>1 DEF Image, Data
    <3>3. \A c \in Settings : [shadow EXCEPT !.data.cfg = c, !.crc = FALSE] \in Image
      BY <3>1 DEF Image, Data
    <3>4. QED
      BY <1>1, <3>2, <3>3 DEF Modify, Sys_DisFeedWdtTest, ChangeSetting
  <2>2. TypeOK'
    BY <2>1 DEF TypeOK
  <2>3. Progress' /\ FirstWritten' /\ PairedUnlessWriteFailed'
    BY <2>1 DEF Progress, FirstWritten, PairedUnlessWriteFailed
  <2>4. OldRecordKept'
    BY <2>1 DEF OldRecordKept, Mends, PairedUnlessWriteFailed, Paired
  <2>5. QED
    BY <2>2, <2>3, <2>4
<1>2. ASSUME Api_Sys_Param_Save PROVE IInv'
  <2>1. /\ pc = "save" /\ pc' = "erase" /\ queue' = <<"conf", "bak">>
        /\ faults' = 0 /\ written' = TRUE /\ saving' = TRUE
        /\ shadow' = Sealed(shadow.data) /\ conf' = shadow' /\ img' = shadow'
        /\ UNCHANGED <<flash, limit, recovered>>
    BY <1>2 DEF Api_Sys_Param_Save, StartWrite
  <2>2. shadow' \in Image /\ img'.crc
    <3>1. shadow.data \in Data
      BY DEF TypeOK, Image
    <3>2. QED
      BY <2>1, <3>1
  <2>3. TypeOK'
    <3>1. /\ flash' \in [Sectors -> Image] /\ limit' \in 0..MaxFaults
          /\ conf' \in Image /\ shadow' \in Image /\ img' \in Image
          /\ recovered' \in {-1, 0}
      BY <2>1, <2>2 DEF TypeOK
    <3>2. /\ pc' \in Writing \cup {"boot", "run", "save"} /\ queue' \in Queues
          /\ saving' \in BOOLEAN /\ written' \in BOOLEAN
      BY <2>1
    <3>3. faults' \in 0..(MaxFaults + 1)
      BY <2>1, SysParamAssumption
    <3>4. QED
      BY <3>1, <3>2, <3>3 DEF TypeOK
  <2>4. Progress'
    BY <2>1, <2>2 DEF Progress, TypeOK
  <2>5. FirstWritten' /\ PairedUnlessWriteFailed'
    BY <2>1 DEF FirstWritten, PairedUnlessWriteFailed
  <2>6. OldRecordKept'
    BY <2>1 DEF OldRecordKept, Mends
  <2>7. QED
    BY <2>3, <2>4, <2>5, <2>6
<1>3. QED
  BY <1>1, <1>2

\* Where a write call is.
LEMMA Queued ==
  ASSUME IInv, pc \in Writing
  PROVE  /\ queue \in {<<"conf">>, <<"bak">>, <<"conf", "bak">>}
         /\ Sector \in Sectors /\ Other(Sector) \in Sectors /\ Other(Sector) # Sector
         /\ Sector = "conf" \/ Sector = "bak"
         /\ img \in Image /\ flash[Sector] \in Image
<1>1. queue \in {<<"conf">>, <<"bak">>, <<"conf", "bak">>}
  BY DEF IInv, TypeOK, Progress, Queues
<1>2. QED
  BY <1>1, OtherSector, WriteOrder DEF IInv, TypeOK, Sector, Sectors

\* A step in the middle of a write call: its sector is given up, or left as it was.
LEMMA SectorGivenUp ==
  ASSUME IInv, pc \in Writing, pc' \in Writing,
         NEW i \in Image, ~i.crc \/ i = flash[Sector],
         flash' = [flash EXCEPT ![Sector] = i], faults' \in 0..limit,
         UNCHANGED <<conf, shadow, queue, img, saving, limit, recovered, written>>
  PROVE  TypeOK' /\ FirstWritten' /\ PairedUnlessWriteFailed' /\ OldRecordKept'
<1> USE OtherSector, WriteOrder, Queued
<1>1. flash \in [Sectors -> Image] /\ limit \in 0..MaxFaults
  BY DEF IInv, TypeOK
<1>2. /\ flash' \in [Sectors -> Image] /\ flash'[Sector] = i
      /\ flash'[Other(Sector)] = flash[Other(Sector)] /\ Sector' = Sector
  BY <1>1 DEF Sector
<1>3. TypeOK'
  <2>1. faults' \in 0..(MaxFaults + 1)
    BY <1>1, SysParamAssumption
  <2>2. QED
    BY <1>2, <2>1 DEF IInv, TypeOK
<1>4. FirstWritten'
  BY <1>2 DEF IInv, FirstWritten
<1>5. PairedUnlessWriteFailed'
  BY DEF PairedUnlessWriteFailed, Writing
<1>6. OldRecordKept'
  BY <1>2 DEF IInv, OldRecordKept, Mends, Sector, Writing
<1>7. QED
  BY <1>3, <1>4, <1>5, <1>6

\* The end of the write of a sector, programmed or, where writes can fail for
\* good, not.
LEMMA SectorEnded ==
  ASSUME IInv, pc \in Writing, NEW ok \in BOOLEAN, EndWrite(ok), InWrite,
         NEW i \in Image, ok => i = img, Mends => ok,
         flash' = [flash EXCEPT ![Sector] = i]
  PROVE  IInv'
<1> USE OtherSector, WriteOrder, Queued
<1>1. /\ flash \in [Sectors -> Image] /\ limit \in 0..MaxFaults
      /\ written \in BOOLEAN /\ saving \in BOOLEAN
  BY DEF IInv, TypeOK
<1>2. /\ flash' \in [Sectors -> Image] /\ flash'[Sector] = i
      /\ flash'[Other(Sector)] = flash[Other(Sector)]
  BY <1>1
<1>3. /\ UNCHANGED <<conf, shadow, img, saving, limit, recovered>>
      /\ faults' = 0 /\ queue' = Tail(queue) /\ written' = (written /\ ok)
      /\ pc' = IF Tail(queue) = << >> THEN "run" ELSE "erase"
  BY DEF EndWrite, InWrite
<1>4. CASE queue = <<"conf", "bak">>
  <2>1. pc' = "erase" /\ queue' = <<"bak">> /\ saving /\ Sector = "conf" /\ Sector' = "bak"
    BY <1>3, <1>4 DEF IInv, Progress, Sector
  <2>2. TypeOK'
    <3>1. faults' \in 0..(MaxFaults + 1) /\ limit' \in 0..MaxFaults
      BY <1>1, <1>3, SysParamAssumption
    <3>2. /\ pc' \in Writing \cup {"boot", "run", "save"} /\ queue' \in Queues
          /\ written' \in BOOLEAN
      BY <1>1, <1>3, <2>1 DEF Writing
    <3>3. QED
      BY <1>2, <1>3, <3>1, <3>2 DEF IInv, TypeOK
  <2>3. Progress'
    <3>1. img'.crc /\ saving' /\ faults' = 0 /\ limit' = limit
      BY <1>3, <2>1 DEF IInv, Progress
    <3>2. QED
      BY <1>1, <2>1, <3>1 DEF Progress, Writing
  <2>4. FirstWritten' /\ PairedUnlessWriteFailed'
    BY <1>2, <1>3, <2>1 DEF FirstWritten, PairedUnlessWriteFailed
  <2>5. OldRecordKept'
    BY <1>3, <2>1 DEF IInv, OldRecordKept, Mends
  <2>6. QED
    BY <2>2, <2>3, <2>4, <2>5 DEF IInv
<1>5. CASE queue # <<"conf", "bak">>
  <2>1. /\ pc' = "run" /\ queue' = << >>
        /\ queue = <<"conf">> => ~saving
        /\ queue \in {<<"conf">>, <<"bak">>}
    BY <1>3, <1>5 DEF IInv, Progress
  <2>2. TypeOK'
    <3>1. faults' \in 0..(MaxFaults + 1) /\ limit' \in 0..MaxFaults
      BY <1>1, <1>3, SysParamAssumption
    <3>2. /\ pc' \in Writing \cup {"boot", "run", "save"} /\ queue' \in Queues
          /\ written' \in BOOLEAN
      BY <1>1, <1>3, <2>1
    <3>3. QED
      BY <1>2, <1>3, <3>1, <3>2 DEF IInv, TypeOK
  <2>3. Progress'
    BY <1>1, <1>3, <2>1 DEF Progress, Writing
  <2>4. FirstWritten' /\ OldRecordKept'
    BY <1>3, <2>1 DEF IInv, FirstWritten, OldRecordKept, Mends, Writing
  <2>5. PairedUnlessWriteFailed'
    <3>1. SUFFICES ASSUME written, ok PROVE Paired'
      BY <1>1, <1>3 DEF PairedUnlessWriteFailed
    <3>2. flash[Other(Sector)] = img
      BY <1>5, <3>1 DEF IInv, FirstWritten
    <3>3. flash'["conf"] = img /\ flash'["bak"] = img /\ img.crc
      BY <1>2, <3>1, <3>2 DEF IInv, Progress
    <3>4. QED
      BY <3>3 DEF Paired
  <2>6. QED
    BY <2>2, <2>3, <2>4, <2>5 DEF IInv
<1>6. QED
  BY <1>4, <1>5

\* The operations of the flash driver.
LEMMA FlashStepIInv ==
  ASSUME IInv, FlashStep
  PROVE  IInv'
<1> USE OtherSector, WriteOrder, Images
<1>1. pc \in Writing
  BY DEF FlashStep, EraseOk, EraseFails, ProgramOk, ProgramFails, Writing
<1>2. /\ flash \in [Sectors -> Image] /\ limit \in 0..MaxFaults
      /\ faults \in Nat /\ faults <= limit /\ limit \in Nat
  BY SysParamAssumption DEF IInv, TypeOK, Progress
<1>3. \A i \in Image : [flash EXCEPT ![Sector] = i][Sector] = i
  BY <1>1, <1>2, Queued
<1> USE <1>1, <1>2, <1>3, Queued
<1>4. CASE EraseOk
  <2>1. TypeOK' /\ FirstWritten' /\ PairedUnlessWriteFailed' /\ OldRecordKept'
    <3>1. pc' \in Writing /\ faults' \in 0..limit
      BY <1>4 DEF EraseOk, Writing
    <3>2. QED
      BY <1>4, <3>1, SectorGivenUp DEF EraseOk, InWrite
  <2>2. Progress'
    <3>1. /\ flash'[Sector'] = Blank /\ faults' = faults
          /\ UNCHANGED <<queue, img, saving, limit>>
          /\ pc' = IF pc = "erase_again" THEN "program_again" ELSE "program"
      BY <1>4 DEF EraseOk, InWrite, Sector
    <3>2. QED
      BY <1>4, <3>1 DEF IInv, Progress, EraseOk, Writing
  <2>3. QED
    BY <2>1, <2>2 DEF IInv
<1>5. CASE EraseFails
  <2>1. PICK i \in {flash[Sector], Junk} : flash' = [flash EXCEPT ![Sector] = i]
    BY <1>5 DEF EraseFails
  <2>2. CASE pc = "erase" \/ pc = "erase_again"
    <3>1. /\ pc' = IF pc = "erase" THEN "erase_retry" ELSE "program_again"
          /\ faults' = faults + 1 /\ faults < limit
          /\ UNCHANGED <<conf, shadow, queue, img, saving, limit, recovered, written>>
      BY <1>5, <2>2 DEF EraseFails, InWrite
    <3>2. TypeOK' /\ FirstWritten' /\ PairedUnlessWriteFailed' /\ OldRecordKept'
      <4>1. pc' \in Writing /\ faults' \in 0..limit
        BY <3>1 DEF Writing
      <4>2. QED
        BY <2>1, <3>1, <4>1, SectorGivenUp
    <3>3. Progress'
      BY <2>2, <3>1 DEF IInv, Progress, Writing
    <3>4. QED
      BY <3>2, <3>3 DEF IInv
  <2>3. CASE pc = "erase_retry"
    <3>1. EndWrite(FALSE) /\ InWrite /\ faults < limit
      BY <1>5, <2>3 DEF EraseFails
    <3>2. ~Mends
      BY <2>3, <3>1 DEF IInv, Progress, Mends
    <3>3. QED
      BY <2>1, <3>1, <3>2, SectorEnded
  <2>4. QED
    BY <1>5, <2>2, <2>3 DEF EraseFails
<1>6. CASE ProgramOk
  BY <1>6, SectorEnded DEF ProgramOk
<1>7. CASE ProgramFails
  <2>1. PICK i \in Partial(img) : flash' = [flash EXCEPT ![Sector] = i]
    BY <1>7 DEF ProgramFails
  <2>2. CASE pc = "program"
    <3>1. /\ pc' = "erase_again" /\ faults' = faults + 1 /\ faults < limit
          /\ UNCHANGED <<conf, shadow, queue, img, saving, limit, recovered, written>>
      BY <1>7, <2>2 DEF ProgramFails, InWrite, IInv, Progress
    <3>2. TypeOK' /\ FirstWritten' /\ PairedUnlessWriteFailed' /\ OldRecordKept'
      <4>1. pc' \in Writing /\ faults' \in 0..limit
        BY <3>1 DEF Writing
      <4>2. QED
        BY <2>1, <3>1, <4>1, SectorGivenUp
    <3>3. Progress'
      BY <2>2, <3>1 DEF IInv, Progress, Writing
    <3>4. QED
      BY <3>2, <3>3 DEF IInv
  <2>3. CASE pc = "program_again"
    <3>1. EndWrite(FALSE) /\ InWrite /\ (faults < limit \/ flash[Sector] # Blank)
      BY <1>7, <2>3 DEF ProgramFails
    <3>2. ~Mends
      BY <2>3, <3>1 DEF IInv, Progress, Mends
    <3>3. QED
      BY <2>1, <3>1, <3>2, SectorEnded
  <2>4. QED
    BY <1>7, <2>2, <2>3 DEF ProgramFails
<1>8. QED
  BY <1>4, <1>5, <1>6, <1>7 DEF FlashStep

\* A reset: only the sector being written is touched.
LEMMA ResetIInv ==
  ASSUME IInv, Reset
  PROVE  IInv'
<1> USE WriteOrder, Images
<1>1. flash' \in [Sectors -> Image]
  <2>1. flash \in [Sectors -> Image]
    BY DEF IInv, TypeOK
  <2>2. CASE pc \in Writing
    <3>1. PICK i \in {flash[Sector], Blank, Junk} \cup Partial(img) :
            flash' = [flash EXCEPT ![Sector] = i]
      BY <2>2 DEF Reset
    <3>2. i \in Image
      BY <2>2, Queued
    <3>3. QED
      BY <2>1, <3>1, <3>2
  <2>3. QED
    BY <2>1, <2>2 DEF Reset
<1>2. /\ pc' = "boot" /\ queue' = << >> /\ img' = Blank /\ saving' = FALSE /\ faults' = 0
      /\ conf' = Blank /\ shadow' = Blank /\ recovered' = 0 /\ written' = TRUE
      /\ limit' = limit
  BY DEF Reset
<1>3. limit \in 0..MaxFaults /\ faults <= limit /\ limit \in Nat
  BY SysParamAssumption DEF IInv, TypeOK, Progress
<1>4. TypeOK'
  <2>1. /\ pc' \in Writing \cup {"boot", "run", "save"} /\ queue' \in Queues
        /\ saving' \in BOOLEAN /\ written' \in BOOLEAN
    BY <1>2
  <2>2. faults' \in 0..(MaxFaults + 1) /\ recovered' \in {-1, 0} /\ limit' \in 0..MaxFaults
    BY <1>2, <1>3, SysParamAssumption
  <2>3. QED
    BY <1>1, <1>2, <2>1, <2>2 DEF TypeOK
<1>5. Progress'
  BY <1>2, <1>3 DEF Progress, Writing
<1>6. FirstWritten' /\ PairedUnlessWriteFailed' /\ OldRecordKept'
  BY <1>2 DEF FirstWritten, PairedUnlessWriteFailed, OldRecordKept, Writing
<1>7. QED
  BY <1>4, <1>5, <1>6 DEF IInv

\* Every step keeps the invariant.
LEMMA NextIInv == IInv /\ [Next]_vars => IInv'
<1> SUFFICES ASSUME IInv, [Next]_vars PROVE IInv'
  OBVIOUS
<1>1. CASE Boot
  BY <1>1, BootIInv
<1>2. CASE Modify \/ Api_Sys_Param_Save
  BY <1>2, SaveIInv
<1>3. CASE FlashStep
  BY <1>3, FlashStepIInv
<1>4. CASE Reset
  BY <1>4, ResetIInv
<1>5. CASE UNCHANGED vars
  BY <1>5 DEF vars, IInv, TypeOK, Progress, FirstWritten, PairedUnlessWriteFailed, Paired,
                 OldRecordKept, Mends, Sector
<1>6. QED
  BY <1>1, <1>2, <1>3, <1>4, <1>5 DEF Next

\* The invariant holds in every reachable state.
LEMMA Invariance == Spec => []IInv
<1>1. IInv /\ [Next]_vars => IInv'
  BY NextIInv
<1>2. QED
  BY <1>1, InitIInv, PTL DEF Spec

(***************************************************************************)
(* The theorems.                                                           *)
(***************************************************************************)

\* The variables of SysParam keep their types; in particular the operations that
\* fail in a write call are counted to the end of it.
THEOREM TypeCorrect == Spec => []TypeOK
<1>1. IInv => TypeOK
  BY DEF IInv
<1>2. QED
  BY <1>1, Invariance, PTL

\* Whenever the program runs after a write call that did not fail, the primary
\* sector is good and the backup the same, whatever failed and was retried and
\* however often the device was reset before.
THEOREM SectorsPaired == Spec => []PairedUnlessWriteFailed
<1>1. IInv => PairedUnlessWriteFailed
  BY DEF IInv
<1>2. QED
  BY <1>1, Invariance, PTL

\* While llif_inter_flash_write works on one sector the other one holds a good
\* record, on a device that had one and whose retries are enough.
THEOREM OneCopyHolds == Spec => []OtherCopyHolds
<1>1. IInv => OtherCopyHolds
  <2>1. SUFFICES ASSUME IInv, Mends, pc \in Writing,
                        ~saving \/ recovered = 0 \/ Sector = "bak"
                 PROVE  flash[Other(Sector)].crc
    BY DEF OtherCopyHolds
  <2>2. CASE queue = <<"conf", "bak">>
    <3>1. saving /\ Sector = "conf"
      BY <2>1, <2>2, WriteOrder DEF IInv, Progress, Sector
    <3>2. QED
      BY <2>1, <2>2, <3>1, OtherSector DEF IInv, OldRecordKept
  <2>3. CASE queue # <<"conf", "bak">>
    BY <2>1, <2>3 DEF IInv, FirstWritten, OldRecordKept, Progress
  <2>4. QED
    BY <2>2, <2>3
<1>2. QED
  BY <1>1, Invariance, PTL

\* NoData is not a record.
LEMMA NoDataIsNone ==
  /\ NoData \notin Data
  /\ \A i \in Image : i.data \in Data
BY SysParamAssumption DEF NoData, Data, Image

\* Nothing is pending while the program starts, runs, or repairs a sector.
LEMMA PendingOutside == pc \notin Writing \/ ~saving => Pending = NoData
BY DEF Pending

\* A sector that is given up, or left as it was, costs the device no record.
LEMMA StoredStays ==
  ASSUME IInv, IInv', Mends, pc \in Writing, NEW i \in Image,
         flash' = [flash EXCEPT ![Sector] = i],
         ~i.crc \/ i = flash[Sector]
  PROVE  Stored' = Stored
<1> USE Queued, OtherSector, WriteOrder
<1>1. flash \in [Sectors -> Image]
  BY DEF IInv, TypeOK
<1>2. flash'[Sector] = i /\ flash'[Other(Sector)] = flash[Other(Sector)]
  BY <1>1
<1>3. CASE Sector = "conf"
  <2>1. flash["conf"].crc => flash["bak"] = flash["conf"]
    BY <1>3 DEF IInv, OldRecordKept
  <2>2. QED
    BY <1>2, <1>3, <2>1 DEF Stored
<1>4. CASE Sector = "bak"
  <2>1. flash["conf"] = img /\ img.crc
    BY <1>4 DEF IInv, FirstWritten, OldRecordKept, Progress, Sector
  <2>2. QED
    BY <1>2, <1>4, <2>1 DEF Stored
<1>5. QED
  BY <1>3, <1>4

\* The primary sector is programmed: the record of a save becomes the device's.
LEMMA ProgramOkRefines ==
  ASSUME IInv, IInv', Mends, ProgramOk
  PROVE  \/ Pending # NoData /\ Stored' = Pending /\ Pending' = NoData
         \/ UNCHANGED <<Stored, Pending>>
<1> USE OtherSector, WriteOrder
<1>1. pc \in Writing
  BY DEF ProgramOk, Writing
<1>2. flash \in [Sectors -> Image] /\ img.crc /\ img.data # NoData
  BY <1>1, Queued, NoDataIsNone DEF IInv, TypeOK, Progress
<1>3. /\ flash'[Sector] = img /\ flash'[Other(Sector)] = flash[Other(Sector)]
      /\ queue' = Tail(queue) /\ img' = img /\ saving' = saving
  BY <1>1, <1>2, Queued DEF ProgramOk, EndWrite, InWrite
<1>4. CASE queue = <<"conf", "bak">>
  <2>1. Sector = "conf" /\ Sector' = "bak" /\ saving
    BY <1>3, <1>4 DEF Sector, IInv, Progress
  <2>2. Pending = img.data /\ Pending' = NoData
    BY <1>1, <2>1 DEF Pending
  <2>3. Stored' = img.data
    BY <1>2, <1>3, <2>1 DEF Stored
  <2>4. QED
    BY <1>2, <2>2, <2>3
<1>5. CASE queue # <<"conf", "bak">>
  <2>1. pc' = "run" /\ (Sector = "conf" => ~saving)
    BY <1>1, <1>5, Queued DEF ProgramOk, EndWrite, IInv, Progress, Sector
  <2>2. Pending = NoData /\ Pending' = NoData
    BY <2>1 DEF Pending, Writing
  <2>3. flash[Other(Sector)] = img
    BY <1>1, <1>5 DEF IInv, FirstWritten, OldRecordKept
  <2>4. Stored = img.data /\ Stored' = img.data
    <3>1. CASE Sector = "conf"
      <4>1. flash["conf"].crc => flash["bak"] = flash["conf"]
        BY <1>1, <3>1 DEF IInv, OldRecordKept
      <4>2. QED
        BY <1>2, <1>3, <2>3, <3>1, <4>1 DEF Stored
    <3>2. CASE Sector = "bak"
      BY <1>2, <1>3, <2>3, <3>2 DEF Stored
    <3>3. QED
      BY <1>1, <3>1, <3>2, Queued
  <2>5. QED
    BY <2>2, <2>4
<1>6. QED
  BY <1>4, <1>5

\* Every step of a device whose writes do not fail for good is one of ParamStore.
LEMMA StepRefines ==
  ASSUME IInv, IInv', Mends, Mends', [Next]_vars
  PROVE  \/ \E d \in Data : Pending = NoData /\ Pending' = d /\ Stored' = Stored
         \/ Pending # NoData /\ Stored' = Pending /\ Pending' = NoData
         \/ Pending # NoData /\ Pending' = NoData /\ Stored' = Stored
         \/ UNCHANGED <<Stored, Pending>>
<1>1. CASE Boot \/ Modify
  <2>1. pc \notin Writing /\ Stored' = Stored
    BY <1>1 DEF Boot, RecoverPaired, RecoverBackup, RecoverPrimary, RecoverNone, Modify,
                Sys_DisFeedWdtTest, ChangeSetting, Stored, Writing
  <2>2. pc' \notin Writing \/ saving' = FALSE
    BY <1>1 DEF Boot, RecoverPaired, RecoverBackup, RecoverPrimary, RecoverNone, Modify,
                Sys_DisFeedWdtTest, ChangeSetting, StartWrite, Writing
  <2>3. Pending = NoData /\ Pending' = NoData
    BY <2>1, <2>2 DEF Pending
  <2>4. QED
    BY <2>1, <2>3
<1>2. CASE Api_Sys_Param_Save
  <2>1. /\ pc = "save" /\ pc' = "erase" /\ saving' = TRUE /\ queue' = <<"conf", "bak">>
        /\ flash' = flash
    BY <1>2 DEF Api_Sys_Param_Save, StartWrite
  <2>2. Pending = NoData /\ Stored' = Stored
    BY <2>1 DEF Pending, Stored, Writing
  <2>3. Pending' = img'.data /\ img'.data \in Data
    <3>1. Sector' = "conf"
      BY <2>1, WriteOrder DEF Sector
    <3>2. img'.data \in Data
      BY NoDataIsNone DEF IInv, TypeOK
    <3>3. QED
      BY <2>1, <3>1, <3>2 DEF Pending, Writing
  <2>4. QED
    BY <2>2, <2>3
<1>3. CASE EraseOk
  <2>1. pc \in Writing /\ pc' \in Writing
    BY <1>3 DEF EraseOk, Writing
  <2>2. Stored' = Stored
    BY <1>3, <2>1, Images, StoredStays DEF EraseOk
  <2>3. Pending' = Pending
    BY <1>3, <2>1 DEF EraseOk, InWrite, Pending, Sector
  <2>4. QED
    BY <2>2, <2>3
<1>4. CASE EraseFails \/ ProgramFails
  <2>1. pc \in Writing
    BY <1>4 DEF EraseFails, ProgramFails, Writing
  <2>2. PICK i \in {flash[Sector], Junk} \cup Partial(img) :
          flash' = [flash EXCEPT ![Sector] = i]
    BY <1>4 DEF EraseFails, ProgramFails
  <2>3. Stored' = Stored
    BY <2>1, <2>2, Images, Queued, StoredStays
  <2>4. pc' \in Writing /\ UNCHANGED <<queue, img, saving>>
    <3>0. faults \in Nat /\ limit \in Nat /\ faults <= limit /\ limit < 2
      BY SysParamAssumption DEF IInv, TypeOK, Progress, Mends
    <3>1. pc = "erase_retry" => ~EraseFails
      <4>1. EraseFails => faults < limit
        BY DEF EraseFails
      <4>2. pc = "erase_retry" => faults >= 1
        BY DEF IInv, Progress
      <4>3. QED
        BY <3>0, <4>1, <4>2
    <3>2. pc = "program_again" => ~ProgramFails
      <4>1. ProgramFails => faults < limit \/ flash[Sector] # Blank
        BY DEF ProgramFails
      <4>2. pc = "program_again" => faults >= 1 /\ (flash[Sector] = Blank \/ faults >= 2)
        BY DEF IInv, Progress
      <4>3. QED
        BY <3>0, <4>1, <4>2
    <3>3. QED
      BY <1>4, <3>1, <3>2 DEF EraseFails, ProgramFails, InWrite, Writing
  <2>5. Pending' = Pending
    BY <2>1, <2>4 DEF Pending, Sector
  <2>6. QED
    BY <2>3, <2>5
<1>5. CASE ProgramOk
  BY <1>5, ProgramOkRefines
<1>6. CASE Reset
  <2>1. Pending' = NoData
    BY <1>6 DEF Reset, Pending, Writing
  <2>2. CASE pc \in Writing
    <3>1. PICK i \in {flash[Sector], Blank, Junk} \cup Partial(img) :
            flash' = [flash EXCEPT ![Sector] = i]
      BY <1>6, <2>2 DEF Reset
    <3>2. Stored' = Stored
      BY <2>2, <3>1, Images, Queued, StoredStays
    <3>3. QED
      BY <2>1, <3>2
  <2>3. CASE pc \notin Writing
    BY <1>6, <2>1, <2>3 DEF Reset, Pending, Stored
  <2>4. QED
    BY <2>2, <2>3
<1>7. CASE UNCHANGED vars
  BY <1>7 DEF vars, Stored, Pending, Sector
<1>8. QED
  BY <1>1, <1>2, <1>3, <1>4, <1>5, <1>6, <1>7 DEF Next, FlashStep

\* The pair of sectors is one record that a save replaces as a whole: a reset at
\* any time finds the record as it was or as it was asked to become.
THEOREM SectorsImplementStore == Spec => StoreSpec
<1>1. Init => Store!Init
  <2>1. SUFFICES ASSUME Init PROVE Store!Init
    OBVIOUS
  <2>2. TypeOK /\ pc \notin Writing
    BY <2>1, InitIInv DEF IInv, Init, Writing
  <2>3. Stored \in Data \cup {NoData} /\ Pending = NoData
    <3>1. flash["conf"] \in Image /\ flash["bak"] \in Image
      BY <2>2 DEF TypeOK, Sectors
    <3>2. QED
      BY <2>2, <3>1, NoDataIsNone DEF Stored, Pending
  <2>4. QED
    BY <2>3 DEF Store!Init
<1>2. IInv /\ IInv' /\ [Next]_vars => [Store!Next]_Store!vars
  <2>1. SUFFICES ASSUME IInv, IInv', [Next]_vars PROVE [Store!Next]_Store!vars
    OBVIOUS
  <2>2. Mends' = Mends
    BY <2>1 DEF Mends, Next, Boot, RecoverPaired, RecoverBackup, RecoverPrimary, RecoverNone,
                Modify, Sys_DisFeedWdtTest, ChangeSetting, Api_Sys_Param_Save, FlashStep,
                EraseOk, EraseFails, ProgramOk, ProgramFails, InWrite, Reset, vars
  <2>3. CASE Mends
    BY <2>1, <2>2, <2>3, StepRefines
       DEF Store!Next, Store!vars, Store!Request, Store!Commit, Store!Abandon
  <2>4. CASE ~Mends
    BY <2>2, <2>4 DEF Store!vars, NoData
  <2>5. QED
    BY <2>3, <2>4
<1>3. QED
  BY <1>1, <1>2, Invariance, PTL DEF Spec, StoreSpec, Store!Spec

=============================================================================
