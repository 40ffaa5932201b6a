------------------------------ MODULE SysParam ------------------------------
(***************************************************************************)
(* System parameters: api/api_sys_param over driver/Flash_if and           *)
(* physical/Flash_if.  The parameter record is kept twice, in a primary    *)
(* and in a backup flash sector, each with its CRC, and twice in RAM:      *)
(* s_stSysConf, which the program reads, and s_stSysConfShadow, which it   *)
(* modifies and saves.  The device may be reset between any two flash      *)
(* operations, and during one; a flash operation may fail.                 *)
(***************************************************************************)
EXTENDS Integers, Sequences

CONSTANTS Settings,   \* parameter contents a device can be configured with
          MaxFaults   \* bound: failed flash operations in one write call; with two it
                      \* can fail for good

ASSUME SysParamAssumption ==
  /\ Settings # {} /\ Settings \cap {"erased", "junk", "default", "none"} = {}
  /\ MaxFaults \in Nat

VARIABLES
  flash,            \* the two sectors
  conf, shadow,     \* s_stSysConf, s_stSysConfShadow
  pc,               \* where the program is (below)
  queue,            \* sectors still to be written, the current one first
  img,              \* the image being written
  saving,           \* the last write was asked for by Api_Sys_Param_Save
  faults,           \* flash operations that failed in the current write
  limit,            \* how many of them may fail on this device
  recovered,        \* what Api_Sys_Param_Recovery returned: 0 or -1
  written           \* history: the last write succeeded in all its sectors

vars == <<flash, conf, shadow, pc, queue, img, saving, faults, limit,
          recovered, written>>

Sectors == {"conf", "bak"}   \* STORE_SYSTEMPARAM, STORE_SYSTEMBAKPARAM
Other(s) == CHOOSE o \in Sectors : o # s

\* What a record says, to the point the program tells records apart: the
\* settings and DeviceParam.wdt_test.  "erased" is flash that reads all ones,
\* "junk" any other content that no one configured.
Data == [cfg : Settings \cup {"erased", "junk", "default"}, wdt_test : BOOLEAN]

\* A stored copy: a record and whether its usCrc is the CRC of it.  CRCs are
\* taken to tell records apart.
Image == [data : Data, crc : BOOLEAN]

Sealed(d) == [data |-> d, crc |-> TRUE]

\* The CRC of an erased sector is not all ones (it is 0x33D7), nor does a
\* sector cut off while it was erased or programmed pass the test.
Unsealed(c) == [data |-> [cfg |-> c, wdt_test |-> FALSE], crc |-> FALSE]
Blank == Unsealed("erased")
Junk  == Unsealed("junk")

\* What programming image i can leave when it does not finish: the words not
\* reached still erased, at the best all but the last one.
Partial(i) == {Blank, Junk, [i EXCEPT !.crc = FALSE]}

Writing == {"erase", "erase_retry", "program", "erase_again", "program_again"}

Init ==
  /\ flash \in [Sectors -> {Blank, Junk} \cup {Sealed([cfg |-> c, wdt_test |-> FALSE]) : c \in Settings}]
  /\ conf = Blank /\ shadow = Blank    \* start-up reads both before any use
  /\ pc = "boot"
  /\ queue = << >> /\ img = Blank /\ saving = FALSE /\ faults = 0
  /\ recovered = 0 /\ written = TRUE
  /\ limit \in 0..MaxFaults

-----------------------------------------------------------------------------
(* Start-up: Api_Sys_Param_Recovery, called by Api_Sys_Param_Init.         *)

\* Begin to write image i to the sectors q.
StartWrite(q, i, save) ==
  /\ queue' = q /\ img' = i /\ saving' = save
  /\ faults' = 0 /\ written' = TRUE
  /\ pc' = "erase"

\* Both copies are good and the same: nothing is written.
RecoverPaired ==
  /\ pc = "boot"
  /\ flash["conf"].crc /\ flash["bak"] = flash["conf"]
  /\ conf' = flash["conf"] /\ shadow' = flash["bak"]
  /\ pc' = "run" /\ recovered' = 0
  /\ UNCHANGED <<flash, queue, img, saving, faults, limit, written>>

\* Mutant: when the good copies differ the primary is rewritten instead.
BackupWins ==
  /\ pc = "boot"
  /\ flash["conf"].crc /\ flash["bak"] # flash["conf"]
  /\ conf' = flash["conf"] /\ shadow' = flash["bak"]
  /\ IF shadow'.crc THEN StartWrite(<<"conf">>, shadow', FALSE)
                    ELSE StartWrite(<<"bak">>, conf', FALSE)
  /\ recovered' = 0
  /\ UNCHANGED <<flash, limit>>

\* The primary copy is good, the backup is bad or another one: the backup
\* is rewritten; the shadow keeps what was read from it.
RecoverBackup ==
  /\ pc = "boot"
  /\ flash["conf"].crc /\ flash["bak"] # flash["conf"]
  /\ conf' = flash["conf"] /\ shadow' = flash["bak"]
  /\ StartWrite(<<"bak">>, conf', FALSE)
  /\ recovered' = 0
  /\ UNCHANGED <<flash, limit>>

\* Mutant: the backup's CRC is not checked.
PrimaryUnchecked ==
  /\ pc = "boot"
  /\ ~flash["conf"].crc
  /\ conf' = flash["conf"] /\ shadow' = flash["bak"]
  /\ StartWrite(<<"conf">>, shadow', FALSE)
  /\ recovered' = 0
  /\ UNCHANGED <<flash, limit>>

\* The primary copy is bad, the backup good: the primary is rewritten;
\* s_stSysConf keeps what was read from it.
RecoverPrimary ==
  /\ pc = "boot"
  /\ ~flash["conf"].crc /\ flash["bak"].crc
  /\ conf' = flash["conf"] /\ shadow' = flash["bak"]
  /\ StartWrite(<<"conf">>, shadow', FALSE)
  /\ recovered' = 0
  /\ UNCHANGED <<flash, limit>>

\* Api_Sys_Param_Recovery_Default(SYSPARAM_RECOVERY_FIRST), on an image.
Recovery_Default == [data |-> [cfg |-> "default", wdt_test |-> FALSE], crc |-> FALSE]

\* Both are bad: Api_Sys_Param_Init takes the defaults and saves.
RecoverNone ==
  /\ pc = "boot"
  /\ ~flash["conf"].crc /\ ~flash["bak"].crc
  /\ conf' = Recovery_Default /\ shadow' = flash["bak"]
  /\ pc' = "save" /\ recovered' = -1
  /\ UNCHANGED <<flash, queue, img, saving, faults, limit, written>>

-----------------------------------------------------------------------------
(* Modification and Api_Sys_Param_Save.                                    *)

\* The shadow is modified through shadow_param_get and saved:
\* Sys_DisFeedWdtTest does so with wdt_test.
Sys_DisFeedWdtTest ==
  /\ pc = "run"
  /\ shadow' = [shadow EXCEPT !.data.wdt_test = TRUE, !.crc = FALSE]
  /\ pc' = "save"
  /\ UNCHANGED <<flash, conf, queue, img, saving, faults, limit, recovered, written>>

\* The same, with a setting: the use the header states for the shadow copy.
ChangeSetting(c) ==
  /\ pc = "run"
  /\ shadow' = [shadow EXCEPT !.data.cfg = c, !.crc = FALSE]
  /\ pc' = "save"
  /\ UNCHANGED <<flash, conf, queue, img, saving, faults, limit, recovered, written>>

\* The shadow gets its CRC and becomes s_stSysConf, which is written to the
\* primary and then to the backup sector.
Api_Sys_Param_Save ==
  /\ pc = "save"
  /\ shadow' = Sealed(shadow.data) /\ conf' = shadow'
  /\ StartWrite(<<"conf", "bak">>, conf', TRUE)
  /\ UNCHANGED <<flash, limit, recovered>>

-----------------------------------------------------------------------------
(* llif_inter_flash_write, with FLASH_ERASER_ENABLE and offset 0.          *)

Sector == Head(queue)

\* The write call is over; its result is ignored by every caller.
EndWrite(ok) ==
  /\ queue' = Tail(queue) /\ faults' = 0
  /\ pc' = IF Tail(queue) = << >> THEN "run" ELSE "erase"
  /\ written' = (written /\ ok)

InWrite == UNCHANGED <<conf, shadow, img, saving, limit, recovered>>

\* FLASH_If_Erase succeeds.
EraseOk ==
  /\ pc \in {"erase", "erase_retry", "erase_again"}
  /\ flash' = [flash EXCEPT ![Sector] = Blank]
  /\ pc' = IF pc = "erase_again" THEN "program_again" ELSE "program"
  /\ InWrite /\ UNCHANGED <<queue, faults, written>>

\* Mutant: the erase is tried until it succeeds.
EraseFailsForEver ==
  /\ pc \in {"erase", "erase_retry", "erase_again"}
  /\ \E i \in {flash[Sector], Junk} : flash' = [flash EXCEPT ![Sector] = i]
  /\ InWrite /\ pc' = IF pc = "erase" THEN "erase_retry" ELSE "erase"
  /\ UNCHANGED <<queue, faults, written>>

\* FLASH_If_Erase fails, the sector unchanged or ruined: the first time it
\* is tried again, the second time the write is given up.  The result of the
\* erase that follows a failed programming is not looked at.
EraseFails ==
  /\ pc \in {"erase", "erase_retry", "erase_again"}
  /\ faults < limit
  /\ \E i \in {flash[Sector], Junk} : flash' = [flash EXCEPT ![Sector] = i]
  /\ InWrite
  /\ \/ /\ pc = "erase" /\ pc' = "erase_retry"
        /\ faults' = faults + 1
        /\ UNCHANGED <<queue, written>>
     \/ /\ pc = "erase_retry"
        /\ EndWrite(FALSE)
     \/ /\ pc = "erase_again" /\ pc' = "program_again"
        /\ faults' = faults + 1
        /\ UNCHANGED <<queue, written>>

\* FLASH_If_Write programs the words and reads each one back.
ProgramOk ==
  /\ pc \in {"program", "program_again"}
  /\ flash[Sector] = Blank
  /\ flash' = [flash EXCEPT ![Sector] = img]
  /\ InWrite /\ EndWrite(TRUE)

\* Mutant: a failed programming is not tried again.
ProgramFailsOnce ==
  /\ pc \in {"program", "program_again"}
  /\ faults < limit \/ flash[Sector] # Blank
  /\ \E i \in Partial(img) : flash' = [flash EXCEPT ![Sector] = i]
  /\ InWrite /\ EndWrite(TRUE)

\* FLASH_If_Write fails: the sector is erased and programmed once more, and
\* the second time the write is given up.
ProgramFails ==
  /\ pc \in {"program", "program_again"}
  /\ faults < limit \/ flash[Sector] # Blank
  /\ \E i \in Partial(img) : flash' = [flash EXCEPT ![Sector] = i]
  /\ InWrite
  /\ \/ /\ pc = "program" /\ pc' = "erase_again"
        /\ faults' = faults + 1
        /\ UNCHANGED <<queue, written>>
     \/ /\ pc = "program_again"
        /\ EndWrite(FALSE)

FlashStep == EraseOk \/ EraseFails \/ ProgramOk \/ ProgramFails

-----------------------------------------------------------------------------
\* A reset: what a flash operation was doing to its sector is cut off.
Reset ==
  /\ \/ pc \notin Writing /\ UNCHANGED flash
     \/ /\ pc \in Writing
        /\ \E i \in {flash[Sector], Blank, Junk}
                     \cup (IF pc \in {"program", "program_again"} THEN Partial(img) ELSE {}) :
             flash' = [flash EXCEPT ![Sector] = i]
  /\ conf' = Blank /\ shadow' = Blank
  /\ pc' = "boot"
  /\ queue' = << >> /\ img' = Blank /\ saving' = FALSE /\ faults' = 0
  /\ recovered' = 0 /\ written' = TRUE
  /\ UNCHANGED limit

Boot == RecoverPaired \/ RecoverBackup \/ RecoverPrimary \/ RecoverNone

Modify == Sys_DisFeedWdtTest \/ \E c \in Settings : ChangeSetting(c)

Next == Boot \/ Modify \/ Api_Sys_Param_Save \/ FlashStep \/ Reset

Spec == Init /\ [][Next]_vars

\* Start-up and a save run to their end unless the device is reset.
FairSpec == Spec /\ WF_vars(Boot \/ Api_Sys_Param_Save \/ FlashStep)

-----------------------------------------------------------------------------
(* Properties.                                                             *)

Queues == {<< >>, <<"conf">>, <<"bak">>, <<"conf", "bak">>}

TypeOK ==
  /\ flash \in [Sectors -> Image]
  /\ conf \in Image /\ shadow \in Image /\ img \in Image
  /\ pc \in Writing \cup {"boot", "run", "save"}
  /\ queue \in Queues
  /\ saving \in BOOLEAN /\ written \in BOOLEAN
  /\ faults \in 0..(MaxFaults + 1)
  /\ recovered \in {-1, 0} /\ limit \in 0..MaxFaults

Paired == flash["conf"].crc /\ flash["bak"] = flash["conf"]

\* A single failed operation of a write call is mended by its retries.
Mends == limit < 2

\* When write calls can fail for good, it still holds after those that did not.
PairedUnlessWriteFailed == written /\ pc = "run" => Paired

\* Unless the device is reset for ever, it gets through start-up and through
\* every save, the retries of the flash driver included.
ProgramRuns == []<><<Reset>>_vars \/ []<>(pc = "run")

\* A sector is only given up while the other one holds a good record, except
\* on a device that holds none: no reset can lose both.
OtherCopyHolds ==
  Mends /\ pc \in Writing /\ (~saving \/ recovered = 0 \/ Sector = "bak")
     => flash[Other(Sector)].crc

NoData == [cfg |-> "none", wdt_test |-> FALSE]

\* The record the device has: the primary's, else the backup's.
Stored == IF flash["conf"].crc THEN flash["conf"].data
          ELSE IF flash["bak"].crc THEN flash["bak"].data
          ELSE NoData

\* The record a save is about to make the device's.
Pending == IF saving /\ pc \in Writing /\ Sector = "conf" THEN img.data ELSE NoData

\* The two sectors implement the atomic record of ParamStore, on a device whose
\* write calls do not fail for good.
Store == INSTANCE ParamStore WITH stored <- IF Mends THEN Stored ELSE NoData,
                                  pending <- IF Mends THEN Pending ELSE NoData,
                                  None <- NoData
StoreSpec == Store!Spec

\* api_sys_param.c:293: "recover from flash; if that fails, restore the
\* defaults and save": the device then runs on the defaults.
DefaultsSavedWhenNoneRecovered ==
  pc = "run" /\ recovered = -1 => conf.data.cfg \notin {"erased", "junk"}
=============================================================================
