# TLA+ models of the GD32F450VI firmware

The firmware is a C program for one Cortex-M4: uC/OS-III tasks, interrupt
handlers and lwIP in one address space.  Its own code is in
`src/app/Project/src` (paths below are relative to it); `app/Utilities` holds
uC/OS-III and lwIP 1.4.1, `Library` the vendor's peripheral library.

Almost everything that is hard about it comes from sharing without locks: a
task and an interrupt handler, or two tasks, touch the same ring, entry or
clock, and the code relies on the order of single loads and stores.  The rest
comes from flash (resets and failing operations between writes) and from time
(watchdog, monitor, delays).  The models follow that: a step is one access
that another context can see, and everything between two such accesses is one
step.

## Inventory

| part | state | operations | interacts with | hard about it | right when |
|---|---|---|---|---|---|
| ring buffers `sys/sys_ringbuff.c`, `physical/enet/udpgroup`, other users | two indices, slots | push, pop, sizes; receive, read, periodic send | network thread or ISR pushes, a task pops | no lock, sizes asked for once and relied on | bounded FIFO, units whole |
| system parameters `api/api_sys_param`, `driver/Flash_if`, `physical/Flash_if` | two flash sectors, two RAM copies | recover, save, defaults, shadow | flash driver with retries; reset | reset or fault between the two writes, stale RAM copies | copies agree, a save is atomic, RAM is what flash holds |
| supervision `sys/sys_base.c`, `sys/sys_monitor.c`, `wdt` | feeding disabled, delayed reset, monitor items | feed, check, delay, reset | network task, console, TCP client, external watchdog | timeouts that race, scheduler lock, priorities | a hang is reset in time, no reset without a reason |
| clocks `sys/sys_timer.c`, `physical/rtc` | run time, local time, RTC | tick, read, difference, set | SysTick, RTC interrupt, every task | two-word values read and written in halves | readings within a second, differences exact, local time follows the RTC |
| outputs `api/api_gpio` (`Api_Gpo_*`) | control entries | command, period | SysTick acts on the entry a task writes | field-by-field writes | pulses as asked, and ending |
| buttons `api/api_gpio` (`Api_Gpi_Btn_*`) | button entries | init, period | SysTick | entry in use before it is complete; 3-bit counter | level changes after n equal readings, and then always |
| slot tables `sys_mutex.c`, `sys_sem.c`, `sys_monitor.c` | arrays of used flags | create, delete | tasks at start | taken one task at a time, never given back | one owner per slot |
| interface layer `interface/interface.c` | 20 open descriptors | open, close, read, write | drivers in `driver/` | init results ignored, no open function | a call reaches its driver |
| record log `driver/spinand/llif_record.c` on `physical/spinand` | read and write positions, NAND blocks | write, read, recover | NAND, mutex | erase ahead, failures in the middle, reset | what is not given up can be read |
| upgrade `api/api_upgrade` | bytes left over | init, erase, write | flash | packets of any length into words | flash = the stream, padded |
| AT client `api/api_at` | response, semaphore, receive line | exec, parse | parser thread | late answers | an answer belongs to its command |
| TCP server and client, telnet `physical/enet`, `task/task_network` | pcb, connection state | connect, accept, error, send | lwIP callbacks in another task | pcb freed between check and use | no use of a freed pcb |
| UART `physical/uart` | DMA rings | enqueue, start, done, receive | DMA interrupts | several writers, overruns | bytes sent once, in order |
| CAN `physical/can`, `driver/can` | receive ring, client slots | send, receive, open | CAN interrupts | slots never freed, wait for a mailbox | as the ring |
| debug log `log/dbg_log.c` | message buffer, positions | append, send | all tasks | check outside the lock, failure path | sent = appended |
| console `console/` | line, history | keys, commands | UART, telnet | editing | line shown = line run |
| Wiegand `physical/Wiegand` | bit count, timers | bit interrupt, period | interrupt | timeout against a late bit | a card is read whole |
| start-up, registry `main.c`, `sys/sys_module.c` | linker tables | init, hooks | all | order | - |

`PROJECT.json` has the same list with what is modelled of each, and the
hazards line by line.

## Modules

| module | stands for |
|---|---|
| `RingFifo` | what a ring buffer promises: a bounded queue that takes a batch whole |
| `RingBuff`, `RingBuffProofs` | `sys_ringbuff.c` with one writer and one reader, byte by byte; refines `RingFifo` |
| `ParamStore` | what the two parameter sectors promise: one record, replaced atomically |
| `SysParam`, `SysParamProofs` | `api_sys_param.c` over the flash driver, with resets and failing flash operations; refines `ParamStore` |
| `Supervisor`, `SysProofs` | `Sys_State_Task`, `Net_Periodic_Task`, the monitor, the delayed reset, the watchdog |
| `SysTimer`, `SysProofs` | the clocks, access by access, under SysTick and the RTC interrupt |
| `GpioCtl`, `GpioProofs` | an output entry between `Api_Gpo_Ctl` and `Api_Gpo_Period` |
| `GpioButton`, `GpioProofs` | button entries between `Api_Gpi_Btn_Init` and `Api_Gpi_Btn_Period` |
| `MCGpio`, `GpioProofs` | both, for TLC |
| `RecordFifo` | what the record log promises: a queue that gives up its oldest records, and whose newest page a reset may damage |
| `RecordLog`, `RecordLogProofs` | `llif_record.c` over the NAND flash, with failing erases and programmings, resets and recoveries of the index; refines `RecordFifo` |
| `UartRx`, `UartProofs` | reception of `bsp_uart.c`: circular DMA, idle and transfer-complete interrupt, reading task |
| `UartTx`, `UartProofs` | sending of `bsp_uart.c`: two writers, period function, DMA and its interrupt |
| `MCUart`, `UartProofs` | both, for TLC |
| `TcpLink`, `TcpLinkProofs` | the handles `tcpclient.c` and `tcpserver.c` keep on lwIP's control blocks, with the blocks' life inside lwIP |
| `DbgLog`, `DbgLogProofs` | `dbg_log.c`: the message buffer between all tasks and the network task |

Variables and actions carry the names of the code; where an action is part of
a function its name begins with the function's short name (`Ctl_Cnt`,
`GetRunTime_S`).  An operator marked "Mutant" is a plausible bug, used to see
that a property notices it; nothing else refers to it.  Theorems are in a
module of their own; where two components share a directory of the code they
share that module.

`MCGpio` and `MCUart` put two components that share no state into one run: the
variable `half` says once, at the start, which of the two moves.  A behaviour
is one of the first or one of the second, so the states add instead of
multiplying, and no interleaving that the code has is lost.

**RingBuff.** `pPc` and `cPc` are the places of the writer in the loop of
pushes and of the reader in the loop of pops.  The test of the indices, each
byte of a `memcpy` and the store of an index are steps of their own.  The
indices are words that a Cortex-M4 loads and stores whole; the code calls
through an external function for each unit, so that neither is kept in a
register across units.  The content of a unit is its ordinal in the stream, in
each of its bytes.  `Read` is `udp_group_read_data`, `SendPeriod` is
`udp_send_period`.

**SysParam.** A stored copy is a record and whether its CRC is right; CRCs are
taken to tell records apart, an erased sector fails its CRC test (the CRC of
the 0xFF bytes is 0x33D7).  `conf` and `shadow` are the RAM copies.  `Reset`
may come at any step: in the middle of an erase or a programming the sector is
left as it was, erased, or holding anything without a right CRC.  `limit`, chosen
once, is how many flash operations of one write call may fail on this device:
with one, the retries of `llif_inter_flash_write` (`erase_retry`,
`erase_again`, `program_again`) mend the call; with two it can fail for good.

**Supervisor.** A `Tick` is one second, the grain of the monitor and of the
delays; times are ages, so that the state space is finite.  The network task
holds the scheduler lock in `init` and `handle`; otherwise the system task
pre-empts it.  `Hang` stops the network task for good inside lwIP or the log.
`DelayTorn` is what the torn reading of `SysTimer` does to the reset delay.
lwIP's start is taken to last less than a second.

**SysTimer.** A task reads (`Call`, `GetRunTime_S`, `GetRunTime_Ms` or
`DiffRunTime`) or sets the clock; SysTick may come between any two of its
accesses, the RTC interrupt also between SysTick's load and store of the
local milliseconds.  `raced` marks a setting of the clock that the RTC interrupt
fell into.

**GpioCtl.** `Api_Gpo_Ctl` writes state, count, times, time stamp and pin in
the order of the code, and `Api_Gpo_Period` is one step.  `cut` notes that the
interrupt acted in the middle of a command.

**GpioButton.** The interrupt serves each entry in use with an arbitrary
reading; `last` and `run` count equal readings in a row.

**RecordLog.** `nand` is what every slot of every page holds: erased, a record,
or garbage.  A step is one operation of the flash or one store to a backup
register, so that a reset can come between any two of them; one that comes in
the middle of an erase or a programming is part of `Reset`.  `dist` counts the
pages from the read to the write position without reducing them, which is what
tells a full log from an empty one.  The test at `llif_record.c:122` takes the
TRUE of `Nand_Block_Erase`, success, for an error, and so does the model
(`EraseAhead_Ok` refuses the record).
`Found` is where a reader finds a record, `Records` the set of those records;
a record is its ordinal, so `InOrder` says that they are met in the order they were
written.  It excuses one page: a reset between clearing the offset and advancing
the page has that page written again from its start.  Each new record goes over
an old one and ruins it, or fails and leaves it, so that old records lie behind
new ones there, and one that a failing write was about to replace is read after
records that are newer.  (`hit` marks the page until its block is erased.)  After a
recovery of the index that was cut short (`mixed`) nothing is claimed of the
records until it is repeated.

**UartRx.** Bytes are ordinals on the line.  `Get_Char` is split at every load
and store of a counter that an interrupt changes; an interrupt is served before
the task goes on, and within the time of a character.  Marks say what the
lack of a lock costs: `raced`, a lap counted between the load and the store of
`usWriteCntbackup--` is lost; `halved`, an overflow looked for between that
store and `usReadCnt = 0`; `cut`, an overflow handled inside `Get_Char`, after
which the reader may leave the buffer.  A fourth, `round`, says that the line was busy for so many laps that
`usWriteCntbackup` began again at 0.  All of them end with the
next `BSP_USARTx_DMA_Restart`.

**UartTx.** A writer of low priority puts bytes one by one, with load and store
of `iWriteCnt` apart; the system task's `fputc` can come in between unless
the scheduler is locked (`mixed`).  `in` and `out` count the bytes put and sent.

**TcpLink.** `lw` holds lwIP's lists and what each control block holds; a block
that is freed keeps its content until it is used again, as in `memp.c`.  Each
segment, timer pass and period call is one action, since callbacks run inside
lwIP under the scheduler lock.  `dangling` says which handle's block was freed
since it was set.  `misled`: the end of an older connection asked for a
reconnection while a live one stood (`tcpclient.c:171`); `forgotten`: a poll took
the request back while there was none (`tcpclient.c:181`).  What follows a
`tcp_close` of a freed block is not followed (`bogus`).

**DbgLog.** `FindRoom` and `Append` are the two halves of `DbgLog`, before
and under the scheduler lock; the network task's handler is split at every
access outside the lock.  Messages of the network task itself behave as those of a task
of low priority: its handler is never in the middle of sending then.
`Append` does not look at the room again and writes the NUL of `sprintf` behind
the message; `since` counts what others logged after a task's look.  `overrun`
marks a session in which a byte, NUL included, went past `szMsg`: the positions
are followed on (they lie before the array), the memory behind it is not, and
what is sent in the rest of that session is not judged.  `telnet_close` is the
end of a session that switches the log off (`telnet_exit`, the timeouts of
`telnet_poll`), `telnet_conn_err` one that does not: the peer's FIN
(`telnet.c:591`, `:1104`) or an error of lwIP (`:1177`).
`raced`: a task of higher priority logged while the handler emptied the buffer,
between `dbg_log.c:239` and `:242`; its message is lost.  After a failed
`tcp_write` of a whole piece the loop runs once more with a NULL pcb and fails
again (`SendFails`).

## Runs

| run | expects | shows |
|---|---|---|
| `ringbuff` | pass | refinement of `RingFifo`; a datagram is filled before it is sent; everything accepted is delivered |
| `sysparam` | pass | the sectors agree unless a write failed for good, one is good at any time, refinement of `ParamStore`, start-up and saves end |
| `supervisor` | pass | a hang lasts at most monitor plus watchdog time, feeding stops only for a reason, the reboot command is honoured, a delayed reset happens |
| `systimer` | pass | readings within a second, differences exact unless torn, local time follows the RTC |
| `gpio` | pass | a command that was not cut gives its pulses and they end; a level changes on `DEBOUNCE_TICKS` equal readings, never on fewer |
| `recordlog` | pass | positions never lap, a record reported as stored is there, records are found in order, a full log takes records again, refinement of `RecordFifo` |
| `uart` | pass | bytes are taken once and in order, laps counted, an overflow noticed and overcome; what is put is sent, once and in order |
| `tcplink` | pass | every control block in one list, one client served, the client's handle a live connection unless another is asked for, a lost connection tried again |
| `dbglog` | pass | a message runs past the buffer only if it is, with what others logged since its task looked, longer than the room asked for; until then nothing is sent that does not wait, and what is logged is sent unless a race or the session's end loses it |
| `sysparam_first_boot`, `recordlog_erase`, `tcplink_close` | violation | what a comment says and the code does not do (below) |

### Bounds

- `ringbuff`: four slots give an empty, partly used, wrapped and full ring;
  two bytes make a torn unit visible; nine units go round the ring twice;
  `SendMax` 2 caps a datagram below what the ring can hold.
- `sysparam`: two settings tell an older record from a newer one; up to two
  faults per write call exercise every retry and a call that fails.  The number
  of resets is not bounded.
- `supervisor`: delays scaled down, keeping their order: watchdog (2) below
  monitor (3) and TCP client (5), command (2) below TCP client.
- `systimer`: a second of three milliseconds, eight ticks: two changes of the
  second; a word of seven: elapsed times wrap.
- `gpio`: counts 1, 2 and endless, times of one and two intervals, no idle
  time, constant levels, any sequence of commands; two buttons, the
  `DEBOUNCE_TICKS` of the code.
- `recordlog`: three blocks, the fewest the assumption allows, of two pages of
  two records, and twelve records: the log fills, erases ahead and wraps; one
  reset, two failing operations and one recovery, at any step, in any order.  It
  takes a reset and two failures to have an old record read behind a newer one.
- `uart`: a receive buffer of three bytes and counters modulo four: a counter
  outside the buffer comes round; twelve bytes overflow it, take the lap counter
  past its range, restart and go round again.  A transmit ring of four, writes of one and two bytes, seven bytes:
  the ring wraps with a transfer under way.
- `tcplink`: a pool of three blocks, so that a connection of each handle and one
  of an older handle empty it and `tcp_alloc` kills one; one failing call of
  lwIP; `tcpclient_period` waits for one pass of the slow timer.
- `dbglog`: one task above and two below the network task; messages of one to
  three bytes in a buffer of six, a room and pieces of three, ten bytes a session
  and any number of sessions: the buffer is emptied and refilled, and overrun in
  every way: by the NUL alone, by one message as long as the room, by short ones
  whose tasks found the same room, and again once the check of the room has
  wrapped.

`CHECK_DEADLOCK FALSE` is given where a bound ends every behaviour (`systimer`,
`recordlog`, `uart`) or the system may rest: `tcplink` ends after a bogus
close, `dbglog` when its bytes are logged and the session is over.

### Fairness

- `RingBuff`: weak fairness of the push in progress (a push never blocks) and
  of the reader, which `Period_Hook` or a reading task polls for ever.
- `SysParam`: weak fairness of start-up, save and flash steps; `ProgramRuns`
  excuses a device that is reset for ever.
- `Supervisor`: strong fairness of both tasks, which are ready again and again
  but not all the time: the network task runs in the 10 ms sleeps of the
  system task, the system task whenever the scheduler lock is given back; weak
  fairness of time and of the watchdog.
- `GpioCtl`: weak fairness of a command in progress and of SysTick.
- `UartRx`: weak fairness of a pending interrupt and of the reading task, which
  polls.  `UartTx`: weak fairness of a write in progress and of the hardware,
  strong fairness of the period function, which a writer with the scheduler
  locked holds up for a while.
- `TcpLink`: weak fairness of the slow timer and of each of its steps (the
  network task runs it every 500 ms to its end), strong fairness of
  `tcpclient_period`, called in every turn of the system task.  Nothing is
  assumed of the peer.
- `DbgLog`: weak fairness of the handler and of a message of a task above the
  network task.  Nothing is assumed of tasks below it.
- `SysTimer`, `GpioButton` and `RecordLog` have safety properties only.

## Where the code and its words differ

Three runs expect a violation:

- `sysparam_first_boot`: the defaults of a first start are overwritten by the
  shadow that the save takes (`api_sys_param.c:293`).
- `recordlog_erase`: the block cleared ahead is the one the read position is
  then moved to, not the one it leaves: the unread records of both are lost, and
  the reader finds an erased block (`llif_record.c:125`, `:133`).
- `tcplink_close`: `tcpserver_accept` closes the block of the last connection
  although lwIP may have freed it (`tcp.c:200` calls that erroneous).

The models show more, for which no run is kept:

- Recovery from the backup repairs the sector, not `s_stSysConf`
  (`api_sys_param.c:121`, against `:41`); after a recovery with a good primary
  and another backup the shadow is the backup's record and not the device's
  (`api_sys_param.h:137` calls it a copy); a save whose writes failed returns 0
  (`api_sys_param.c:162`).
- "Device will reboot after 3s" (`cli_cmd.c:377`) is not kept when the longer
  request of the TCP client came first; `RebootCommandHonoured` excuses it.
- The run time as read is not monotonic (`sys_timer.c:96`); a difference with a
  torn reading wraps (`:138`).
- The reset pulse of the module may not end if the interrupt acts in the middle of the
  command (`api_gpio.c:168`, `cli_cmd.c:396`).
- Eight readings, which `api_gpio.h:67` allows for `DEBOUNCE_TICKS`, are more
  than the three bits of `debounce_cnt` count to; the code uses 3.
- A full record log refuses every record that has a block erased
  (`llif_record.c:122`); a block that cannot be erased is skipped and stays in
  the range that is read (`:145`); a reset between `:188` and `:189` has the
  next record programmed over a full page, and if a later programming fails the
  old record under it is read behind newer ones; a read position in the last block has
  the reserved block erased.
- Two tasks that print at once, without the scheduler locked, mix and lose bytes
  (`bsp_uart.c:297`); a lap of the receive buffer can be lost (`:420`), and so
  are all of them when the line stays busy until the lap counter begins again.
- The debug log can run past the end of its buffer.  The shortest case has one
  task: a message whose length is not below the 1500 bytes asked for
  (`dbg_log.c:120`).  With shorter ones it takes several tasks: each looks at the
  room while another is between its look (`:35`) and its lock (`:38`), and together
  with the last NUL (`:125`) they take more than the 1500 bytes.  Past the end the
  unsigned difference at `:35` is huge and the check lets everything through
  until the buffer has been emptied.  No sentence of the repository bounds a
  message, so no run is kept for it; `BufferHolds` says that there is no other
  way.
- A session that the peer ends or lwIP gives up leaves the log on: the tasks go
  on filling the buffer until the next one begins (`telnet.c:1177`).
- A poll of any connection of the client takes back the request for a new one
  (`tcpclient.c:181`), and the error of an old one has a live one replaced
  (`:171`).

## Proofs

TLAPS checks the theorems of eight modules.  Each component has an invariant
(`IInv`, or one with the component's prefix), lemmas that each action keeps it,
and the theorems as its consequences; the assumptions are those the modules
name on their constants, unless said otherwise.  None of the properties is
inductive; what the invariant adds is the reason why the code is right.

- **RingBuffProofs**: all safety properties of `ringbuff` and the refinement
  of `RingFifo`, for every depth, unit and datagram size and length of stream.
  `IInv` adds the content of every slot in use with the bytes being copied
  (`Content`), what the writer knows (`Writer`: in a push there is a free slot
  and the rest of the batch fits) and what the reader knows (`Reader`).  Each
  side only enlarges the room of the other.
- **SysParamProofs**: `TypeOK`, `PairedUnlessWriteFailed`, `OtherCopyHolds` and
  the refinement of `ParamStore`, for any settings and number of faults and
  resets.  `IInv` adds where a write call is (`Progress`), that the first sector
  of a call is good when the second is worked on (`FirstWritten`) and that the
  old record stays until then (`OldRecordKept`); then every step maps to a
  step of `ParamStore` or to none.
- **DbgLogProofs**: `BufferHolds`, `UnsentIntact`, `LengthWaits`, for any
  tasks, messages and sizes, with a buffer below 2^16 bytes.  Nothing is assumed
  of the length of a message or the number of tasks.  `IInv` adds that a task
  still has the room it found, less what the others have logged since (`RoomKept`),
  and what the handler knows while it empties the buffer (`Emptied`).  From
  `BufferHolds` a reader gets what would make the buffer safe: that the messages
  of one look, its own and those that come between, stay below the reserve.
- **SysProofs**, `Supervisor`: `TypeOK`, `HangIsShort`, `ResetHasReason`,
  `RebootCommandHonoured`, for every timeout and delay, the monitor's above 2.
  `IInv` adds the order in which the tasks ran since the last second (`Order`),
  that a network task that works is not late (`NotLate`), how old a hang is by
  what has been done about it (`HangBounded`) and a pending command's age
  (`RebootNear`).
- **SysProofs**, `SysTimer`: the three properties of `systimer`, for every length
  of second and word.  The invariant adds that the two halves of the run time are
  the ticks (`RunTimeIsTicks`), that a register holds the seconds of a moment
  since the call (`Reading`), that an untorn stamp is its tick (`Stamped`) and that
  what was read back from the RTC is its time until the next interrupt (`ReadBack`).
- **GpioProofs**, `GpioCtl`: `CommandObeyed`, for any commands, counts and times.
  `IInv` adds what is already written at each step of a command nobody cut
  (`PwmInProgress`), and afterwards that the pulse is no older than the state
  the interrupt times, and that pulses given and left make up the count, which
  stays below zero if it was (`PwmDone`); a constant level leaves the interrupt nothing to do (`LevelKept`).
- **GpioProofs**, `GpioButton`: the properties of buttons, for any set of entries
  and every `DEBOUNCE_TICKS` below 8; that hypothesis is in the theorems, and it is
  needed.  The counter is at least the number of equal readings that differ from
  the level, and at most that number unless the initialisation was cut.
- **RecordLogProofs**: every property of `recordlog` and the refinement of
  `RecordFifo`, for every size of the flash and any faults, resets and
  recoveries.  The invariant has three layers.  *Positions* (`IInv`): the read
  position is at the start of a block (without it a move gives up less than a
  block, and skipping a block could lap it), the log is full when a block is
  cleared ahead and not when a record is programmed (`Called`), and refusals in a
  row are paid for by faults, two each, one more only while there is room
  (`Refusals`): from it `NeverLaps` and `NotStuck`.  *Storage*: what is still to be
  written before the next erase is erased, but for a page that a reset came to
  (`Clean`), and the slot before the write position holds the record of a write
  that is to return 0 (`Stored`): from it `ReportedIsStored`.  *Order*: no slot is
  newer than the record of the call (`Older`), which has to hold of the old
  blocks as well, outside the log, since an erase ahead brings their slots back
  in reach; and the pages the log has come to are in order (`Ordered`): from it
  `InOrder`.  In the refinement a programming is a `Store`, a move of the read position
  gives up the oldest records, and a reset changes at most the page that is being
  written.
- **UartProofs**, `UartTx`: `UnsentIntact` and the type invariant, for every ring
  and write.  `TxIInv` adds the content of the ring counted from the read index
  (`Content`), that a transfer is of bytes in the ring (`Transfer`), and that
  the rest of a write fits and its last byte is in place (`Writer`).
- **UartProofs**, `UartRx`: `TakenInOrder`, `LapsCounted`, `FullNoticed`, for
  every buffer and range of the counters.  `RxIInv` relates the positions to the
  bytes: the DMA's is that of the bytes stored, the reader's that of the bytes
  taken, and the write counter of the last idle interrupt that of some byte in
  between, further on than the reader as long as it is taking one (`Epoch`).
  With the last `Size` bytes in the buffer (`Stored`) the order follows, and with
  the laps at each place of `Get_Char` (`Laps`) the count.
- **TcpLinkProofs**: all safety properties of `tcplink`, for every pool and
  number of failures.  `IInv` adds that a block is in one list only, in a state
  and with an owner that belong there (`Linked`, `Stated`), that what is left of
  a timer pass is still active (`Walk`), that a handle no free has overtaken is
  its owner's and out of the pool (`ServerHandle`, `ClientHandle`), and that a
  request made beside a live connection is taken back by the next timer pass
  (`Pending`), which is why `tcpclient_period` cannot act on it.
- **UartProofs** and **GpioProofs** also have the type invariants of the two runs
  that hold two components.

`UartRx` carries the mark `round`, and `InOrder` the excuse for a page hit by a
reset, because the proofs found a state there that smaller runs had not; the
bounds now reach both.

Only model-checked: liveness everywhere, since fairness and `ENABLED` are beyond the
prover (`AcceptedIsDelivered`, `ProgramRuns`, `DelayedResetHappens`, `PulsesEnd`,
`Resumes`, `PutIsSent`, `LostLinkRetried`, `LoggedIsSent`), and the three runs
that expect a violation.  Every safety property and every refinement that a run
checks is proved.

## Not modelled

- The interface layer: drivers are opened once, at start-up, and nothing closes
  one; its calls go through a table.
- Mutexes, semaphores, critical sections: calls of uC/OS-III.  Their slots are
  taken at start-up by tasks that do so at different times.  What happens to a
  task that the SysTick handler interrupts and `llif_gpio.c:14` makes wait
  (uC/OS-III does not check for it, `os_cfg.h:41`) is a hazard no model covers.
- The firmware upgrade and the AT client have no caller in the repository.
- Sending on TCP, with its wait of up to a second for buffer space; several
  writers of the UDP send ring; the CAN mailbox wait; the blocking transmit path
  of a UART without DMA.
- The console's line editing, the telnet login, Wiegand bit timing: state of a
  single task or interrupt; the rings behind them are `RingBuff`.
- Device registers, vendor start-up code, uC/OS-III (its priorities and
  scheduler lock are in the models of the code that uses them) and lwIP beyond
  the life of a TCP control block.
- `Ringbuff_Peek`, the de-initialisations of `api_gpio`,
  `SysTimer_DiffLocalTime` and `DMA_Force_Restart` have no caller.

## Plan

What would add most next, in this order: TCP sending in `TcpLink` (the block
used after a wait), whose proof extends `ServerHandle`; several writers in
`RingBuff`; the CAN mailboxes; the upgrade's packing of packets into words, should
it get a caller.
