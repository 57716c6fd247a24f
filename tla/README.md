# UPDI-Programmer in TLA+

A model of the two UPDI programmers in this repository: the Flipper Zero
application in C, and the `pymcuprog` reference in Python that it was written
after. TLA+ modules translated from the source, TLC configurations that check
them on small instances, and theorems that TLAPS proves for every value of the
constants.

`src/` is the repository. `PROJECT.json` lists for every TLA+ definition the lines
of code it stands for.

## 1. The system

    scenes, views, timer          src/ui/, src/updi_prog.c      GUI thread
        | updi_worker_start        ^ custom events, WorkerDone
        v                          |
    worker operations             src/ui/updi_worker.c          worker thread
        | updi_session_*                     \ intel_hex_*
        v                                     v
    session                       src/updi/updi_session.c    src/hex/intel_hex.c
        | updi_nvm_*    \ updi_device_find_by_id
        v                v
    NVM programming               src/updi/updi_nvm.c     src/updi/updi_device*
        | updi_link_*
        v
    data link                     src/updi/updi_link.c
        | UpdiTransport {send, recv, millis, ...}
        v
    FURI transport                src/transport/transport_furi.c   + receive callback
        | one wire, echo
        v
    target                        hardware; src/host_test/updi_emu.c stands in for it

The constants of the device table come from the reference's device packs by
way of `scripts/gen_device_table.py`. The reference has the same layers of its own:

    provider      reference/pymcuprog/nvmserialupdi.py         NvmAccessProviderSerial
    application   .../serialupdi/application.py, nvm.py        UpdiApplication, NvmUpdi
    NVM drivers   .../serialupdi/nvmp0.py, nvmp2.py .. nvmp5.py
    data link     .../serialupdi/link.py, readwrite.py, physical.py

Calls go down, a status (`UpdiStatus`) comes up. There are two threads. The GUI
thread starts a worker, shows its progress and joins it; the worker alone
touches the session and everything below while it runs. Below the worker
everything is synchronous C code: the concurrency that matters there is between
the program and the *target*, which has state of its own, takes time, can miss
a frame, and keeps what an operation that failed left in it.

| part | state it keeps | operations |
|---|---|---|
| target | UPDI enabled, reset, keys armed, programming mode, lock bits, RSD, NVMCTRL busy/error, page buffer, flash, fuses | instructions: BREAK, LDCS/STCS, KEY, LDS/STS, LD/ST ptr, REPEAT |
| data link | transport, address width, `ack_enabled` (never read) | activate, ldcs, stcs, ld/st byte, read/write data, key, SIB |
| NVM programming | link, variant table, device, callbacks | enter/leave progmode, unlock, signature, erase chip/page, write page, read, fuses |
| session | transport, link, nvm, `connected`, `device`, `have_device` (never read) | connect, unlock, disconnect, erase, write/verify/read flash, read/write fuse |
| worker operations | `app->op`, `result`, `transport`, phase and progress | connect info, chip erase, flash, verify, dump, read fuses |
| FURI transport | serial handle, receive stream of 512 bytes, echo counter | alloc/free, send, recv, double break, millis |
| Intel HEX | parser base address, `eof_seen`, `max_offset`; writer's current upper half | parse line/string, write image |
| application and scenes | scene stack, selected op and file, worker thread, timer, queue of custom events | menus, file browser, confirm, progress, result |
| device table, its generator | constants | lookup; generation from the device packs |
| pymcuprog reference | provider, application (driver, SIB, address width), driver, link | construct, start, stop, erase, write, read, hold in and release from reset, unlock, user row of a locked device |
| host tests | - | - |

What is hard here:

- **What an operation leaves behind.** Most error paths return without
  resetting the target. It may stay in reset, in programming mode, with a
  programming or a *chip-erase* key armed, with acknowledgements off or with a
  write error set, and the next operation starts from there. Some statuses are
  ignored (`nvm_reset`, the session parameters) and some frames have no answer.
- **Lost frames.** An instruction that was sent may or may not have been
  executed; an answer may be lost after the effect. Blocks are written with
  acknowledgements off.
- **Time.** A target is not readable at once after a reset, NVMCTRL is busy after
  a command; poll loops have a time limit, and an iteration limit where the
  transport has no clock; one lost answer costs more than a whole wait.
- **Retry.** `do_connect` unlocks (that is: erases) a locked target and connects
  again, only for operations that may erase.
- **The user.** Another target can be plugged in, or lose power, at any time.
- **Numbers.** Tick and millisecond counters wrap; record and page arithmetic is
  at its limits for 256-byte pages and 64 KiB addresses.
- **Two threads.** Events already queued, the timer, and the join of the worker.
- **Exceptions** (reference). A call may end anywhere and leave a command in
  NVMCTRL, a key armed, or an object made for another target; the caller goes on.

What makes each part correct: *target*: nothing, it is the environment;
*link*: a call that reports success had its effect, and answers belong to the
call that gets them; *NVM*: success means done, commands do not overlap, only
the addressed page changes; *session*: connected means programmable and the
right device; *worker*: what it reports is true of the target, nothing is
erased unasked, the file is read before the erase, and it always comes to an
end; *HEX*: what is written parses back, what is refused changes nothing
outside the image; *scenes*: one operation at a time, no event of a finished
worker reaches a freed one, no deadlock between join and post; *device table*: the
geometry of the part on the wire; *reference*: what returns without an exception
was done, nothing else was changed, and every call ends.

## 2. The modules

| module | models | extends |
|---|---|---|
| `UpdiTarget` | the target of the application: one record, one operator per instruction | - |
| `UpdiLink` | `updi_link.c`, with the transport: how each call can end | `UpdiTarget` |
| `UpdiNvm` | `updi_nvm.c` and `updi_link_activate`: a machine of one link call per step | `UpdiLink` |
| `UpdiWorker` | the operations of `updi_worker.c` and `updi_session.c` on top of it, and the user | `UpdiNvm` |
| `UpdiNvmApi` | `updi_nvm.h` under a caller that calls anything | `UpdiNvm` |
| `UpdiTransport` | `transport_furi.c` byte by byte, with the call sequences and poll loops above it and the tick counter | - |
| `UpdiApp` | `updi_prog.c`, `updi_scenes.c` and the thread of `updi_worker.c`: GUI thread, worker, timer, event queue | - |
| `OperationCycle` | abstract: one operation at a time, its own outcome, reported once | - |
| `IntelHex` | `intel_hex.c`: the parser of a line, the writer of an image | - |
| `HexFile` | a dump to a card that may be full, and the line reader on a dump or a foreign file | `IntelHex` |
| `DevicePacks` | the device packs of the reference | - |
| `DeviceTable` | `gen_device_table.py`, the table and the lookup | `DevicePacks` |
| `BlockTransfer` | how both programmers cut a memory into REPEAT-counted blocks | `DeviceTable` |
| `SerialUpdiTarget` | the target as the reference sees it: all memories, P:0 to P:5, user row mode, lingering commands | - |
| `SerialUpdiLink` | `link.py`, `physical.py`, `readwrite.py`: how each access can end | `SerialUpdiTarget` |
| `SerialUpdiNvm` | the drivers `nvmp0.py`, `nvmp2.py` to `nvmp5.py` as programs of accesses | - |
| `SerialUpdi` | provider and application on top, under a caller that calls anything, also after an exception | `SerialUpdiLink`, `SerialUpdiNvm` |
| `MCUpdiWorker`, `MCHexFile`, `MCSerialUpdi` | symmetry and inputs for TLC | the module they are named for |
| `UpdiNvmProofs` | lemmas about the target, the link and each NVM function | `UpdiNvm` |
| `UpdiWorkerProofs`, `UpdiNvmApiProofs`, `UpdiAppProofs`, `UpdiTransportProofs`, `HexFileProofs`, `SerialUpdiProofs` | the theorems about these modules | the module, and `UpdiNvmProofs` for the first two |
| `UpdiRecoveryProofs` | five more theorems about `UpdiWorker`: what an undisturbed operation, or one or two faults, come to | `UpdiWorkerProofs` |

Definitions whose comment begins "A bug:" are not part of any specification.
Each is a plausible slip in the definition below it, and some property must
notice it when it takes that definition's place.

### The application: target, link, NVM, worker

**The target** (`tgt`) is a record: `dis` (UPDIDIS, or nobody sent a BREAK yet),
`rst`, the two bits of ASI_KEY_STATUS, `prog`, `locked`, `rsd`, `wrerr`, the
milliseconds until it has booted and until NVMCTRL is ready, the page buffer and
the page it is for, the flash by page, one fuse. A page command has no operand: it goes to
the page that the last store selected (`SelectPage`, `LoadBuffer`), and to none before
the first store after a reset. Keys, resets and NVMCTRL commands are those of
`host_test/updi_emu.c`. The emulator is coarser than the code it tests: it has no
boot time, is never busy, keeps its keys and enters programming mode even when
locked. Where the C code waits, checks or comments on such a thing, the model
has it, and such definitions are marked external. A page holds `"old"` (what
was there), `"blank"` (0xFF), a value of `Data` (what an image can hold) or
`"torn"` (what nobody asked for: half a block, a page written twice, a page
that was being written when power failed).

**The link** is stateless here. Each operator is the set of outcomes of a call:
the target afterwards, the status, and whether the wire misbehaved, which is
counted against `MaxFaults`. A frame or its answer is lost, or its echo is
(then the transport reports a failed send). That no target answers is not a
fault: the bridge echoes all the same.

**The NVM machine** has one action for every link call in the source. `pc` names
the place in the C function; the combinators `Try`, `Ignore`, `TryBit`,
`WaitUnlocked`, `WaitReady` and `Command` are the idioms of the code (`if(s != UpdiOk)
return s;`, a status nobody looks at, the two poll loops, `execute_nvm_command`).
The functions of one file are disjuncts, so `Unlock` reads like
`updi_nvm_unlock`. Poll loops count time as the code measures it: an answered poll
costs `PollMs`, a lost answer 300 ms, a lost echo 120 ms, and the same time
passes for the target.

**The worker** moves only when the machine has returned (`pc = "ret"`); `wpc` is
its place. A step is the code between two calls. `file` is the picked HEX file:
refused, or an image of `0..NPages` pages (0 is possible: a file without data).
The user (`Start`, `Relaunch`, `SwapTarget`) acts between operations, and
`PowerCycle` at any time. `asked`, `budget` and `wasLocked` are history
variables: no action of the program reads them.

**`UpdiNvmApi`** replaces the worker by a caller that makes any call of `updi_nvm.h`
in any state, and goes on after an error while NVMCTRL may still be busy.

### The application: bytes, threads, files, numbers

**`UpdiTransport`** looks inside what `UpdiLink` takes as one call. A byte is
tagged `echo`, `answer` or `stale` (of an earlier call); the program counts
bytes and cannot see the tag. `rx_callback` moves bytes from `wire` into `rx`, which drops
what does not fit; `furi_recv_impl` is three places (`head`, `blocked`, `received`);
`furi_send_impl` receives its echo in portions of the scratch buffer. `tick` wraps, and so do the
deadline and `millis` computed from it. `Disturb` and `Send` lose or delay bytes
and frames; `Tick` while the thread is runnable means that it was held up.

**`UpdiApp`** has four actors. The GUI thread takes an event (`StartEvent`,
`ProgressTick`, `ProgressDone`, ...), and a handler that other actors can
interrupt is several steps, named by `gui`: on entering the progress scene it starts the worker, then the timer;
`WorkerDone` stops the timer and then joins. The worker passes its phases
under the lock, sets the result, posts `WorkerDone` and returns. What an
operation does to the target is not here: `UpdiWorker` has that.
Back is consumed by the progress scene, leaves the application from the start
menu, and leads to the menu from everywhere else.

**`OperationCycle`** is what a user is promised: begin, end, report, dismiss. `UpdiApp`
implements it (`ImplementsCycle`) with `state` from the scene and the worker's
place, `outcome` from `result`.

**`IntelHex`/`HexFile`** work on records. The parser keeps base address, smallest and
largest offset; hex digits and the checksum's arithmetic are reduced to "is
this line a record" and "is its sum right". The widths of a record
address (`SegBits`), of an address and a size (`AddrBits`) and of a segment
(`SegShift`) are constants, so that a segment has a few bytes. `Meant` says what a file means
byte by byte, without a parser, and the properties compare the two.

**`BlockTransfer`** takes the real numbers: every pack, every row of the table
the generator makes of them, `REPEAT` as a byte of count less one, the
address cut to the width of the link. A step is one iteration of an outer loop; `blocks` is
what the target decodes from the frames sent in it.

### The reference

**`SerialUpdi`**. The Python functions are programs: sequences of accesses, polls and
branches (`Do`, `If`, ...), built by operators that have the names of the functions.
`todo` is what is left of the call; an action carries out its first access with any of
the outcomes `SerialUpdiLink` gives it, or raises. `Begin` is the caller, who makes
any call of `Setups[setup].calls` whenever the last one is over; `Pause` is a host that stands
still (or whose clock is set), which matters because `timeout.py` uses `time.time()`. The
memories are two flash pages, EEPROM, user row, fuses and lock bits.

### What is abstracted

- Opcodes, register offsets, command codes and, outside of `BlockTransfer`, addresses are data.
- In `UpdiNvm` and `SerialUpdi` a lost or late byte is an outcome with a status. That an echo
  byte is then taken for an answer is the subject of `UpdiTransport`.
- In `UpdiWorker` a read or verify chunk is one page; `BlockTransfer` has the chunks.
- `session` guards that return `UpdiErrParam` when not connected cannot be reached from
  the worker, and `malloc` does not return NULL on this platform; both left out.
- In `UpdiWorker` phase, progress and the addresses of a mismatch are for display only.
- The user takes longer than anything the target is doing when an operation is
  over (`Settle` in `Start`).
- `UpdiApp`: queue, scene manager and timer are the firmware's (external). The
  queue is bounded, posting to a full one waits, stopping a timer ends its callbacks. Texts and
  the items within the settings are left out.
- `UpdiTransport`: a late byte arrives before the call after the next one.
- `SerialUpdi`: loads and stores reach memory only in programming mode. The exception classes come from
  `pymcuprog_errors`, which is not in the repository; from their use a
  `ProtocolError` is an `UpdiError`, and the serial library's
  `SerialException` an `IOError`. The two address bytes of a P:0 fuse and the dummy stores of the
  user row count as one access. P:4 and P:5 behave as P:2 and P:3. `write_data` recurses three
  deep where Python would a thousand.

## 3. The runs

| run | instance | shows |
|---|---|---|
| `two_faults` | `UpdiWorker`: 2 pages, 1 content, 2 faults anywhere; P:3, unknown and absent targets; Connect, Chip Erase, Flash, Verify | `TypeOK` and six safety properties, below |
| `one_fault` | `UpdiWorker`: 2 pages, 2 contents (symmetric), 1 fault; both NVM variants, unknown, absent; all six operations | `VerifiedMeansEqual`, `FlashOkMeansProgrammed`, `FlashRecovers`, `BadFileKeepsFlash` |
| `termination` | `UpdiWorker`: 1 page, 1 fault, all operations, unlock of 450 ms | `OperationsEnd` |
| `api` | `UpdiNvmApi`: 2 pages, 1 fault, both variants, erases of 50 and 600 ms, no clock and 10 poll iterations | `OkMeansDone`, `CommandsWhenReady`, `OnePageAtATime` |
| `transport` | `UpdiTransport`: 3-bit ticks, receive stream of 6, blocks of 4, scratch of 3, 2 faults | `AnswersBelong`, `FailsOnlyIfDisturbed`, `GivesUpInTime` |
| `app` | `UpdiApp`: queue of 3, phases of 2, menu items Connect, Flash, Chip Erase, Settings | `NoStaleDone`, `IdleOutsideProgress`, `ProgressRunsForward`, `StartsAreAsked`, `ImplementsCycle` |
| `hex_file` | `HexFile`: segments of 4 bytes, 16 addresses, all foreign files of up to 3 lines, dumps of 1 to 12 bytes | `ImageMatchesFile`, `RangeCoversFile`, `RoundTrip`, `GoodDumpIsWhole`, `RecordsWithinSegment` |
| `blocks` | `BlockTransfer`: all 21 parts with their real sizes, one pack not published | `RightGeometry`, `NothingLeftOut`, `WithinOnePage`, `ReceiveFits` |
| `pymcuprog` | `SerialUpdi`: six setups of targets, options and calls, 1 fault, pauses of the host | eight properties, below |
| `locked_by_timeout` | `UpdiWorker`: 1 page, 1 fault | violates `LockedMeansLocked` |
| `erased_after_verify` | `UpdiWorker`: 1 page, 2 faults | violates `FlashOkMeansProgrammed` |
| `busy_port` | `UpdiWorker`: 1 page, no fault, the USART may be held | violates `BusyPortCanBeRetried` |

### The worker and `updi_nvm.h`

The runs of `UpdiWorker` go on over any number of operations, Relaunches and
swaps; only the faults are bounded. `PollMs` is 50, so a wait of 100 ms is up
to two answered polls, and a boot or busy time of 50 takes a second poll, 150
a few more, 450 takes nearly all of the 500 of an unlock, and 600 exceeds the 500 of
a chip erase.

`two_faults` is the main run. With two faults an operation can fail in a way that
leaves a key armed *and* a later one can be hit as well, which is what the
following need to be tested at all:

- `ErasedOnRequest`: a target's contents change only after the user asked for an
  operation that may erase. Connect and Verify also reset the target, and a reset
  runs an armed erase.
- `EraseOkMeansBlank`, `WritesBlankPages`: the erase has completed on this target
  before anything is written; pages of 0xFF are skipped on that ground.
- `ConnectedMeansProgmode`: between connect and disconnect the target is in
  programming mode, unlocked, and the device is the one on the wire, unless
  power was lost.
- `ConnectReportsTarget`: an undisturbed Connect tells what is on the wire from
  whatever state two faults left.
- `OkMeansRunning`: after success the application of the target runs. Two faults
  are all it holds for: see the remarks below.

`one_fault` has two contents, because an old image may pass for a new one:
`VerifiedMeansEqual` says that a verify that passed is true although block
writes are not acknowledged; `FlashOkMeansProgrammed` that this is still so when the
operation is over; `FlashRecovers` that an undisturbed Flash succeeds after
whatever one fault left behind; `BadFileKeepsFlash` that a refused file then costs no
flash. Two pages are enough for the loops to differ at first, middle and last
iteration of an image of 0, 1 or 2 pages, and for one page to be hit in place of another.

`termination`: no operation hangs, also on a target that stays locked or answers
nothing. `api` uses a transport whose `millis` is NULL, so that its poll loops
end by their iterations alone; the erase of 600 ms outlasts them, and the caller then
goes on with a busy NVMCTRL. `OnePageAtATime` has to hold although the store that selects the page
may be refused or lost: without the dummy store of `updi_nvm_erase_flash_page` (`:248`) the erase hits the page of
the call before. Excepted is only a failure of power, which ruins a page that is being written.

### Bytes, threads, files, numbers

`transport` has every order of calls and a tick counter of eight ticks that starts anywhere, so that each
deadline, each wait and each receive meets the wrap at each place. The sizes keep the
relations of the code: the scratch buffer is smaller than a block's echo, a
block with its frame fits the stream, and a block and a stale one do not. Two
faults are a byte out of place and the attempt that is made again.
One millisecond is one tick, as on the Flipper; `GivesUpInTime` holds only for
such a clock, since at another rate `millis` does not wrap at a power of two.

`app`: three places in the queue let ticks, `WorkerDone` and a second choice be queued at
once and let it be full; a phase of two steps is enough to run backwards.
`ImplementsCycle` contains liveness: what was begun ends and is reported. Deadlock is checked, so
join and post do not wait on each other.

`hex_file`: a file of three lines has an address record, a data record and one that
overlaps, wraps or ends it; address records of both kinds, good and bad, are among the lines. Dumps of 1 to 12 bytes end
within the first segment, at its end, and in later ones. Reading ends, so this run does not check deadlock.

`blocks` has no scaling: the sizes are those of the packs. Lengths and offsets are those at which a loop differs: one, a
page, two pages, one and two chunks and the whole memory, each also one less and one more. `RightGeometry` compares what
the application takes from the table's row with the pack: flash, fuses, NVMCTRL, the width of an address and the NVM variant.

`NothingLeftOut` has two exceptions, both in the reference's provider. `write` (`nvmserialupdi.py:173`, `:200`) sends to any
memory it does not name, which is the SRAM in these packs, all in one piece through `write_flash`. There the last byte of an
odd length is left out, a single byte is announced as 256 words (`REPEAT` of 0 less one), and more than 512 bytes are refused.
And `erase` (`:116`) takes an address, but erases as many pages as the whole flash has, or dummies as many locations as the user
row has: from any address but 0 it goes on beyond the memory. No pack has a boot row, and the signatures have no write unit, so neither is written.

### The reference

`pymcuprog`: a setup is a way to use the tool (flash; EEPROM and fuses; user row and
partial erases; unlocking; user row of a locked device; calls below the
provider), because all calls on all targets at once are too many states. Each
has the NVM interfaces whose code differs for its calls.

- `DoneMeansDone`: a call that returns has erased, written or read what it was asked to.
- `OnlyAddressed`: contents change only as the call asks for. What a failed call left
  armed may still happen, and is attributed to the call that asked for it.
- `NoStaleCommand`: no command stays in NVMCTRL that the next store would carry out.
- `CommandsWhenReady`: no command is given while the last one runs.
- `CleanSessionsSucceed`: a session nothing disturbs raises nothing, whatever the last one left.
- `StopMeansRunning`, `UserRowModeLeft`: reset and disable, keys and mode, in the order that leaves no trace.
- `CallsEnd`: six kinds of poll loop end although the target never answers as wanted.

### Fairness

- `UpdiWorker`: `WF_vars(WorkerStep)`. The scheduler keeps running the worker thread,
  which is always runnable inside an operation (it blocks only in receives with a
  timeout). Nothing is assumed of the user, the power or the wire: faults are
  bounded, and an undisturbed wait ends by its limit, not by the target.
- `SerialUpdi`: `WF_vars(HostStep)`: the process runs. `Pause` is not fair.
- `UpdiApp`: `WF` of the GUI thread and of each step of the worker, for the same reason, and
  `SF_vars(PostDone)`: ticks may take the room in the queue again and again, but
  the firmware's queue wakes the threads that wait for room in their order. Nothing is assumed of user and timer.

### What the violated runs say

1. **`locked_by_timeout`.** `wait_unlocked` (`src/updi/updi_nvm.c:115`) drops the
   status of its poll. One lost answer takes 300 ms, more than the 100 ms the wait
   is given, so `updi_nvm_enter_progmode` returns `UpdiErrLocked` for a target that
   is not locked. Flash and Chip Erase then send the chip-erase key.
2. **`erased_after_verify`.** After 1, the read of ASI_KEY_STATUS in
   `updi_nvm_unlock` (`:161`) is lost as well: the operation fails with the erase key
   armed. The next Flash finds the target in programming mode
   (`:126`), writes, verifies, and its final reset erases the target.
   `FlashOkMeansProgrammed` does hold with one fault.
3. **`busy_port`.** `ensure_transport` (`src/ui/updi_worker.c:54`) keeps a transport that
   did not get the USART; the next operation skips `updi_session_init` and calls
   through a NULL transport.

### Seen while modelling, without a run of their own

- `OkMeansRunning` does not hold with three faults. A refused file leaves the target in programming mode; the next
  Connect does not see that (answer lost), its reset is lost and so is the echo of its NVMProg key, which
  arrives. The Connect after it finds programming mode at once (`src/updi/updi_nvm.c:126`), never uses the key, and
  its reset on leaving enters programming mode again: UpdiOk, and the application of the target does not start.
- `BadFileKeepsFlash` does not hold with two faults. The release of the reset in `updi_nvm_enter_progmode` is lost, an open target
  is reported as locked, and the unlock arms its key but misses the echo and returns (`src/updi/updi_nvm.c:162`). The next
  operation resets the target to enter programming mode, and this runs the key: a Flash whose file is refused, but also a
  Connect or a Verify, erases a target that was never locked. That somebody asked for an erase before is all that
  `ErasedOnRequest` says.
- `op_flash` and `op_verify` return without disconnecting when the file is
  refused (`src/ui/updi_worker.c:130`): the target's application stays stopped.
- `intel_hex.c:82` adds offset and byte count in a `size_t`: an address near 2^32 wraps; `ImageMatchesFile`
  and `RangeCoversFile` except it (`img.outside`). `eof_seen` (`:95`) is never looked at.
- One late byte shifts the echo into the answers of all later calls. The activation reads STATUSA and takes
  any byte other than 0 for a live link, so it need not notice; a double break empties the stream.
- A deadline that wraps (`transport_furi.c:49`) either times out at once or, if the
  thread was held up past it, waits for a whole round of the counter.
- Reference: `nvmserialupdi.py:76` takes a lost reset for a lock and erases an open target when the option
  is given (`OnlyAddressed` excepts a disturbed `start`); the start
  after unlocking does not enter programming mode; `erase` unlocks on an IOError (`:123`), but a locked target does not answer and
  the read of NVMCTRL's status indexes the empty answer, which is an IndexError; so does the SIB decoder
  (`application.py:50`) when no SIB comes; chunks that come short are joined (`:221`);
  `UpdiApplication.write_data` calls itself and nothing else (`application.py:205`).

## 4. The proofs

Each holds for every value of the constants that the assumptions admit:
`NPagesAssumption`, `DataAssumption`, `PollAssumption`, `NvmAssumption`, `WorkerAssumption` (sizes are positive, times are
naturals, sets of operations and chips are sets of operations and chips), `UpdiAppAssumption`, `TransportAssumption`,
`IntelHexAssumption` (the same for their modules), `SetupsAssumption`, `BootAssumption`, `FaultsAssumption`, `StallsAssumption` and
the `PollAssumption` of `SerialUpdi` (its targets, calls and times are targets, calls and times), and four that say more:

- `StreamAssumption`: a block and its frame fit the receive stream (at most 258 bytes and 512 in the code).
- `TimeoutAssumption`: a timeout is at least a tick (120 and 300 ms at 1000 ticks per second).
- `PowersAssumption`: what the powers of two in `IntelHex` are to each other. The provers have no exponentiation.
- `HexFileAssumption`: a dump is not empty and ends below the topmost segment. `intel_hex_write` begins with
  `cur_upper = 0xFFFF` and would give a dump that begins there no address record; `op_dump` begins at 0
  (`src/ui/updi_worker.c:230`). Images and foreign lines have the widths of the code's variables.

TLC evaluates them in every run of these modules.

**`UpdiWorkerProofs`**: any number of pages, faults, poll iterations and fuses, any set of
page contents, boot and busy times, with or without a clock.

- `TypeCorrect`: `Spec => []TypeOK`. More than types: `arg.page \in Pages`
  says that the write, verify and dump loops never address a page outside the flash.
- `EraseNeedsRequest`: `Spec => []ErasedOnRequest`. Not inductive: a state whose flash is
  untouched while a chip-erase key is armed satisfies it, and the next reset breaks
  it; so does one in the middle of `updi_nvm_erase_chip`; so does one with NVMCTRL
  busy, where a power loss tears pages. `EraseInv` rules these out. While nobody asked for an erase
  (`~asked`), the target is `Untouched` (flash old, erase key not armed, NVMCTRL not busy),
  the NVM machine is at one of `HarmlessPlaces`, outside the functions that change memory,
  the worker neither erases nor writes, and `op` is not an erasing operation; between operations the
  machine rests. Every harmless NVM action keeps an untouched target untouched (one lemma per
  function); the worker reaches the unlock only through `op \in EraseOps`, and `Start` sets
  `asked` with such an `op`.

The other four of this module rest on a stronger invariant. `SessionInv` is `TypeOK` with

- `CallInv`: while the worker waits at `wpc`, the machine is at a place of the function it called there, and
  `op` is an operation that comes there. Each step of the machine is then one of one known function.
- `ConnectInv`: how a session comes about. A target in programming mode is unlocked; `enter` that returned UpdiOk
  has seen programming mode, and what reads and writes do keeps it; the signature was read from this chip; a
  loss of power disables UPDI, which the property admits. It gives `SessionHolds` (`ConnectedMeansProgmode`).
- `PageInv`: the same as for `UpdiNvmApi`, below: a write goes to the page of the loop.
- `ContentInv`: what was erased, written and compared so far. `Erasing` says of a chip erase what `DoneInv` (below)
  says of a command; in `Writing` and the loops, the pages after `cursor` are blank; in the verify loop, those before it
  are equal to the image. Each of these would be lost if power failed while NVMCTRL works, so `ContentInv` has
  that it does not (`Calm`) wherever content is relied on. It gives `PagesAreErased`
  (`WritesBlankPages`), `EraseIsDone` (`EraseOkMeansBlank`) and `VerifiedIsEqual` (`VerifiedMeansEqual`).

The runs check the four with one and two faults; the theorems have no bound on them.

**`UpdiRecoveryProofs`**: the same constants, with hypotheses on how fast the target is. `Fits(ms, timeout)` says that
a time is over before a poll loop gives up, by its clock and by its iterations; `BootsFit` and `UnlocksFit` say it of
the start after a reset, without and with a chip erase, and the 100 ms of `wait_unlocked`, `NvmFits` of erases and
writes and the 500 and 100 ms of `wait_nvm_ready`. The constants of the runs `one_fault` and `two_faults` satisfy the
first two, those of `one_fault` all three. Without `BootsFit` TLC finds a counterexample to each theorem but `ApplicationRuns`: a target
that starts later makes `wait_unlocked` report ErrLocked although it is not locked. It finds one to `ConnectReportsTarget`
without `UnlocksFit`, and to `FlashRecovers` with a chip erase of 600 ms, alone or in an unlock, or a page of 150 ms.

- `GroundInv`, for any number of faults: a poll loop starts with no time used, a target in reset is not in programming mode, a target that
  was not locked when an operation started is not locked. The first is what makes a wait as long as the code says.
- `QuietInv`, `QuietFlashInv`: what an operation that nothing disturbs finds at each place of each function. They do not say
  which keys an earlier operation has left armed, and need not: each poll loop has `InTime`, that the time the
  target still takes and the time that the loop still has fit, whatever the reset before it ran. From
  them `ConnectTells` (`ConnectReportsTarget`) and `FlashSucceeds` (`FlashRecovers`) after any number of earlier faults, of which the runs try two and one.
- `SingleFaultInv`, for `MaxFaults <= 1`: what one fault can leave behind. `KeyInv` is its core: a chip-erase key that
  is armed while no unlock is about to run it was left there by the fault, in a target that is locked. It rests on `LockInv` (the worker
  unlocks a target that is not locked only after the fault), this on `PromptInv` (until
  the fault only a locked target refuses programming mode) with `BootsFit`. `UnlockInv` and `RefusedInv` say that
  a Flash whose file is refused calls no function that writes, `ProgrammedInv` carries what the verify has
  shown through `disconnect`, whose reset would run an armed key. From them `FlashIsProgrammed` (`FlashOkMeansProgrammed`) and
  `RefusedKeepsFlash` (`BadFileKeepsFlash`). Both are false with two faults (`erased_after_verify` and the remarks in section 3).
- `RunningInv`, for `MaxFaults <= 2` and targets of any speed: what two faults can leave behind. Its core is `SpareKeyInv`. The reset
  that ends a session enters programming mode again if an NVMProg key is armed in a target that is in it already. Such a key
  is sent only if the answer of STATUSB was lost, and stays only if the reset after it is lost, too: each
  place on this way has that as many faults are left as it takes. One more, to leave the target in programming mode
  in the first place, makes three. `AwakeInv` has the target listen once an undisturbed operation is past its
  BREAK, `StartedInv` that it has started when it is reset, and `LeavingInv` follows `updi_nvm_leave_progmode` to the
  end. From them `ApplicationRuns` (`OkMeansRunning`), false with three faults.

**`UpdiNvmApiProofs`**: the same constants, and a caller that calls anything. `ApiInv` is `NvmTypeOK` with

- `FnInv`: the place of the machine is one of the function that was called. It carries what is known
  of a call (which page, which command) to its end.
- `PageInv`: when a page command is given to a target in programming mode, the page selected is the one of the call, or,
  where the block of `updi_nvm_write_flash_page` was lost, the page buffer is empty: it was cleared before, and a clear
  that was refused shows as a write error, with which the wait ends the call. Both halves are
  needed, since the block is not acknowledged. From it `OtherPagesKept`: `Spec => OnePageAtATime`.
- `ReadyInv`: from the moment `wait_nvm_ready` has returned UpdiOk until the next command, the target is not
  busy. Without it a state just before a command with NVMCTRL busy satisfies
  `CommandsWhenReady` a step too early. From it `CommandsDoNotOverlap`.
- `DoneInv`: while a command is waited for it has been carried out, or was refused (`wrerr`), or
  the target lost power (`dis`): the wait ends with UpdiOk only in the first case. Once
  waited for, nothing is under way, so that a loss of power cannot tear what was done.
  From it `SuccessMeansDone`: `Spec => []OkMeansDone`.

**`UpdiAppProofs`**: any set of menu items, length of queue and of phases. `AppInv` is the types with

- `GuiInScene`: a handler that is under way belongs to the scene on top;
- `Lifetimes`: the thread and the timer live within the progress screen;
- `DoneOfWorker`: a `WorkerDone` in the queue is alone and is that of the thread that is there;
- `Chosen`: what is in the queue or on the screen was chosen.

From it `NothingRunsOutside` (`IdleOutsideProgress`), `DoneIsOwn` (`NoStaleDone`), `StartedAreChosen`
(`StartsAreAsked`) and `RefinesCycle`: `Spec => Cycle!Safety`, each step of the application being a step of
`OperationCycle` or a stutter. `NoStaleDone` needs the others: that no `WorkerDone` outlives the join follows from there
being one per thread and from the join coming after it. `ProgressIsForward` (`ProgressRunsForward`) needs two more,
because the worker writes phase and progress while the timer reads them: `PhaseInv`, that the
screen has not shown a phase the worker has yet to come to, also between the two assignments under the lock, and
`ShownInv`, that what it shows of the present phase is not ahead of the counter.

**`UpdiTransportProofs`**: any sizes of block, stream and scratch buffer, any tick counter and any number of faults.
`TransportInv` is `TypeOK` with

- `WantInv`: a receive never holds more than it asked for, and what it asks for fits what is left of the echo;
- `StreamInv`: while the line is `clean`, what the call has, what the stream and what the wire hold are,
  in this order, the rest of the echo and then the answer, all of it and nothing else. This is what the
  length arithmetic of `furi_send_impl` relies on without checking it;
- `IdleInv`: between two calls nothing is due; `AcksInv`: acknowledgements are off only from `acks_off` to the end of the block;
- `PromptInv`: a receive whose deadline has not wrapped does not run into it while a byte is on the wire.

From it `AnswersAreGenuine` (`AnswersBelong`) and `NeverGivesUpEarly` (`FailsOnlyIfDisturbed`). `PollsEndInTime`
(`GivesUpInTime`) needs `ClockInv`, that the tick is the start of the loop plus the time that passed, modulo the
counter. Its hypothesis `Freq = PerSecond` is the Flipper's clock; at other rates the property is false, as TLC finds.

**`HexFileProofs`**: dumps, images and files of any length, any lines, any width of address and segment. Both halves of
`HexInv` speak of what a sequence of lines means (`Holds`: the last record that covers an address says its byte), and
no induction over a file is needed, because each step adds one line.

- The writer (`WriterInv`): the lines so far mean the bytes so far (`Complete`), each of them says only bytes
  that are so (`OfDump`), and the base they leave is the segment the writer believes to be in.
- The reader (`ReaderInv`): the image, its range and its base are what the lines read so far mean (`ReadSoFar`), except
  after a sum that wrapped (`outside`), which a dump never has.

`Meant` of the properties is then shown to be this meaning (`MeantIs`). From the first half `SegmentsKept`
(`RecordsWithinSegment`) and `GoodDumps` (`GoodDumpIsWhole`), from the second `ImageIsMeant` (`ImageMatchesFile`) and
`RangeIsExact` (`RangeCoversFile`), and from both `DumpsReadBack` (`RoundTrip`), whose hypothesis, that dumps begin at 0, is
that of the property.

**`SerialUpdiProofs`**: any set of targets and of calls, any times, any number of faults and stalls, and a
caller that calls anything, also after an exception. The functions of the reference are programs that are
taken off `todo` one instruction at a time, so the invariant speaks of what is left to do. `IndInv` is `TypeInv` with

- `TodoInv`: what is left is `Guarded`, every command in it coming after a wait for NVMCTRL, or NVMCTRL being idle, with
  nothing but stores to the page buffer in between; and it is `Finished`, every command being removed
  before anything that could end the call otherwise than by an error of the wire (P:0 keeps none).
- `StaleInv`: in a call that nothing disturbs, a command in CTRLA is one that what is left of the call
  removes (`Clears`), or a wait of a write to P:3 or P:5 has just given up.

That each program has these properties when its call begins is a lemma per driver (`DriverP0`, `DriverP2` for P:2 and P:4,
`DriverP3` for P:3 and P:5), put together from what an instruction at the end of a program does to them (`PartAppend`);
the functions outside the drivers give no command. `Onward` carries it over each step, whatever the step puts in
place of the instruction it takes off. `TypesHold` has in its types that the driver selected is the one for the target.
From the others `NoCommandTooEarly` (`CommandsWhenReady`) and `NoCommandLeft` (`NoStaleCommand`).

Keys and modes take a second invariant on top of it, `ModeInv`, for properties about what a whole program does to the
target. Its parts:

- `PoweredInv`: keys are armed only while UPDI is enabled, so a session that begins after a stop finds none.
- `CallInv`: a call that nothing disturbs is at a known place of its program, with what that place knows of the
  target. `Leaving` has the four places of `leave_progmode`, `WritingRow` the twelve of
  `write_user_row_locked_device`, which may find any key armed, and `Starting` those of `enter_progmode`, of its
  handler and of `unlock`: the key is armed until the reset is released (`ArmedUntil`), and `LockedError` is raised
  only when it is gone. What is left of any other call is `Quiet`: no key, no `UPDIDIS`, no `LockedError`.
- `RestInv`: between calls, a closed session has UPDI disabled, an open one has it enabled and no key armed (`Clean`),
  and the two properties hold.

`CalmStep` says what a step of such a call can be: it goes on (`Advance`), ends the session with an exception
(`Breaks`), raises the `LockedError` that start catches, or returns. The invariant has to hold for calls after any
faults, since a call that failed leaves keys, a reset or the user row mode behind. `StopRuns` (`StopMeansRunning`) and
`RowModeLeft` (`UserRowModeLeft`) follow.

`UpdiNvmProofs` has the lemmas per layer: each target operator maps `Targets` to
`Targets`, each link call's outcomes are well typed, each combinator keeps
`NvmTypeOK`, then each function; and what is known when a wait or a command succeeds.

**Only model-checked.** For good: liveness (`OperationsEnd`, `CallsEnd`, the liveness
of `ImplementsCycle`), because fairness and ENABLED are out of the prover's reach; what the chunk loops of
`BlockTransfer` compute, which is folded over sequences, and of packs that are given by their numbers, which
TLC checks all. Not proved although a proof is conceivable: `OnlyAddressed`, `DoneMeansDone` and `CleanSessionsSucceed` of
`SerialUpdi`. They are about what the programs of all five drivers do to the memories, so that the invariant needs a
statement for every place of every one of them; the last also that the core is ready before `wait_unlocked` gives
up, which no assumption says. No module
that a theorem reaches has a recursive operator.

## 5. Not modelled

| part | why |
|---|---|
| host tests, and the emulator's byte decoder | tests; the target is modelled by its effects and the byte stream by counts, so that decoding a frame adds nothing either could tell |
| `transport_furi_set_baud` | changes a rate between operations; no behaviour of the model depends on it |
| `updi_link_st16`, `ld_ptr_inc16`, `read_data_words`, the multi-byte branch of `write_data` | reached by host tests only |
| `updi_nvm_read_revision`, `updi_nvm_is_locked`, `updi_session_write_fuse` | no caller in the application; the first two only read, the function under the third is in `UpdiNvmApi` |
| views, drawing, formatting, items of the settings scene, logging | display only |
| the reference's byte stream | a lost frame or answer is an outcome; its shifting of echo and answers is that of `UpdiTransport` |
| hex digits and the arithmetic of the checksum | a pure conversion; a record has a right sum or a wrong one |
| writing the generated table to its file | pure output |

The composition of `UpdiApp` with `UpdiWorker`, and of `UpdiWorker` with
`UpdiTransport`, is by interface and not by one specification: `UpdiApp` uses that an operation ends with a
status (`OperationsEnd`), and `UpdiLink` that a call ends in one of the outcomes that a byte stream
with nothing left over from before can give (`AnswersBelong`). A late byte, which breaks the latter,
is therefore in the byte stream's model only.
