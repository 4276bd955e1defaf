# RUNEIT: models and proofs

This directory holds a formal model of RUNEIT (`src/`), a pocket password store
on an STM32F411, and of the Python tools that trace it: TLA+ modules, the TLC
configurations that check them, and proofs for TLAPS. It is written from the C
and Python sources; the documents of the repository (`README.md`, `TESTING.md`,
the headers, docstrings) are used only as claims to be checked.

## The system

One thread (`App_Run`) polls in an endless loop. It is preempted by interrupts:
the panic button (priority 0), the tilt switch and the UART IDLE interrupt (1),
the UART DMA (2), the ADC DMA below them, and SysTick. The button and the tilt
switch call the same panic handler. Data lives in two flash sectors, everything
else in RAM.

| component | state | operations | talks to |
|---|---|---|---|
| `partition_store.c` | `s_active`, `s_have_active`, two flash slots | Init, Active, Load, Commit | `flash_drv`, `crc_drv`, `hmac`, `aes_ctr` |
| `flash_drv.c` | the flash controller | EraseSector, Write, Read | hardware |
| `session.c` | `s_key`, `s_authorized`, `s_generation`, `s_op_generation` | Wipe, Authenticate, SetNewKey, LoadTable, Save | `kdf`, `entropy_source`, `partition_store` |
| `app.c` | `g_state` and the locals of the loop | App_Run, HandleInit, HandleModeSelection, App_PanicHandler | every mode, `session`, `status_led`, `usart_drv` |
| `mode_first_meet.c` | sub-state, first entry | Enter, Run, Wipe | `session` |
| `mode_mk_auth.c` | sub-state | Enter, Run, Wipe | `session` |
| `mode_change_mk.c` | sub-state, new key, working table | Enter, Run, Wipe | `session` |
| `mode_retrieve.c` | sub-state, table | Enter, Run, Wipe | `session`, `password_table` |
| `mode_generate.c` | sub-state, table, id, name, password, pool, `s_wiped` | Enter, Run, Wipe | `session`, `adc_drv`, `entropy_pool` |
| `password_table.c` | a scratch line | ShowEntries, ShowPassword, WipeScratch | `usart_drv` |
| `status_led.c`, `led_drv.c` | `s_mode`, `s_ms`, `s_step`, `s_lit`, the pins | Show, Restore, Off, Tick | called by `app`, `entropy_source`, SysTick, panic |
| `entropy_source.c` | pool, sample buffer | GetBytes | `adc_drv`, `entropy_pool`, `status_led` |
| `adc_drv.c` | `s_block_busy`, `s_block_ready` | StartBlock, BlockReady, DMA interrupt | hardware |
| `entropy_pool.c`, `rng_health.c` | FIFOs of bits, counters | Absorb, TakeBits, DrawBits, Check | pure |
| `usart_drv.c`, `line_buf.c` | receive buffer, `s_rx_len`, `s_rx_complete`, `s_swallow_lf`, `s_tx_ready` | Send, TakeLine, WipeRx, three interrupts | hardware, `app` |
| `exti_drv.c`, `systick_drv.c` | last trigger times, milliseconds | two interrupts, Millis | calls the panic handler |
| `critical_drv.c` | PRIMASK | Enter, Exit | |
| `kdf.c`, `sha256.c`, `hmac_sha256.c`, `aes128.c`, `aes_ctr.c`, `crc_drv.c`, `uid_drv.c` | none that lasts | computations | |

Beside the firmware, `tools/` holds the trace tools. Each drives gdb over a
pseudo terminal, halts the board at the lines of a breakpoint table, reads its
memory and flash, prints or redraws a dashboard, and goes on after a pause.

| component | state | operations | talks to |
|---|---|---|---|
| `_gdb_trace_common.py` | a gdb child and its prompts | GdbSession: cmd, connect, checked breakpoints, read_*, continue_and_wait, close; pace; header and CRC readers | gdb, the ST-LINK server |
| `mk_auth_trace.py`, `other_modes_trace.py` | nothing, a stash | one handler per breakpoint, main | GdbSession |
| `mk_auth_trace_tui.py`, `first_meet_trace_tui.py`, `change_mk_trace_tui.py`, `retrieve_trace_tui.py`, `generate_trace_tui.py`, `generate_trace_tui_v2.py` | a dictionary kept between pauses | handlers, readers, panels, main; `--power-loss` | GdbSession |
| `start_gdbserver.py`, `hw_test.py`, `mock/`, `*.gdb` | none | straight-line scripts | |

What is hard in this code:

* the panic interrupt wipes static buffers that interrupted code goes on using,
  and both write `g_state`;
* a key derivation takes seconds, and a panic during it has to keep its result
  from being published, which the code does by comparing generations;
* power can fail at any step of a commit, and the flash driver reports no
  errors;
* LEDs are switched by three contexts of different priority;
* the receiver is shared by two interrupts, the panic handler and the loop;
* gdb's answers are told apart by nothing but the order of its prompts, and
  Ctrl+C, time limits and a lost link come between a command and its answer;
* a dashboard mixes values read at this pause with values remembered from
  earlier ones, over runs of a mode that end anywhere.

What makes the parts correct: the store is an atomic durable cell; a session
is open only with the key of the partition in flash and only if it was opened
after the last panic; no screen past the login runs without a session; after a
panic the device ends at a fresh login prompt with no secret left; a save or a
key change loses no entry; LEDs are dark while noise is sampled and while
there is no session.

## The modules

```
AtomicStore           what a partition store promises: one atomic durable cell
  ^ implemented by (proved, and checked)
PartitionStore        two flash slots, the commit step by step
PartitionStoreProofs

Device                shared state, main thread and interrupts; uses AtomicStore
  Session             session.c
    ModeFirstMeet  ModeMkAuth  ModeChangeMk  ModeRetrieve  ModeGenerate
      Runeit          app.c, the whole firmware; properties
        MCRuneit      values of the constants
        RuneitProofs  sessions, screens, and keys, tables and passwords in RAM,
                      under panics

StatusLed             status_led.c under the main loop, SysTick and panic
  StatusLedProofs
UsartRx               usart_drv.c (receiving) under its two interrupts and panic
  UsartRxProofs

RngHealth             rng_health.c
  EntropyPool         entropy_pool.c
    Sampling          adc_drv.c and its two callers, under panic and time
      SamplingProofs

Digest                sha256.c, hmac_sha256.c, aes_ctr.c, crc_drv.c on symbolic bytes
  Sealing             kdf.c, and what a partition is made of
    MCSealing         values of the constants
    SealingProofs

GdbSession            _gdb_trace_common.py, gdb and the board's run control
  GdbSessionProofs

BoardMemory           partitions, entries and breakpoints, shared by board and tools
  TracedBoard         the firmware line by line, as a debugger sees it
  TraceCommon         what the tools read of it
    MkAuthTrace  MkAuthTraceTui  FirstMeetTraceTui  ChangeMkTraceTui
    RetrieveTraceTui  GenerateTraceTui  GenerateTraceTuiV2  OtherModesTrace
                      one module per tool: dictionary, handlers, panels
      TraceTools      a tool, the board and the user
        MCTraceTools  values of the constants
        TraceToolsProofs
```

**AtomicStore, PartitionStore.** A slot is a header and a body, each erased,
damaged, or the half of an image; it is valid when its halves belong to the
same image (`ValidateCrc`). `Commit` is six actions: `CommitBegin` chooses the
target and the version and fixes the image, `EraseSector`, `WriteHeader` and
`WriteTable` are the flash operations, and `ReadBack` is the check of line 232.
`flash_drv.c` ignores the error flags, so each operation may do its work,
nothing, or leave the slot damaged. `PowerLoss` comes between any two of them
(in the middle of one, it is the damaged outcome followed by the loss). In
`AtomicStore` a commit is requested, may or may not take effect, and is
answered; `cell`, the durable contents, changes in one step.

**Device, Session, the modes, Runeit.** `pc` is where the main thread is, with
a step for each piece of code that the panic interrupt can neither see half
done nor tell apart from earlier or later. Statics are variables, records per
mode, and `Panic` (`App_PanicHandler`) wipes them as the code does; locals
(`line`, `derived`, `result`) survive it. `gen` is `s_generation`, `opgen` is
`s_op_generation`. Pointer arguments (`mk`, `table`) point to statics of the
calling mode and are read again at every use, as in the code. Critical sections
are one step, except that of `SaveEntry`: there `Masked` disables `Panic`, and
power can fail inside. Lines are master keys or one of a few other texts that
the prompts tell apart; a key that was zeroed becomes `NulKey`, which nobody
can type. `rx` holds one complete line. `PowerLoss` resets RAM.

**StatusLed.** Every access to `s_mode` and every LED switched is a step, for
`Status_Led_Show` in the main thread and for `Tick` in SysTick. `Restore` is a
critical section and so one step; `Panic` has the highest priority and is one
step. Of the other parts only what drives the display is kept: the kind of
state a pass is in, whether there is a session, whether the ADC converts.

**UsartRx.** The DMA stream, its transfer-complete flag, the USART's data
register and IDLE flag are variables; each access of an interrupt to the stream
or to a flag is a step, and an interrupt runs only while none of higher priority
does. `TakeArm` and `USART_Drv_WipeRx` are critical sections. The user answers
the prompts of a fresh screen with a line and an Enter that is CR, LF or both,
with pauses anywhere; a byte carries the number of its prompt, so a byte that
was left over is told from a new one. `cap` is the `dst_cap` of the call, the size
of the caller's buffer: 8 at the menu, 32 in GENERATE and RETRIEVE, 33 for a master
key. A line that does not fit is cut to `dst_cap - 1` characters (`Fitting`), as
`LineBuf_Extract` does, and the rest is dropped with the buffer. In `Device` a line
appears at once: `LineIsTyped` and `LineIsTaken` are the reason it may. Lines are not
cut there: what a prompt accepts is shorter than its caller's buffer, or decided by
its first character, so a line that was cut is refused like the whole one. Only the
classes of GENERATE may be of any length, and letters after the 31st are not seen.

**RngHealth, EntropyPool, Sampling.** The first two are operators on values: the
state of a channel's tests, a queue of bits, the choice of a draw. `Sampling`
puts them to work: `pc` is where the main thread is inside a pass of
`StepSampling` or inside `Entropy_Source_GetBytes`, and `BlockDone` is the DMA
interrupt. The bit of a draw is taken in two steps, as `fifo->head++` is a load
and a store and a panic between them brings back a head of the queue that was
zeroed. The absorption of a block is cut likewise: `Absorb` tests it and makes the
first load of `Fifo_Compact`, `Debias` makes the other load, compacts the queue and
appends the new bits, and a panic may come between. Which of `head` and `count` is
loaded first is the compiler's choice, and both are in the model. When the
difference of the two wraps, the program goes on outside its arrays: that is
`Overrun`, after which only `Reset` is left. Blocks are any sequences of `Samples`.
The health tests see the samples; a password is made of their lowest bits
(`LowBit`), and von Neumann's pairs are compared by these. A bit in a queue is the
number of the pair of samples it comes from, so that a bit used twice, or one that
never was a sample, can be told. `charset`, `drawBits` and `threshold` are what
`BuildCharset` computes. In `ModeGenerate` all of this is one step.

**Digest, Sealing.** A byte is a set of atoms, zero is the empty set and xor the
symmetric difference. What SHA-256's compression, AES and the CRC unit compute
is an atom that names all of their input, so two results are equal exactly when
the inputs are: what is left, and checked, is what this code does around them.
`Digest` holds the operators: the buffer and padding of SHA-256, HMAC, the
counter of AES-CTR, the words of the CRC unit. `Sealing` runs them: `Begin`,
`Round`, `Cancel` and `RoundsDone` are `Kdf_Pbkdf2Sha256`, with `Panic` between
any two rounds; `SetNewKey`, `Login`, `Save` and `Load` are the rest of the
session's operations, `Damage` changes a byte of flash, and `Boot` validates it.
The reference definitions are those of the standards: PBKDF2 and HMAC over a
hash that pads the whole message at once.

**GdbSession.** Python, gdb and the board. `pc` is where a tool is: in
`__init__`, `connect`, waiting in `continue_and_wait`, in a handler, in `pace`, in
`close`. `Send` and `Take` are the two halves of `cmd`: a line into the pty, and
`expect_exact` of the next prompt, whichever command it ends. `toGdb` and
`fromGdb` are the two directions of the pty; a `Reply` carries the command it
answers, which Python cannot see and the properties can. `Refused` is what
`connect` and `set_checked_breakpoint_by_line` reject. `TimeOut`, `CtrlC` and
`Raise` leave the try block for `close` (`SendIntr`, `CloseSend`, `CloseTake`,
`CloseGiveUp`, `Kill`). gdb is external and modelled by how the tools use it: it
takes a command when it is at its prompt, the comparators are in the board only
while it runs, an interrupt is acted on when it arrives, `delete` clears the
table. The board stops at a comparator, and the link may be lost for good.

**BoardMemory, TracedBoard, TraceCommon.** The board once more, this time at the lines where
the tools stop it: `m.loc` is the line the core has reached, and an action goes
from one such line to the next. It is coarser than `Runeit` between lines and
finer about what a debugger reads: salts, derived keys, headers, the table in
RAM and in flash word by word. `halted`, `stepping` and `armed` are the run
control. `Panic` comes at any line outside the critical section of a save;
`Unplug` is the power cut. `TraceCommon` has the readers of
`_gdb_trace_common.py`, and the five ways in which a handler can end.

**The tool modules.** A tool is a set of pure operators: `FreshState` is its
`fresh_state()`, `Breakpoints` its table, `ReadX` and `HandleX` give the dictionary
they leave, `AfterX` is the rest of a handler after its `next`, `PanelX` and
`Render` are what is on the screen, value by value, and `Live` is the part that is
labelled as live. What is wrong in a tool is wrong in its module: see below.

**TraceTools.** One tool is attached to a board with any of a few histories in
its flash. `BoardRuns` and `PanicButton` move the board while it is not halted;
`Stop` runs a handler, `Enter` ends a pause, `Step` and `StepOver` are the two sides
of a `next`, `PowerCut` ends a hold. Every command is answered: that is
`GdbSession`'s subject.

`PROJECT.json` maps every definition to the lines it stands for.

## What is checked

| run | question | distinct states |
|---|---|---|
| `partition_store` | two slots implement an atomic cell; the active slot is never touched; RAM and flash agree; a fallback loses one commit at most | 21 thousand |
| `app_panic` | panic and power loss anywhere: no stale session, session key opens flash, fresh login screens, nothing left on the login screen, what is printed is saved, a save changes one entry, a new key keeps the table | 2.0 million |
| `app_locked` | without a session the device ends at a fresh login prompt | 0.4 million |
| `status_led` | dark while converting and on login screens; a preempted chase is undone; a device that stays locked goes dark for good | 0.3 million |
| `usart_rx` | a line that fits the receive buffer is taken once and alone, cut only to the caller's buffer; nothing typed before a panic is taken after it; the receiver is never left off | 0.6 million |
| `sampling` | only whole blocks are absorbed; a bit is used once; no password from a channel whose samples fail the tests; a panic leaves a queue inconsistent only where nothing comes of it, and a difference below zero only between the loads of a compaction; draws are fair and the cheapest; sampling ends | 0.8 million |
| `sealing` | the derived key is PBKDF2; only the key that sealed a partition opens it, and what comes out is what went in; any changed byte fails the check of a boot; no key stream is used twice; a panic stops a derivation at the next poll | 17 thousand |
| `gdb_session` | every answer is taken for its own command; nothing is traced on an ELF that is stale at a breakpoint; a tool that ends leaves a running board without comparators; a tool that is told to stop ends | 15 thousand |
| `trace_tools` | session and flash on the screen are the board's, but at two stops of one tool; four tools show nothing of an earlier attempt; verdicts are the firmware's; the entry shown is the one printed; the cipher shown is the one saved; the partition watched is the one written; the boot does what the power-loss panel foretells | 0.3 million |

The type invariant of a module (`TypeOK`), `GuardedScreens` of `Runeit` and the inductive
invariants of the store and of the trace tools (`IInv`) are in no run: they are proved
where a module has proofs, and `TypeOK` can be checked by adding `INVARIANT TypeOK` to
its configuration.

Three more runs expect a violation. Each states a sentence of the repository's
documents that the code does not keep:

* `setup_panic`: `Session_SetNewKey` samples noise for the salt *before* it
  remembers the generation. A panic meanwhile wipes the caller's key buffer
  and is not noticed; a partition is committed under a key of zero bytes, and a
  session opens. After a power cycle no key that can be typed opens it.
* `change_panic`: the same window in a key change, and the one between the
  last comparison of the generation and the copy in `Partition_Store_Commit`:
  the working table is zero when it is copied, and an empty table is committed.
  `SaveEntry` of GENERATE masks interrupts for exactly this reason.
* `panic_residue`: `Session_LoadTable` fills its caller's buffer after a panic
  wiped it.

Six further properties are defined, do not hold, and are in no run; each shows
its counterexample when it is added to a configuration:

* `LoginIsFromThisScreen` (`MCRuneitSetupPanic.cfg` with `MaxPanics = 2`): `Session_Authenticate`
  remembers the generation when it starts, so a panic after the line was taken,
  while "Checking, please wait" is sent, does not stop the login.
* `RestoreSparesPanic` (`MCStatusLed.cfg`): a panic between the read and the
  write of `s_mode` in `Status_Led_Show(QUIET)` is overwritten, so `Restore`
  relights the display, against `status_led.h:23`. `DarkWhenItMatters` and
  `LockedGoesDark` say what is kept all the same.
* `OnlyUnreadBitsMove` (`MCSampling.cfg`): `Fifo_Compact` is said to slide the unread
  bits to the front (`entropy_pool.c:14`). A panic that zeroes the pool after `head`
  was loaded and before `count` is makes their difference wrap in 16 bits, and
  `memmove` moves nearly 64 KB, past the end of the pool. This takes a build that keeps
  the `head` it compared with 0 (`src/README.md:283` builds with `-O1`); at `-O0` `count`
  is loaded first. `QueuesStayInside` says that it cannot happen there, nor without
  a panic.
* `SessionPanelIsLive` (`MCTraceTools.cfg`): the session panel of
  `retrieve_trace_tui.py` is titled "live, every pause" (line 198), but two of its four
  handlers do not read the session (273, 303). After a panic it goes on showing the
  session that the panic has closed.
* `ActiveIsMarked` (`MCTraceTools.cfg`): line 210 of `retrieve_trace_tui.py` compares
  the text gdb prints with a number, so its `[active]` mark is always at partition B.
* `ActiveHeaderIsShown` (`MCTraceTools.cfg`): for the same reason (line 255)
  `mk_auth_trace_tui.py` shows the header of partition A under the title of the active
  partition.

What the trace tools do not do is in their modules as the code has it, and the
properties of `trace_tools` are stated around it:

* `change_mk_trace_tui.py` fixes the target partition already at the derivation
  of a login, and keeps it over a panic after the menu. If a save or another
  change is committed in between, the panels watch the *active* partition
  (124 and 132 say otherwise). `TargetIsWritten` is about runs in which the active
  partition is the one it was when the target was fixed. The stored salt of the
  login is shown as "salt (new)".
* It shows "committed" and "just written" also when the result is CANCELLED or
  STORAGE_ERROR; `handle_committed` raises when the first setup of a blank board
  reaches line 202, since no entry was remembered at line 66 (`Raises`).
* The target of `--power-loss` is fixed before the run; a save of GENERATE that
  writes the same partition hits it first. With `--power-loss 371` the table is
  complete and the boot takes the new partition, while the panel asks to log in
  with the old key. `PowerLossVerdict` is about what the CRC line says.
* `ScreenIsCurrent` leaves out the session panel of `retrieve_trace_tui.py` at its
  two stops `ret34` and `ret88` after a panic (`PanicUnseen`), and the marks of the
  active partition: the last three properties above are the claim without these
  exceptions.
* In `retrieve_trace_tui.py` `q` and an empty line are shown as an invalid id, where
  the firmware leaves. A panic between the print and line 88 shows a blank entry.
  `ShownEntryIsPrinted` and `VerdictIsTaken` except these.
* `first_meet_trace_tui.py`, `change_mk_trace_tui.py` and `generate_trace_tui.py` keep
  values of earlier attempts on the screen. `OnlyThisAttempt` is about the four
  tools that clear or replace them: `mk_auth_trace_tui.py`, `generate_trace_tui_v2.py`,
  `retrieve_trace_tui.py` up to the first id, and the key that
  `other_modes_trace.py` prints as retired.
* `generate_trace_tui.py` never resets its input panel; the save panels show
  "done" when a save failed. `SavedIsReadBack` says that the cipher beside it is
  then not that of the password shown.
* `other_modes_trace.py` prints a key as "retired" also when nothing was committed
  and it is still the key of the session.
* Only `change_mk_trace_tui.py` and `first_meet_trace_tui.py` notice a lost link in
  their main loop. The others print "Unexpected stop, continuing" until Ctrl+C.

The safety runs that pass hold *with* these windows in the model: they say what
the code does guarantee in spite of them. `LockedScreenIsClean` leaves out the
two buffers that `panic_residue` shows. It is about five things: the session key, the
first entry of a new key, the table of a key change, and the table and finished
password of GENERATE. The entry's name (`s_name`), which no wipe of `mode_generate.c`
clears, and the characters of a password in the making are no variables of
`Runeit`, and nothing is said of them. `NewKeyKeepsTable` speaks only of
commits whose screen has seen no panic, because of the first two runs.

### Bounds

* `MCPartitionStore`: two keys, two tables, versions up to 4 (`MaxVersion`
  bounds commits): every slot is overwritten, and commits that fail at each
  operation follow and precede ones that succeed. The proofs are for every
  bound.
* `MCRuneit`: two master keys in the runs that expect a violation, one in
  `app_panic` and `app_locked` (a key change then seals the same key with another
  salt, and `NulKey` is the key it must not seal); two salts; two ids where tables and saves matter, one elsewhere;
  the menu lines or those of GENERATE.
  `MaxPanics` bounds `s_generation` between two power losses: one panic is
  enough for each of the safety properties to be broken by the mutants, two
  are used for liveness. `PowerFails` switches power losses on;
  their number is not bounded, since they return to an initial RAM.
* `MCStatusLed`: a chase step of 2 ticks, 2 blocks per sampling, 2 panics; the
  loop has no other bound.
* `MCSealing`: SHA-256 blocks of four bytes of which two are the length, so that
  messages end before, at and after the place where it begins; AES blocks of two
  bytes, with tables of three of them and one and a half CRC chunks; counters of
  two binary digits that carry or wrap all round within a table, which does not
  come back to where it began; three rounds with a poll every second one; two
  versions. On the device no key is longer than a block, so that HMAC never hashes
  a key, and header, chunk and table sizes are multiples of a word, as they are here.
* `MCUsartRx`: a buffer of 4 bytes (64 on the device), lines of up to 3 characters,
  callers with room for one character and for three, one panic anywhere. So some
  lines fit the receive buffer and some do not, some of those that do are cut for
  their caller, and a full buffer competes with a pause. A line is sure to fit the
  receive buffer when it is two characters shorter: its own Enter and the LF of
  the Enter before it may be there too. `overlong` keeps the others, and the rest of
  their screen, out of `LineIsTyped` only.
* `MCSampling`: samples 0, 1 and 2, of which 0 and 2 have the same lowest bit, so a
  pair may differ and yield nothing; blocks of two samples, four rounds. The tests
  are scaled to two equal samples in a row, which across the end of a window the
  repetition test alone finds, and to a window of 3 in which the first sample comes
  back, which the adaptive test alone finds. A channel can fail in any block and in
  its first or second window. One panic, a timeout of one millisecond: bits are left
  over between rounds and used after the next compaction, a draw is rejected and
  repeated, a queue is compacted with a panic between the loads, and a block is late
  at each place that waits. The character sets, of 3 and 6, take draws of two and of
  three bits, the odd draw asking more of one channel, and both reject some; a
  password of two characters from the larger set takes more rounds than there are.
  `DrawBits` itself is checked for every range from 1 to 256. Queues hold 8 bits and
  do not fill up: dropping bits from a full queue is in the model but not exercised.
* `MCGdbSession`: two breakpoints, two reads per handler, two stops: a stop while
  a handler reads, one while nothing is expected, and one during `close`. The
  proofs are for every number.
* `MCTraceTools`: two keys; four entries of which id 2 is saved, and a window of
  three; lines at the id prompt that are ids, too large, too long, and ways to
  leave; draws 0 to 3 over three characters, so that one is rejected; a password of one
  character, a table of two words with a power loss after each; four operations
  and one panic per trace. The flash starts blank, used once, used with an
  older or a spoilt other slot. Tools are attached one at a time and each sees
  the operations its breakpoints are about.

The menu needs no session-less bound: the user types any line at any time.

### Fairness

`FairSpec` of `Runeit` is weak fairness of the main thread: the processor
executes, interrupts are short and bounded in number. The user, the button and
the power supply are never assumed to do anything. `FairSpec` of `StatusLed`
adds weak fairness of a running tick and of a conversion (the ADC hardware
finishes a started block), and strong fairness of the main thread, because a
tick interrupts it again and again and each time ends. `FairSpec` of `UsartRx`
serves interrupts, lets the line fall idle and the LF of a CR LF arrive (weak),
and runs the main loop, which is only ever preempted for a moment (strong); the
user need not type. It also takes `HandleInit`, which reads and checks both
partitions, to outlast two bytes on the wire (`Quiet`). `FairSpec` of `Sampling`
runs the main thread and the clock (weak); the converter need never finish a
block and the user need do nothing. `Spec` of `GdbSession` is weakly fair to
Python alone: neither gdb, nor the board, nor the user pressing Enter or Ctrl+C
is ever assumed to do anything, so `StopEnds` rests on the time limits of the
code. `TraceTools` has no fairness and no liveness.

## What is proved

`PartitionStoreProofs`, for any number of keys and tables and any version bound,
from `MaxVersionAssumption` and the assumptions on the constants of
`PartitionStore` that TLC evaluates in its run:

* `TypeCorrect`: types.
* `Invariant`: `IInv` is inductive. The three safety properties are not
  inductive alone: that a commit does not touch the active slot needs that the
  slot it aims at was derived from the `s_active` it still sees (`CommitAims`),
  and that RAM and flash agree after the read-back needs what every valid slot
  can be (`SlotsExplained`): the active one, its predecessor by one version, or
  the image being written.
* `ActiveIsNeverTouched`, `FallbackDistance`, `RamMatchesFlash` follow from it.
* `Refinement`: `Spec => AtomicSpec`. The cell is the contents of the slot that
  a boot would choose; the step that completes the image in flash is the one
  that changes it, and every other step maps to a step of the cell or to a
  stutter. A version of a valid image in the target equals the image's exactly
  when the image was written, because the predecessor that was there has a
  smaller version.

`RuneitProofs`, for any keys, salts, ids, passwords and number of panics, with or
without power losses:

* `OpenSessionIsCurrent`: an operation that a panic preempted never opens a
  session.
* `SessionKeyOpensFlash`: the session's key is that of the partition in flash,
  or a commit with the derived key is about to open.

Both follow from `SessionInv`, which adds what the steps of a login, of a key
change and of a save know on their way: `OperationKey` says which key was
derived, is being written, or has just taken effect, and `OpenKey` narrows the
window in which the key in RAM and the one in flash differ to an applied commit
that is not yet answered. Most steps touch none of this (`Elsewhere`), so that
each of them needs only its frame.

The second half of the module is about the screens:

* `ScreensAreGuarded`: no pass past the login screens starts without a session,
  unless a panic has already set `g_state` back.
* `LoginScreensAreFresh`: a login screen that goes on waiting was entered after
  the last panic, or is left in the next pass.

The invariant (`ScreenInv`) says, for each place in the loop, that the screen
of the pass is the previous one and is fresh, or that `g_state` is `INIT`. It
holds in spite of the unlocked writes of `g_state` because no mode ever sets it
to a login screen (`ScreenStep`): only `HandleInit` does, and that is a change
of screen, so the next pass enters it anew.

The third part is about the data, and uses the two invariants above:

* `RuneitTypes`: types, in particular that nothing is sealed without a key.
* `LockedIsClean`: when a login screen polls, the session key, the first entry of a
  new key, the table of a key change, and the table and password of GENERATE are
  gone from RAM.
* `PrintedSaved`: a password is printed as saved only if it is in flash under
  that id, or is blank because a panic wiped it in between.
* `SaveOneEntry` and `NewKeyTable`: what a commit may change, as action
  properties: a save the entry of the id that was chosen, which becomes the password
  that was made, and nothing else; a key change, no entry.

`TableInv` follows the data from one static buffer to the next, with a clause for
each stretch of the code on which it must not be lost. `Places` and `Passes` tie
the code to the state of the pass that calls it. `Locked`, `Setup` and `Cleaned`
say which buffers are empty where no session is open: a mode can be left with
a table in its buffers only by a panic that empties them, or by its own end, which does too.
`Saved` is why the table of GENERATE, loaded many lines of input
before the commit, is still that of the flash: nothing else commits while the
mode is on, and a panic that empties the table also sets `wiped`, which
`SaveEntry` reads with interrupts masked. `Typed` does the same for a key change,
as long as the screen has seen no panic; a panic breaks it, which is what the runs
that expect a violation show. It needs that an absent table is no table
(`NoTableAssumption`).

`StatusLedProofs`, for any length of a chase step, number of blocks and of panics:

* `StaysDark`: no LED is on while the ADC converts or a login screen is passed.
* `TickForgetsNoLed`: outside a tick only the LED of the chase that `s_lit`
  remembers can be on.

When the main thread writes a dim mode no tick is under way, and none lights an
LED before a mode that is not dim is written (`Dim`). `Shown` follows `Show` from
that write through the LEDs it still has to switch off.

`UsartRxProofs`, for any buffer of two bytes or more, any sizes of the callers' buffers,
any length of the lines and any number of panics, from the assumptions of `UsartRx`:

* `ReceiverTypes`: types; nothing is ever written past the buffer.
* `LinesAreTyped`: a line that fits the receive buffer is taken once and alone, as
  much of it as the caller's buffer holds.
* `NothingOldTaken`: no character from before a panic is in a line taken after it.

`Rests` says that from the completion of a line until it is taken the stream is
off and the length is that of the buffer, in spite of an interrupt in the middle;
`Genuine` that no byte of before the panic is in the buffer or on the wire; and
`Text(k, t)` that the buffer is, character by character, the LF that may be left of the line
before (`k`), what was typed, and as much of the Enter as came (`t`). `RxMax > 1`
is assumed: a line of no characters, too, needs room for itself and its Enter.

`SamplingProofs`, for any samples, any size of queues and blocks, any cutoffs and windows, any
charset that `BuildCharset` can give, and any number of panics:

* `BlocksAreWhole`: a block is read only when the converter filled it for this
  caller and channel.
* `EachBitOnce`: the bits of a password are distinct bits of the noise of this
  sampling, in order.
* `OnlyHealthyNoise`: no password comes of a channel with a run of `RctCutoff` equal
  samples or a window with `AptCutoff` matches. It is about the samples, which is
  what the code tests, and not about the lowest bits, which it does not. `Describes`
  says what the running counters of a channel know of its noise, sample by sample.
* `QueuesInside`: no draw reads past its queue while no panic came; a compaction
  loads a count below its head only when a panic came between the two loads and
  `head` was the first of them. `Need` is what a draw begun still takes, and why
  enough was there when it began.
* `FairAndCheap`: for every range, `DrawBits` ends with a fair number of bits
  that costs least.

Three of these rest on what recursive functions compute (the bits of a block, the
value of a draw, the loop of `DrawBits`). `Recursion` shows, from the well-founded
order of the numbers, that a function defined step by step exists and takes its
steps; `UpTo` is induction for sets.

`SealingProofs`, for every length of the hash's block, its length field, a digest, a
cipher block, a word of the CRC unit and a chunk, any number of rounds and any poll,
any keys, salts and tables, and any bound on the versions:

* `SealingTypes`: types.
* `DerivationIsPbkdf2`: the derived key is that of RFC 8018 over the MAC of RFC 2104
  over a hash that pads the whole message at once.
* `OnlyItsKeyOpens`: a session is open only with the key that sealed the partition;
  a login is refused only for another master key; what a load gives is what was
  sealed, and it refuses only when flash has changed.
* `BootSeesDamage`: a boot validates a partition exactly when no byte of it has
  changed.
* `NoByteServesTwice`: no two bytes of a sealed table are under the same key stream.
* `CancelsPromptly`: a derivation computes no more rounds after a panic than there are
  between two polls.

The assumptions are those of `Digest` and `Sealing`. `BytesAssumption` takes from the code that a
key is never longer than a block (a master key has at most 31 characters, a block
64 bytes), so that `HmacSha256_Init` never hashes the key first. `CounterAssumption` says that a table is used up before the
counter is back where it started, after 256^16 blocks on the device.

Most of the module is about the loops of the code. They are folds, and `Turns` is
what one turn does. `Absorbed` and `CutInto` say that `SHA256_Update`, however the
message is cut, has compressed its whole blocks and buffered the rest; with the two
cases of padding (the length field fits behind the rest or needs a block of its own)
`SHA256_Final` gives the reference hash. `PartsAre` is the same for the streamed MAC,
`AllRounds` for the rounds of PBKDF2. `SameHash` and `SameMac` go the other way:
equal digests are of equal messages, padding included. `ChunksAreWhole` says that
a checksum fed in chunks is that of the whole, and `HeaderByte` and `BodyByte` find every
byte of a partition among the words it is fed, so a changed byte shows. `ThereAndBack`
is that AES-CTR undoes itself; `CountUp` counts the increments of a counter with carries,
and `StreamDiffers` follows from counters that differ. The invariant of the operations
is then short: `Deriving` is where PBKDF2 stands after `i` rounds, and `Kept` that
flash is what the last commit wrote or does not validate, and that the header in RAM and
the session are of that commit.

`GdbSessionProofs`, for any number of breakpoints, reads and stops, from
`BoundsAssumption`:

* `EveryAnswerInStep`: Python takes every answer for the command that asked.
* `NothingTracedOnStaleElf`: a tool that gets past its breakpoints has none at a
  line where the ELF is not the source.
* `BoardIsLeftRunning`: a tool that ends leaves the board running without a
  comparator, unless `close` was cut short.

The first two follow from one invariant. `InStep` says that at most one command is on
its way in either direction and which: while Python waits, the pipe to gdb, gdb
itself, or the pipe back holds exactly the command awaited. This is what the
echo would break and what turning it off before the first wait establishes.
`Script` says that while breakpoints are set the commands still to be sent contain a
check of each line that is stale, so a tool that gets to its main loop has none. A
`close` gives all this up: it sends into a pipe that may hold a prompt of the past,
and that invariant claims nothing there, where the code takes no answer for more
than a prompt. The third theorem has an invariant of its own for that (`Closing`):
when `close` begins, at most one prompt is under way that is not its own. It waits
four times and has sent its last command by the fourth, so to be deceived
throughout it would need one prompt more than there can be.

RUNEIT's other modules use `AtomicStore`, so what TLC finds of them holds for
the two slots as far as the bounds go.

`TraceToolsProofs`, for every tool, any keys, table and window sizes, any lines that
can be typed, any charset and length, any words of `--power-loss`, and any number of
operations and panics, from the assumptions of `BoardMemory` and `TraceTools`:

* `Invariance`: `IInv` is inductive.
* `ScreensAreCurrent`: at every pause the session and the flash on the screen are what
  the memory and the flash hold, but for the session panel of `retrieve_trace_tui.py`
  at the two stops that do not read it, after a panic.
* `AttemptsAreSeparate`: the four tools of `OnlyThisAttempt` show nothing of an earlier
  attempt.
* `ShownEntriesArePrinted`: the entry a retrieval tool shows is the one printed.
* `SavesAreReadBack`: the cipher read back is that of the plaintext shown if and
  only if the save succeeded.
* `TargetsAreWritten`: the partition watched through a key change is the one
  written, as far as `TargetIsWritten` claims it.
* `PowerLossVerdicts`: the verdict of the power-loss panel is what the boot does.
* `VerdictsAreTaken`: the verdict of a tool is the branch the core takes, an
  action property.

`IInv` has three parts besides these properties. `BoardInv` is about the board alone
and says what holds at each line: which mode a line belongs to (`Places`), that an
open session has the key of the active partition and that a panic the mode has not
seen yet has closed it (`Sessions`), what a derivation has computed (`Keying`), that
the image being written is newer than the active one (`Committing`), that the name
typed in a run is in no partition before its save (`Naming`), and which table a
retrieval reads (`Reading`). `Naming` is why a cipher tells whether the save
succeeded: an entry that was there before has an older name. `Control` is the
hand-over between gdb and the core: the breakpoints armed are those of the tool, the
core stands still only at one of them, and a `next` ends on the line after the one it
was given on. It is needed because a `next` crosses breakpoints and because the lines
a handler reasons about must be those it is called at. `ToolInv` says for each tool what
its dictionary knows of the board at the lines where a handler left it there, until
the next panic (`calm`) where a panic changes what was read.

The steps of the board are summed up once (`Moves`: from which line to which, and
which fields change), so that each tool's part is proved against those moves and not
against every action. `UpdatedLive`, `ReadDoes` and their like are the lemmas about
the readers: what they overwrite, what they keep, and that a dictionary read twice is
still live. `OtherParses` and `RetrievalParses` show that the copies of `ParseId` in
two tools compute the id the firmware does, for any line of characters; the two
digits of an id are the only recursion they need.

The assumptions: `BoardAssumption` gives the sizes that the code has (a window is not
larger than the table, an id typed for an entry is in the table, there is a key).
`NoneAssumption` and `NoRecordAssumption` say that the value standing for "nothing" is
none of the values it is compared with.

Only model-checked: all liveness, and with it `ENABLED`, which is out of the prover's
reach: `LockedEndsAtLogin`, `LockedGoesDark`, `LineIsTaken`, `SamplingEnds` and `StopEnds`.

## What is left out

* Versions wrap at 2^32 commits; the model stops before.
* A wipe or a `memcpy` is one step: a table half copied when the panic comes is
  not a value of its own. The same for the characters of a password drawn one by
  one. RAM that keeps its contents over a short power cut is not modelled.
* HMAC, CRC and AES are perfect: a tag verifies only under the key and contents
  it was made for, and a checksum, of 32 bits on the device, only over the words
  it was fed. In `Digest` the compression function, the AES rounds and the CRC
  polynomial are names for their inputs, digests are not cut to AES keys, and the
  synthetic IV, a MAC, is any of a few counter blocks. That two versions of a
  table get different IVs is not checked.
* The tilt switch shares the panic handler with the button and can be preempted
  by it; the two nested are taken as one.
* Backspace in a line, and what a user types before a login screen is shown.
* Output is not modelled; where the loop waits for the transmitter it is just
  slow.
* In `ModeGenerate` sampling is one step that ends with a password or fails; in
  `Sampling` there are no prompts and no save. Whether the pool of `GetBytes` has
  enough is a choice. Blocks are any samples, equally possible or not: how biased the
  lowest bits of noise may be that passes the tests is a question of statistics, and
  in no model. `GetBytes` stores
  bytes before a later round can fail, where its header promises to leave the
  buffer alone; its caller does not look at the buffer then, and the models do
  not hold it.
* After a panic inside a draw the counts of both queues can wrap, and the draws
  go on until the password is long enough. On the device the head would have to
  be near the end of the array already for them to read past it, which takes
  dozens of rejected draws in a row; the model's queues are long enough that it
  does not happen, and what is read is never used (`NoiseIsUsedOnce`).
* In `StatusLed` blocks do not time out, and the login takes longer than a block.
* Of the trace tools: layout, colours and texts; the statistics of a block of
  samples (mean, bias, yield); options other than `--power-loss` and `--auto`; a
  second Ctrl+C inside `close()`. A tool is attached while the board waits at a
  login or at the first setup, and Ctrl+C is only in `GdbSession`. The answers to
  `condition` commands are not checked by the code; they are taken to succeed.
  `ValidateCrc` run by gdb uses the CRC unit of the board that it halted, which is
  in no model.
* `start_gdbserver.py`, `hw_test.py`, `mock/gen_mock.py` and the gdb scripts are
  straight-line scripts without state.

## Plan

Done: the store and its proofs; the session, the modes and the loop under panic
and power loss, the display, the receiver, the sampling and the tools' session
with gdb, the derivation of keys, the sealing of partitions and the trace tools, each
with proofs of its safety properties.

Next, in this order:

1. `ExtiGuard`: the debounce guards over a wrapping millisecond counter.
2. `LineBuf` with backspace against a reference definition; transmission.
