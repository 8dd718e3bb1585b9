# PicoRVD in TLA+

PicoRVD turns a Raspberry Pi Pico into a GDB server for the CH32V003, a small
RISC-V part with no hardware breakpoints. This directory models the parts of it
that keep state about the target or about GDB and can get that state wrong:
software breakpoints by flash patching (`SoftBreak`), the GDB session that drives
them beside a hart that runs on its own, the byte machine of the packet link and
the page cache of a load (all `GDBServer`), and the caches and memory accesses of
`RVDebug`. Paths below are relative to the repository.

## The system

| Component | State it keeps | Operations | What makes it correct |
| --- | --- | --- | --- |
| `src/PicoSWIO`, `Bus` | PIO configuration | get/put of one debug-module register | bit timing; atomic for its callers |
| `src/RVDebug` | `prog_cache`, `reg_cache`, `cached_regs`, `dirty_regs` | halt, resume, step, reset, registers, memory, debug programs | the application never notices that debug programs ran on its hart; a skipped upload is already there |
| `src/WCHFlash` | the flash controller's registers | wipe page/sector/chip, write, verify | a page holds what was written, whatever the size of the blob |
| `src/SoftBreak` | `halted`, the breakpoint table, `flash_clean`, `flash_dirty`, `break_map`, `flash_map`, `dirty_map` | halt, resume, step, set/clear breakpoint, patch/unpatch | device flash is the program while halted, the program with exactly the set breakpoints while running |
| `src/GDBServer` session | `state`, the halt-poll timer | connect, disconnect, packet handlers, break, poll | GDB's picture of the target (stopped or not, breakpoints, memory, registers) is true |
| `src/GDBServer` link | `state`/`next_state`, checksums, `recv`, `send` | one byte in, one byte out per update | every packet is answered once; a corrupted one is asked for again |
| `src/GDBServer` page cache | `page_cache`, `page_base`, `page_bitmap` | put byte, flush, erase | every byte of a load reaches its page, once |
| `src/Packet` | buffer, cursor, error flag | take/put of hex, blobs, strings | what is parsed is what was sent |
| `src/Console` | line buffer | UART commands on RVDebug, WCHFlash, SoftBreak | does not disturb a GDB session |
| `src/main.cpp` | none | superloop: USB, `GDBServer::update`, `Console::update` | one call at a time; no interrupts touch this state |

`main` runs a superloop on one core. `GDBServer::update` handles at most one
byte per call, and the call that completes a packet runs its whole handler:
the debugger is sequential, and the only concurrency is with the target's hart,
with GDB, and with the connection coming and going. `GDBServer` calls
`SoftBreak` for halt, resume, step, reset and breakpoints, `WCHFlash` for loads
and `RVDebug` for registers and memory. `SoftBreak` calls `RVDebug` and
`WCHFlash`; `WCHFlash` streams data through debug programs run by `RVDebug`.
Nothing is called back: a stop of the hart is found by polling.

Hard behaviour:

- SoftBreak keeps three page maps, two shadow copies and a table that must agree
  over any sequence of inserts, removals, steps, resumes, resets and loads.
- The hart halts by itself while GDB may send Ctrl-C and the connection may drop.
- `SoftBreak::halted` and the caches are beliefs about the target which the code
  never checks against it.
- Operations report failure that callers ignore: `Z0` answers OK whatever
  `set_breakpoint` returned, `resume` is refused while ALLHAVERESET is set.
- `CHECK` is an empty macro, so a violated assumption goes on silently.
- A request may be damaged, resent, or meet the reply of its own first copy; bytes
  that arrive while a reply goes out are dropped.
- A load passes through a one-page cache whose test for repeated bytes looks at the
  wrong bits; a request of it may come twice, and the Pico may restart in it.
- An access to memory is up to a few hundred operations on a debug module that keeps
  what the last one left in it.

`PROJECT.json` lists the hazards line by line, with the properties against each.

## Modules

| Module | Models |
| --- | --- |
| `Target` | the device: flash, hart, pc, EBREAKM, HAVERESET; one operator per `RVDebug` run-control method and for page writes; the hart's own steps |
| `SoftBreak` | every method of `SoftBreak`, over `Target` |
| `BreakSession` | composes both with `GDBServer`'s session, the console, restarts and a hart that runs; properties |
| `DebugContract` | abstract: a target that has breakpoints, with no flash patching at all |
| `RegCache` | `RVDebug`'s register and program-buffer caches; properties |
| `FlashCache` | `vFlashErase`, `vFlashWrite`, `vFlashDone`, the page cache, and the flash; properties |
| `FlashContract` | abstract: a load changes its bytes in one step |
| `GDBLink` | `GDBServer::update` byte by byte against GDB over a line that damages packets; properties |
| `LinkContract` | abstract: requests are carried out once and answered once |
| `DataPackets` | packets `m`, `M`, `p`, `P` down to single debug module operations; properties |
| `FlashStream` | `wipe_page` and `write_flash`: the Pico's loop, the program on the target and the flash controller; properties |
| `BreakSessionProofs`, `RegCacheProofs`, `FlashCacheProofs`, `FlashStreamProofs`, `GDBLinkProofs` | theorems about the module each is named after |
| `GDBLinkExact` | theorems about `GDBLink` over a clean line, and over any |
| `DataPacketsProofs`, `DataPacketsSafety` | theorems about the arithmetic of `DataPackets`, and about its behaviours |
| `MCBreakSession`, `MCRegCache`, `MCFlashCache`, `MCGDBLink`, `MCDataPackets`, `MCFlashStream` | small instances for TLC |

The program has one thread and its parts meet only through calls, so each model
takes from the others what its calls do: `BreakSession` sees a load as one write
of a page, `FlashCache` shows that a load is that, and `FlashStream` that a page is
written whole where `FlashCache` writes it in one step; `BreakSession` has one action
per packet, `GDBLink` shows that a packet is carried out once.

### Target and SoftBreak

Flash is a function from a few tracked halfword addresses (`Cell`, real
addresses, so that pages, limits and alignment are computed as in the code) to
what they hold: a halfword of some build of the program (`Code`), `c.ebreak`, or
half an `ebreak`. The pc and breakpoints range over `Site`; `SizeOf` is the
breakpoint size the host uses at each. The shadow buffers have the same shape.
The page counters are arithmetic modulo 256 (`Inc`, `Dec`), as `uint8_t`.

`halted` is SoftBreak's own flag and `hart` the truth. An operator of
`SoftBreak` is one call: for `resume`, the step, the search of the table, and on
the other branch the patching of every dirty page and the resume of the hart.
The busy-waits in `RVDebug` have no interleaving anybody could observe, so a
call is not split. `CHECK(halted)` does nothing and is not a guard.

`RVDebug::step` and `resume` return early while ALLHAVERESET is set; `StepTargets`
and `RvdResume` keep that. A stepped instruction may go anywhere, but an ebreak
with EBREAKM set stops where it is. Without EBREAKM an ebreak is an exception of
the program, and the hart goes on (`HartExecute`).

### BreakSession

`mode` is `GDBServer::state` with the states that receive and send a packet
folded into `idle`: in them `update` touches nothing below the link. Actions are
named after the handlers. `handle_Z0` stands for Z0 and Z1, `handle_z0` for z0
and z1, which run the same code; `MonitorReset` also for `vKill`. `handle_D`, `H`,
`R`, `?`, `!` and the queries change no modelled state. `Poll` is the timed check
of ALLHALTED, `Break` is Ctrl-C; both are separate from `Hart`, so the hart may
trap before, between and after them. `prog` is the program last loaded and
`hostBps` what GDB has been told is inserted; they are history, not code.
`WritePage` is a load of one page of one build, from erase to done.

`PicoRestart` is a power cycle of the debugger: every variable of `SoftBreak` is
back at its initial value, the target keeps flash and pc, and the hart may be left
running and EBREAKM either way. `ConsoleHalt` is `soft_halt` on the UART in any
mode, with GDBServer not told; `ConsoleResume` is `soft_resume`. On a target that
SoftBreak has halted, the console's `reset` and `soft_step` have the effect of
`MonitorReset` and `handle_s`.

The specification `Spec` is a host with discipline, and each piece of discipline
is there because the code needs it and does not check it:

- breakpoints lie within one page, do not overlap, and are not at the very end of
  the flash (`LayoutInPage`); page maps follow the first byte of a breakpoint;
- no more breakpoints than the table has slots, and fewer than 256 edits of a page
  between two resumes (`HostMax`, `DirtyMax`);
- a page is loaded only when SoftBreak has no copy of it in use (`LoadPage`);
- the session ends, or is killed, with GDB's breakpoints taken out
  (`Disconnect`, `handle_k`);
- the Pico restarts only while no ebreak is in the flash (`Restart`): no record of
  one survives, so there is nothing the code could do;
- `soft_resume` is given only with no session open (`ConsoleResume`).

The first two are the assumption `Discipline` of the theorems. `Reload` and
`DropConnection` are undisciplined steps, with a run each.

### DebugContract

Six variables: the run state, the pc, the breakpoints, the memory, and the two
flags that say whether breakpoints and stepping work at all. The refinement maps
the contract's memory to the device's flash while SoftBreak is halted, which is
what GDB then reads, and to the program while it runs: the patched flash must be
invisible in the one case and have exactly the effect of the breakpoints in the
other. A halted hart that SoftBreak has not noticed is the contract's `stopped`.

### RegCache

One action per operation on a halted hart. `RunProgram(p)` is `load_prog`, the
caller's setup of argument registers and `run_prog`, which every caller in
`RVDebug` and `WCHFlash` performs together; it overwrites what the program that is
really in the buffer may overwrite, so a wrong `prog_cache` shows as a register
nobody saved. `app` is history: the registers the application should have, as it
and GDB wrote them. `WriteReg` keeps a discipline: GDB writes a register only
while no debug program has overwritten it during this stop; later writes of P and
G are undone by the resume. `Restart` keeps another: the Pico starts over while the
registers are the application's. The saved copies are in its own memory, so a restart
in the middle of a stop, after a debug program, loses them (`PicoRestart` alone).

### FlashCache and FlashContract

Bytes at real addresses; the byte a build `b` has at `a` is `<<b, a>>`, an erased
byte is `Blank`, and a byte programmed over another is `Garbled`. An erase runs
block by block (`EraseStep`, with the unit `flash_erase` chooses) and a write
packet byte by byte (`PutByte`, `put_flash_cache`), because a restart of the Pico
may fall between any two; a handler still ends before the next packet.
`put_flash_cache` tests `page_bitmap & (1 << page_offset)`, an `int` shift, and sets
`1ull << page_offset`: `Tested` is the set of bits that test may look at. From
offset 31 on it is not the bit that is set, and for 32 and more it is undefined,
so it is a choice between the outcomes the build can produce.
`Written`, like `WritePages` of `Target`, takes a page write as exact. Above
`write_flash` a comment says it is not, for one word after a start of the Pico (see
FlashStream); what `LoadIsExact` and the refinement show is that each byte is handed to
`write_flash` in its page, after the erase and never over another.

The host follows the protocol: erase all blocks, write ascending addresses in
packets cut anywhere, done. Any request is sent again at will (`SendAgain`), as
when its answer was lost. The discipline is that a load is not broken off by a
closed connection: the page cache survives one (`DropConnection`, in
`InterruptedSpec`). A restart may break it off anywhere.

`FlashContract` has two variables: the memory, and the blocks of the open load.
`Finish` writes every byte of the load in one step; `Abandon` leaves its blocks
with any bytes and the rest alone.

### GDBLink and LinkContract

An action is one turn of `main`'s loop in one state of `GDBServer::update`: at most
one byte in and at most one out. In the states that send, the byte that arrives
meanwhile is lost (`Overlook`). Checksums are modulo 256; escapes, hex digits and
the `0xFF` that a bad digit leaves are computed as in the code. A buffer that will
be cleared before it is read again is shown empty, which merges states and
changes no behaviour.

`GDB` is external and modelled as the protocol has it: it frames and escapes a
request, waits for `+`, resends on `-` or after a timeout (at most `Retries` times),
takes a reply whose checksum is right, may press Ctrl-C while a `c` is
outstanding, and may close the line at any point. It opens the line again once the
Pico has seen it closed. A request on its way loses a byte or has one changed, at
most `Faults` times. Replies arrive whole, except in `NackSpec`, where GDB refuses
one. With two copies of a request outstanding and a `+` inside its body, a copy
can be carried out twice, since RECV_ACK takes the body's `+` for an
acknowledgement and goes back to IDLE inside the copy; one resend cannot do it.

Two named assumptions say what the code relies on. `RepliesArePlain`: no reply holds
a character that would be escaped (`$`, `#`, `}` or `*`), which is so of every handler's
answer, and without which SEND_PACKET_ESCAPE would be entered and not left. `NoRefusal` is discipline:
where requests are damaged or sent again, none of them, and no damaged byte, is a
`-`. RECV_ACK takes any `-` for a refusal, also one in the body of a copy that was sent
again, and then goes the way of the run `nack`. GDB does send such bodies (`Hc-1`), so
this is a limit of the code and not a promise of GDB; it matters only when a copy
meets the reply of the first one, and on a line without damage and resends
(`CleanLine`) nothing is assumed of the requests.

`LinkContract` is an exchange: closed, ready, asked, running or answered, ready.
`handled` is history, the bodies `handle_packet` was given since GDB's request; in
the refinement any list but the request itself, once, is a phase the contract
does not have.

### DataPackets

`script` is the list of debug module operations an access still has to make, as
the functions in `RVDebug.cpp` make them in order; one action makes one. So a
restart can fall between any two, and what an access leaves in the debug module
(autoexec, the last command, the program, an exception) meets the next one.
A byte is named after where it came from and no code looks at its value, so a word
is four names, a shift by 8 moves them, and two names or'ed together are `Mixed`:
one behaviour stands for every contents of the memory. The debug module is external,
modelled as far as `RVDebug` relies on it: an access of DATA0 with autoexec on
repeats the last command, and nothing runs while an exception is pending.

`handle_m` and `handle_M` are one turn of their loops. `take_blob` is modelled by what
it does, which is to fail (of a blob longer than the text before it in the packet the
first bytes are still filled in; the bounds stay below that); `InBytes` keeps the
requests of `Spec` off that path. `CallSet` and `CallSetBlock` are the calls
`run_tests` makes, which are the only ones that reach wide and block writes with data.
The status of an M is not modelled: `handle_M` sets E01 when the parse failed, and
`handle_packet` replaces it with E00. Requests stay inside RAM: an access outside
raises an exception on the target and leaves CMDER set, as
`src/test/picorvd_tests.cpp:131` and `:140` expect, and `handle_packet` clears it only
where PARANOID is defined.

### FlashStream

Two programs run side by side. The Pico's `step` is its place in the loop over the
pages to wipe and then in `write_flash`; `hart` is the place of the debug program on
the target, `prog_flash_command` or `prog_write_flash`, up to each of its busywaits.
They share DATA0, the pointer in `a2` and the busy bit. The Pico counts pages and
words, the program looks at the low bits of `a2` only, and once autoexec is on
nothing but a write of DATA0 starts the program, so the two stay in step only because
`write_flash` waits after each word. A comment at `src/src/WCHFlash.cpp:313` considers
waiting at the end of a page instead; that is the mutant `WaitAtPageEnd`, and it loses
words under an unconstrained schedule of the two.

Before the words, everything else goes through DATA0 too: the two controller registers
and what `load_prog` saves (`Setup`, which leaves `Other` there), then the program's
arguments one by one (`SetGpr`, `GprWord(10)` to `GprWord(15)`). That matters for the
comment at `src/src/WCHFlash.cpp:231`: "FIXME somehow the first write after debugger
restart fails on the first word", with 0x00010040 in its place. That is FTPG and STRT,
the value of `set_gpr(14)`. The order of the code's steps does not lead there: after
x14 come x15 and the blob's first word itself, and the program is started after that.
So it is modelled as what the comment reports and not explained: `fresh` says that
no word was moved since the Pico started, and while it is, the program's load from
DATA0 may find `BadWord` (`Moved`). The properties say what this costs: `Leaves` allows
that word in the first cell of the first write after a start (`first`) and nowhere
else, and every other write and word is exact.

The i-th word of the n-th blob is `<<n, i>>`, so a word of another blob or another
place shows. A write starts in whatever the last one left: the controller's page
buffer and address survive a restart of the Pico (`Restart`), which may fall between
any two steps; `Lock` is the console's `lock_flash` between two writes. The discipline
is `Padded`: a blob is whole pages or a part of one. `write_flash` compares the index
within the page with the size of the whole blob, so a longer blob whose last page is
partial would be filled up with what lies behind it.

## Runs

| Run | Checks | Shows |
| --- | --- | --- |
| `break_session` | `TypeOK`, `CopiesMatchProgram`, `CleanWhileHalted`, `PatchedWhileRunning`, `CountsMatchTable`, `HostAgrees`, `ModeMatchesHart`, `StopsOnlyAtBreakpoints`, `NothingLeftBehind`, `NeverRunsOverBreakpoint`, `FlashFollowsHalted`, `ImplementsContract`, `BreakpointReported` | a session, a console and restarts keep every table, copy and belief true; the whole refines the contract; a stop is reported |
| `reg_cache` | `TypeOK`, `CacheTellsProgbuf`, `RestoreReady`, `RunsWithOwnRegisters` | the application gets its registers back |
| `flash_load` | `TypeOK`, `NeverGarbled`, `LoadIsExact`, `HandlersEnd`, `ImplementsContract` | a load answered OK is in the flash; a cut one leaves nothing that a new one cannot repair |
| `gdb_link` | `TypeOK`, `RepliesFramed`, `EndsAgree`, `ImplementsContract`, `RequestAnswered`, `BreakAnswered` | every request is carried out once and answered with its own answer, also Ctrl-C |
| `data_packets` | `TypeOK`, `ReadsExact`, `WritesExact`, `NothingElseTouched`, `PortClean` | every read and write, one after another, touches and returns exactly its bytes |
| `flash_stream` | `TypeOK`, `WrittenExactly`, `PagesWhole`, `NoWordOverrun`, `WriteEnds` | a blob streamed to the target is in its pages word for word, but for the one word the comment reports lost; a page is never a mix of blobs; the write ends |
| `reload` | `PatchedWhileRunning`, violated | a stale page copy is written over a new program |
| `lost_connection` | `PatchedWhileRunning`, violated | clearing the table leaves the page maps |
| `register_read` | `RegistersReadable`, violated | GDB reads a debug program's registers |
| `interrupted_load` | `LoadIsExact`, violated | the page cache of a broken-off load gets into the next one |
| `nack` | `RepliesFramed`, violated | a reply asked for again is not sent again |
| `ram_write` | `WritesExact`, violated | M stores bytes that were not sent |

### Bounds

- `break_session`: two pages, because every map is per page and the interesting
  mistakes confuse two pages or treat a page's first and later breakpoints
  differently; two sites in each, one of them four bytes long, so that a page has
  zero, one and two breakpoints. Three slots for four sites: a full table, freed
  slots in the middle and reuse all happen. `DirtyMax` is 4: enough to insert and
  remove both breakpoints of a page between two resumes. Two builds distinguish
  old from new programs. 84,192 states.
- `reg_cache`: a register each that all, some and no programs clobber, and two
  programs that share a word. 2,400 states.
- `flash_load`: nine bytes, with offsets 0, 31, 32 and 63 on both sides of every
  bit where the duplicate test changes its meaning, a second page of the same
  sector, and pages at the edges of sectors; loads erased as a chip, as a page, and
  as a page, a sector and a page; two builds, so that old bytes show. 3,896 states.
- `gdb_link`: four requests (`c`, `k`, an unknown one, one whose body is escaped and
  holds a `+`), one damaged byte, lost or turned into `#`, `$`, `+` or `x`, one
  resend. The byte can be any of the packet's, in the request or in its copy, and
  the copy may arrive in every state of the machine. 51,138 states.
- `data_packets`: twelve bytes of RAM with faults on both sides; every request that
  fits, two in a row, so that each access meets what any other left behind, with or
  without a run of the target or a restart between. `BufBytes`, 1024 in the code, is
  8: a read of twelve bytes takes two chunks. 274,855 states.
- `flash_stream`: two pages; a blob of both, and a whole page and a part of one that
  each fall into it; two blob numbers, used again and again, so that any write meets
  what any other, whole or cut short, has left. A fourth request is what the
  discipline `Padded` keeps out. Pages keep their 16 words, since the program's page
  test is on the low bits of the address. 389,214 states.

The theorems hold for every value of these constants.

### Fairness

- `break_session`: weak fairness of `Poll`, since the superloop calls `update`
  forever and its timer elapses, and of `Hart`, since a running hart executes.
- `flash_load`: weak fairness of `EraseStep` and `PutByte`: a handler's loop runs.
- `gdb_link`: weak fairness of the turns of the main loop, all but the poll finding
  the hart halted, which is up to the program; and of GDB reading what it is sent
  and resending after its timeout. `RequestAnswered` therefore leaves out `c` and `k`.
- `flash_stream`: weak fairness of the Pico's steps and of the hart's: each side runs
  on while it can, at any speed relative to the other.

Nothing makes a user ask, press Ctrl-C or close the line. The states of a run do
not end: deadlock checking is on in every configuration.

## The violations

- **Reload.** Insert a breakpoint and remove it: `dirty_map` is nonzero, and
  `flash_dirty` is a copy of the page. Load another program and resume:
  `patch_flash` rewrites the page from the copy. A stop leaves the same
  state behind, since `unpatch_flash` marks pages dirty. A page that gets a
  breakpoint again before the resume is captured afresh and safe.
- **Lost connection.** `clear_all_breakpoints` empties the table only.
  `break_map`, `dirty_map` and `flash_dirty` keep the breakpoints, and the resume in
  the same branch of `update` patches them in. The next session's first breakpoint
  in that page is then not the page's first, and its page is not captured.
- **Register read.** `get_gpr` goes to the hart and ignores `reg_cache`. A halt that
  unpatches flash has already run debug programs, so the registers GDB reads at a
  breakpoint are affected without any memory access.
- **Interrupted load.** `page_base`, `page_cache` and `page_bitmap` are cleared when
  the Pico starts and by a flush, not by a disconnect. The next load erases its
  blocks; its first byte on another page flushes the old page there, and on the
  same page it is dropped as written twice. Every packet is answered OK.
- **NACK.** On `-`, RECV_ACK goes to SEND_PACKET. No `$` is sent, the cursor is past
  the reply and runs on through the buffer, and the checksum continues from the old
  one.
- **RAM write.** `take_blob(void* blob, int size)` hides `Packet::size`: it compares
  its cursor in the packet with the size of the blob, fails before the blob's end,
  and leaves `handle_M`'s buffer as it was from there on; the buffer is stored on the
  target all the same. The request is then answered E00: `handle_M` sets E01, and
  `handle_packet` replaces it (`src/src/GDBServer.cpp:675`).

## What is proved

`BreakSessionProofs`, from the constants' assumptions and `Discipline`:

- `SessionInvariant`: `IInv` is an invariant. `IInv` is the conjunction of all the
  safety parts. They support each other: what `patch_flash` writes is right
  because the dirty copies are (`CopiesMatchProgram`), a copy is captured
  right because the device is clean while halted (`CleanWhileHalted`), a page is
  captured when and only when needed because the counts are exact
  (`CountsMatchTable`), and the counts do not wrap because of `Discipline`. None
  is inductive alone. The proof has one lemma per action, and under it one step
  per conjunct.
- `TypeCorrect`, `FlashPatchedExactly`, `CopiesNeverStale`, `FlashCleanWhileHalted`,
  `CountsAreExact`, `HostIsRight`, `HaltedIsHalted`, `StopsAreBreakpoints` and
  `SessionLeavesNothing` are its consequences; the last needs an argument of its
  own, as a disconnected target runs with patches for an empty table.
- `BreakpointsHold` and `FlashIsUnpatchedOnHalt`: the action properties
  `NeverRunsOverBreakpoint` and `FlashFollowsHalted`.
- `SoftBreakImplementsContract`: initial states map to initial states, and each
  action, a restart and the console's among them, to a step of `DebugContract` or
  to a stutter.

`RegCacheProofs`, from the constants' assumptions: `RegCacheInvariant`, and from it
`RegCacheTypeCorrect`, `ProgCacheTruthful`, `RegistersRecoverable` and
`OwnRegisters`. The heart of it is that the upload leaves the whole requested
program in the buffer (`UploadWhole`), so what is overwritten is what was saved.

`FlashCacheProofs`, from the constants' assumptions: `FlashInvariant`, and from it
`LoaderTypeCorrect`, `FlashNeverGarbled`, `FlashIsWhatWasLoaded` and
`LoaderImplementsContract`. `LoadIsExact` speaks only of the end of a load. Its
strengthening says where a byte that was sent is now: in the flash, in the cache,
or still in the packet (`SentInv`, `CacheInv`); that the erase has left nothing
foreign behind it (`EraseInv`); and that of the packet's bytes still to come, one is
in the cache already or all offsets in the bitmap are below it (`OrderInv`). That
is why the wrong duplicate test does no harm: bytes arrive in ascending order, so
the bits it may wrongly look at (31 to 63, for offset 31) are clear, and a byte it
fails to recognise as a repetition is written with the value it already has.

`FlashStreamProofs`, from the constants' assumptions, for any pages, blobs and number
of writes: `StreamInvariant`, and from it `StreamTypeCorrect`, `PagesNeverMixed`,
`BlobIsWritten` and `WordsAreTaken`. Nothing in the code compares the counts of the two
sides, so `PagesWhole` and `WrittenExactly` say nothing about the middle of a page.
The strengthening (`StepInv`) has, for each step of the Pico, where the program on the
target can be and what it has done by then: `Taken(p, d)`, the pages before `p` are
written, `a2` stands at word `d` of page `p`, the controller's address is that page and
its buffer holds the page's first `d` words; `WipedTo` and `WrittenTo` for the pages
that are through; and `Running`, the same while the program is on its way. That is
what makes the wait after each word enough. `FreshInv` confines the reported fault: a
write under way while `fresh` holds is the first since the start, and has moved no word
yet, so `BadWord` can be in that one place only (`Leaves`).

`DataPacketsProofs`: `UnalignedReadIsExact`, `UnalignedWriteIsExact`,
`HalfwordWriteIsExact` and `ByteWriteIsExact`: the arithmetic of the accessors, for
every memory, address and value. They are about the operators the steps of
`DataPackets` are built from.

`DataPacketsSafety`, from the constants' assumptions, is about its behaviours, for any
RAM, any requests of any length, any size of the buffer and any number of requests:
`AccessInvariant`, and from it `AccessTypeCorrect`, `ReadsAreExact`, `WritesAreExact`,
`NothingElseIsTouched` and `PortIsClean`. The properties speak of an access that is
over, or of its bytes one by one; neither says what is still to be done. `IInv` does:
between two turns of a handler what was read or written so far is right (`ReadTo`,
`WrittenTo`) and the debug module is `Clean`; within a turn the operations left in
`script` are one of the tails of one of the accesses (`Reading`, `Writing`,
`ReadingBlock`, `WritingBlock`, and `ReadingGpr`, `WritingGpr` for p and P), and what is
in DATA0, DATA1, the command, the program buffer and `got` is what that tail needs. A
restart may leave the module in any of these places, and `ResetModule` is why the next
access finds it clean.

`GDBLinkProofs` and `GDBLinkExact`, from the constants' assumptions with
`RepliesArePlain` and `NoRefusal`: `LinkTypeCorrect`, `RepliesAreFramed` and
`EndsDoAgree`, for any requests and replies, any damage and any number of resends. There
are two invariants, one for each case of `NoRefusal`.

`LinkInvariant` is for damage and resends. That GDB finds the
head of a packet where it looks for one follows only if all that is on the line is in
order: `IInv` says that it parses (`IsParse` names each byte: acknowledgement, `$`,
body, `#`, digits) up to a last byte that the state of the machine tells (`LastOf`), so
that a packet still going out has its beginning on the line, since GDB takes whole
packets only. `EndsAgree` needs two debts besides: a request that was taken has its `+`
on the line, or GDB has read it; a reply that is out is on the line, or GDB's `+` for
it is. The checksum of a packet is a recursive function, and a request becomes bytes
through the fold of `FlattenSeq`; that both yield bytes is proved by least counterexample (`Stepwise`,
`StaysIn`, from the well-foundedness of the naturals), as the induction rule itself
takes an operator and is out of the prover's reach.

`CleanLineInvariant` is for the clean line, where more can be said: `ExactInv` gives
every byte. A request is on the line, framed, behind acknowledgements and breaks that
are dropped; or `k` bytes of it are in `recv`, the checksum is that of their text, and
the line holds the `Rest`; or it was taken, and the line to GDB holds the first `m`
bytes of the reply's packet, `m` and the checksum following from the state and
`cursor`. It needs that reading undoes framing: byte by byte, with what comes of an
escape (`RestPlain`, `RestSpecial`), of the sums (`SumAppend`) and of the two digits
(`HexBack`). Two steps of the argument are about bytes that mean something else: a `-`
in a body cannot meet RECV_ACK, since GDB's `+` is in front of it; and the first `#`
GDB finds is the end of the whole reply, since no reply holds one. From it follows
`CleanLineImplementsContract`, the refinement of `LinkContract` step by step:
`RecvSuffix2` carries the request out, the report stops it, `TakeReply` takes the
answer, and no other turn of the machine shows.

Only model-checked: the liveness properties `BreakpointReported`, `HandlersEnd`,
`RequestAnswered`, `BreakAnswered` and `WriteEnds`, since fairness is outside the
prover; and `ImplementsContract` of `GDBLink` where requests are damaged or sent
again. There it does not hold for every value of the constants: with two damaged
bytes a checksum can come out right, and with more copies a `+` in a body
acknowledges.

## Not modelled

- `src/example` is a sample target program and a vendored header library
  (`ch32v003fun`, 15,600 lines of register definitions and start-up code), and
  `src/src/debug_defines.h` 3,100 generated lines of constants. Together they are
  four fifths of the repository's lines, and none of them is the debugger.
- USB descriptors and configuration, the one-wire bit timing in `singlewire.pio`
  and the PIO set-up: hardware I/O, atomic for its callers.
- Printing and `dump` functions: no state.
- `verify_flash`, whose reads are those of `DataPackets` and whose result goes to the
  console; `write_flash` with a blob longer than a page whose last page is partial
  (only a console command that is not compiled in).
- Console commands that go around `SoftBreak` (`halt`, `resume`, `step`,
  `wipe_chip`) or edit breakpoints or patch flash under a session: they break the
  session by design. `dump` and `run_tests` go through the accesses of `DataPackets`.
- A restart while ebreaks are in the flash, and one while a debug program's values are
  in the hart's registers: the records are in the Pico's memory and are gone.
- Why the first word after a restart is lost (`src/src/WCHFlash.cpp:231`): `FlashStream`
  has the fault as reported. `FlashCache` and `BreakSession` take page writes as exact.
- Accesses outside RAM, and the exception they leave in CMDER.
- `g` and `G`, which loop over the accesses of `p` and `P`. The order of a register's
  bytes is modelled and no property is about it: `handle_p` puts a register low byte
  first, `handle_P` takes it as one number, high digit first, so that a register
  written with P is read back reversed.
- `SEND_PACKET_ESCAPE`: no reply of this code holds a character that would be
  escaped, so the state is never entered; had it been, it would not leave.
- Ebreaks that belong to the program itself, and programs that write their own
  flash.
- Capacities: `Packet::buf`, and `qSupported`'s size, are beyond the packets of
  `GDBLink`.

## Plan

1. `Target`, `SoftBreak`, `BreakSession`, `DebugContract`; `RegCache`; with proofs
   (done).
2. `FlashCache` with `FlashContract` and proofs; `GDBLink` with `LinkContract`;
   `DataPackets` with proofs of its accessors; the console and restarts in
   `BreakSession` (done).
3. `FlashStream`, the word stream of `write_flash` through DATA0 and autoexec, down to
   the program that runs on the target (done).
4. Proofs of the invariants of `FlashStream`, `DataPackets` and `GDBLink` (done).
5. `ImplementsContract` of `GDBLink` on a clean line (done).
6. The same where a request is sent again once, with what TLC shows of it on the
   instance. That `RegCache` hides the debug programs from the application, as a
   refinement.
