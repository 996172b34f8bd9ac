# TheBootloader: TLA+ models, checks and proofs

TheBootloader boots an i386 machine from a CD. The BIOS loads the first stage
from the El Torito boot record; it finds `STAGE2.BIN` in the root directory and
loads it with the BIOS's disk service. The second stage, 16-bit assembly around
32-bit C, collects what the kernel has to know from the BIOS, opens the A20
gate, enters protected mode for a while to read `KERNEL/KERNEL.ELF` with its own
ATAPI driver and ISO 9660 reader, unpacks it, goes back to real mode, and enters
protected mode for good to jump into the kernel.

This directory holds the models of that program, the TLC runs that check them on
small instances, and TLAPS proofs of what matters most for all instances. Paths
below are those of the repository; a line number after a colon is the line the
model translates. `PROJECT.json` is the index: every definition that stands for
code is listed there under `map` with its file and lines, every hazard with the
properties aimed at it.

To repeat: `tlc -workers 2 -config Fs.cfg MCIso9660FS` for a run (the table below gives each
run's module and configuration), `tlapm AtapiReadProofs.tla` for a proof module.

## 1. Inventory

| Component | Source | State it keeps | Operations | Works with |
|---|---|---|---|---|
| First stage | `src/boot/stage1/stage1.asm`, `headers/boot/iso9660.inc`, `headers/boot/disk.inc` | volume descriptor number, descriptor and directory buffers, offset of the record looked at, `DiskPackage` (segment, offset, sector) | `Read_volume_descriptors`, `Find_and_Load_File_from_Root`, `ReadFromDiskUsingExtendedBIOSFunction`, the jump | int 13h; leaves stage 2 in memory and jumps |
| Second stage | `src/boot/stage2/stage2.asm` with `gdt.inc`, `common.inc` | CPU mode (PE, operand size of CS, IF), PIC masks, `BootHeader`, `BootDescriptor` | the labels from `stage2_entry` to the jump into the kernel, four mode switches | calls everything below; interrupted by the PIT |
| Memory map | `asm_includes/memory.inc` | page at 0x9000, number of entries, EBX continuation | `GetLowerMemorySize`, `LoadMemoryMap`, `GetMemorySize`, `SetupMemory` | int 12h, int 15h |
| A20 gate | `asm_includes/a20.inc` | the line, the 8042's two buffers | `CheckA20Gate`, `A20MethodBios`, `A20MethodKeyboardController`, `EnableA20Gate` | 8042 firmware, keyboard, IRQ 1 |
| Video | `asm_includes/vesa.inc` | mode found, its resolution, the block buffer `VesaModeInfo` | `VesaSetup`, `VesaGetVideoModes`, `VesaFindBestSuitableMode` | int 10h, `BootHeader` |
| ATA detection | `asm_includes/ata.inc`, `ata.c:61-463` | four device records, `device` pointer | `identify_ata_devices`, `detect_ata_devices`, `check_and_set_atapi_device` | the drives; sets the device `read_sector` uses |
| ATAPI reading | `ata.c:492-598` | none of its own; the drive's task file | `read_sector`, `ata_device_read_sector_atapi` | the drive; called by the file system |
| Boot heap | `mem.c:10-24` | `heap_offset`, the array | `stage2_malloc` | called by `iso9660_open` |
| File system and VFS | `ISO9660FS.c`, `vfs.c` | `iso_fs`, shared directory buffer at 0x90000, `g_kernelSize` | `iso9660_mount/open/read/list`, `init_vfs`, `load_kernel` | `read_sector`, `stage2_malloc` |
| ELF loader | `elf.c`, `mem.c:43-84` | `g_kernelAddress`, all of memory | `load_elf32`, `memcpyb`, `memsetb` | works on the file at 3 MB that `load_kernel` left |
| Console | `print.c`, `print32.inc`, `print16.inc` | column, row, video memory | clearing, `boot_print` with wrap and scroll, numbers, the banner | shows the numbers of `revision.h` |
| Legacy ISO 9660 reader | `ISO9660.c` | global variables | traversal by path table and records | no longer called |
| Keyboard routines | `keyboard.inc` | none | included, never called | |
| Port I/O | `port_io.c` | none | one instruction each | |
| Revision tool | `tools/revision/revision.c` | `revision.h` | read, increment, truncate, rewrite | run by `make` before each build |
| Build and link files | `Makefile`, `src/boot/stage2/Makefile`, `stage2.ld` | `print.elf` | count, compile, clean | `.bss` is in no file and is never cleared |

(`asm_includes` stands for `headers/boot/stage2/asm_includes`, the C files are in
`src/boot/stage2`.)

**How they interact.** There is one thread of control. What runs beside it is
hardware and firmware: the drive, which moves through its own phases while the
driver polls; the keyboard controller and the keyboard; the timer. The layers
below the thread call each other directly and share state through globals: the
file at 3 MB between `load_kernel` and `load_elf32`, the directory buffer at
0x90000 between all directory scans, `device` between detection and
`read_sector`, `g_kernelSize` and `g_kernelAddress` between the C code and
`stage2.asm`.

**What is hard about it, and the correctness asked of each part.**

* *Drive and driver.* A poll sees an arbitrary moment of the drive's progress; a
  command can fail at any phase; errors are not reported upwards. Correct: words
  are moved only to and from a drive in the right phase, a call touches the
  buffer with the requested sector only, the next command meets a drive at rest,
  every call returns.
* *File system.* A sector that was not read, or only in part, leaves the previous
  one or a mixture in the buffer, and nobody is told; after a failed mount the root
  is what memory held. Correct without such a failure: open, read and list
  agree with the directory tree on the medium. With it: scanning stays in the
  directory, and unless bytes of no directory were taken for records, no file is
  accepted that no record names.
* *Heap.* The counter starts with what memory held, nothing is freed, unsigned sums
  may wrap. Correct: nodes apart and ending in the array, all but the first also
  beginning in it.
* *ELF loader.* Source, tables, destinations and the loader itself share one memory,
  and headers are read again in each iteration and within it. Correct: layouts that
  satisfy a stated condition are loaded completely; a load that returns has written
  nothing outside the segments.
* *Boot sequence.* Code assembled for 16 and for 32 bits, four switches, timer
  ticks anywhere. Correct: each part runs in its mode, the kernel is entered with
  everything it was promised.
* *First stage.* Segment arithmetic in 16 bits, a division whose high half is not
  prepared, a count taken in CX, the carry flag never looked at. Correct: the file
  is laid out without gaps and a sound medium boots.
* *A20.* A one-byte buffer shared by scan codes and answers. Correct: no command
  lost, keyboard and gate on afterwards, the sequence ends, nothing else of the
  output port is touched once the keyboard is off.
* *Detection.* Bounded waits, commands not repeated, a test through the wrong
  pointer. Correct: the device chosen is a CD with 2048-byte sectors.
* *Video.* One buffer for all blocks, the BIOS's list behind half a far pointer.
  Correct: the first suitable mode, announced together with its own block.
* *Console and build number.* Two wraps per character, state that no code
  initializes, assembly code that writes into the same memory, a header that is
  truncated before it is rewritten by a tool that may return 0 all the same. Correct:
  the screen shows the end of what was printed wherever nobody wrote over it; numbers
  are only lost by a run that was cut short, never invented; what is compiled is what
  the last run counted.
* *Memory map.* Entries to be skipped, two ways to end. Correct: every usable
  range is handed over, in order, marked valid.

## 2. Modules

| Module | Models | Composes / refines |
|---|---|---|
| `SectorRead` | abstract: what `read_sector` promises | specification of `AtapiRead` |
| `AtapiRead` | driver and drive as two processes | implements `SectorRead` (`SR == INSTANCE`) |
| `AtapiReadProofs` | theorems | extends `AtapiRead` |
| `Heap` | `stage2_malloc` | |
| `ElfLoad`, `ElfLoadProofs` | `load_elf32` with `memcpyb`, `memsetb`, theorems | |
| `Iso9660FS` | `init_vfs`, `load_kernel` and the file system they call | extends `Heap`, whose actions its opens call; uses the promise of `SectorRead` |
| `Iso9660FSProofs` | theorems on `Heap` and `Iso9660FS` | `Iso9660FS` implements `HeapSpec` |
| `Stage2Boot` | the second stage and the timer | each called routine by its outcomes |
| `Vesa` | `VesaSetup` and the search through the mode list | |
| `Stage2Video` | the second stage with the search in detail | extends `Stage2Boot`, `V == INSTANCE Vesa` in the place of `VesaSetup` |
| `Stage2VideoProofs` | theorems on `Stage2Boot` and `Stage2Video` | `Stage2Video` implements `Stage2Boot` |
| `Console` | `print.c` | |
| `Revision` | `revision.c`, interrupted or on a full disk | |
| `BuildAndBoot` | build, boot and banner | extends `Console`, `R == INSTANCE Revision` |
| `BuildAndBootProofs` | theorems on all three | |
| `Stage1`, `Stage1Proofs` | the first stage, theorems | |
| `AtaDetect`, `AtaDetectProofs` | detection over the four positions, theorems | |
| `A20Gate` | `EnableA20Gate`, 8042, keyboard, IRQ 1 | |
| `MemoryMap` | `LoadMemoryMap` and the BIOS | |
| `RealModeProofs` | theorems on `A20Gate` and on `MemoryMap`, which share nothing but the module | |
| `MC...` | the small instances for TLC | extend the module they are named after |

State and actions follow the code as closely as its control goes; data is cut
down to what the properties tell apart.

* **AtapiRead.** `pc` is the place in `ata_device_read_sector_atapi`; one action
  per polling loop that ends, per block of port writes and per `rep insw`.
  The sector is divided into `Units` pieces; the buffer records for each piece the
  sector it came from, or `Junk`. The drive is `phase` (which the status register
  shows as BSY and DRQ), `err`, `count` (the byte count registers), `target` and
  `sent`. It may announce any count in `BlockSizes` and fail whenever it is busy.
  At the start the drive is at rest or, as detection leaves it (`ata.c:338`), still
  finishing READ CAPACITY; a command written while BSY is set is ignored, and the
  driver then polls for ever (`Lost`).
  `read_12` is whether `_read_12` (`ata.c:492`, in `.bss`) is nonzero: then the first
  packet that fails is tried once more (`TryAgain`), after which it is 0 for good.
* **SectorRead.** While a call is pending the buffer is overwritten from the front
  with the requested sector; the call always returns and never tells what it did.
  The refinement maps `pending` to `lba` outside `pc = "idle"` and `buffer` to
  `buf`.
* **Heap.** One action per outcome of `stage2_malloc`; unsigned arithmetic is
  `% Word`. `heap_offset` is in `.bss`, so it starts with any value of `Starts`;
  near the top of the range the sum of `mem.c:17` wraps and the first block begins in
  front of the array (`Place`). `blocks` is a history of all nodes handed out and `start` of
  the first value. `Iso9660FS` uses `Allocate` and `OutOfMemory` for each call it makes.
* **ElfLoad.** A memory cell holds the file offset it came from, so "the segment is
  in place" can be stated. Header and program headers take a cell each, and a
  step of the loop needs the cells it reads to be intact. `p_filesz` and `p_memsz` are
  read again after the copy (`elf.c:53`), so the step also needs the copy to have
  spared the program header (`Survives`). Where that fails, where
  `p_memsz < p_filesz` makes the count of `memsetb` negative, or where a segment lies
  over the second stage (`Loader`), the loader is `derailed` and all of memory `Unknown`.
  `memcpyb` copies upwards, overlapping copies repeat bytes as they do in the code.
* **Iso9660FS.** One step per `read_sector`. A buffer is represented by the sector
  it holds; a read delivers the whole sector, nothing, or a part of it (`Outcomes`), and
  a buffer that is no one sector is `Junk`: searching it, or file data, the parser finds
  one of the `Garbage` record lists (`Readings`), and `astray` says that a search did.
  `iso_fs` is in `.bss` and starts as any of `StaleRoots`; a mount that fails leaves it,
  one whose descriptor was read in part may take a root from the bytes of no descriptor
  (`Mounted`). `disk` maps sectors to records, and need not be in order;
  `remaining_bytes` of the search is unsigned and wraps, that of the listing does
  not (`ISO9660FS.c:213-215`, `502-506`). Where the program overwrites itself
  (`Overwrites`: a node in front of the heap, a name longer than `filename[128]`, the
  terminator of `vfs.c:37`, a file past `Room`), `Derail` ends what is modelled; the other
  steps stay enabled, as the bytes overwritten may be of no account.
* **Stage2Boot.** `Polls` are the labels at which a drive is waited for without a bound
  (`ata.inc:299-303`, `ata.c:510-550`), where a boot may stay for ever: no fairness is assumed there. A load that overwrites
  the program ends as `derailed`. `pc` is the label reached; `bits` is the operand size CS selects,
  `pe`, `ifl`, `masked` the mode. `header` is the set of fields stored. `TimerTick`
  is enabled whenever a tick would be delivered: in real mode it returns, except
  that it ends the `hlt` of `memory.inc:39`; with PE set it is dispatched through a
  table that is no protected mode IDT, and the CPU is lost.
* **Vesa.** `bios` is what the video BIOS answers: `offered` its mode list, `found`
  the words behind the offset of the list pointer (its segment is dropped, `es` is
  0), `modes` the blocks. `esi` is the entry of the list, `VesaModeInfo` the mode
  whose block the buffer holds. One action per mode tried.
* **Stage2Video.** While `pc` is `VesaSetup` the steps are those of `Vesa`; the last
  one stores the outcome in `header` (`VesaStores`).
* **Console.** A character is a digit or a model value; one step of `boot_print` per
  character. `meant` is what callers want to be read, numbers as they are written by
  hand (`Decimal`, `Hex`, found by their value and not by the code's loops); `lines`
  is a history of the lines this makes, and `ShowsLines` says what a screen with them
  looks like. `over` is a history of the cells that assembly code has written straight
  into video memory (`WriteOver`) and `boot_print` has not written since; it moves up with
  the screen.
* **Revision.** The header is a sequence of lines; `Prefixes` is what of it may be in
  the file when `fflush` is cut short, behind any digit of a number included (`Cut`).
  `counted` is a history of the numbers asked for. When `fflush` fails the C library has
  dropped what it could not write; `fclose` then has nothing to flush, and the tool
  returns 0 with a header cut short, unless the close itself fails (`WriteFails`).
* **BuildAndBoot.** `image` is what `print.elf` was compiled with. `Compile` only runs
  when there is none, because the rule depends on `print.c` alone
  (`src/boot/stage2/Makefile:38`): a banner may show an older version than the header. A header
  without its `#endif` does not compile, which is what stops a build after a full disk
  (`R!Complete`). Behind the banner `identify_ata_devices` writes up to twelve lines over the
  screen (`print_fixed_size_string`, `ata.inc:324-369`).
  `PowerOn` leaves `row`, `column` and the screen with anything.
* **Stage1.** Registers keep their widths as `Half` (2^16) and `Full` (2^32); `mem`
  maps linear addresses to the sector loaded there. `Quotient` is the result of
  `div ecx` with the unprepared EDX, `LoopCount` what `loop` makes of it.
  `flaky` says whether int 13h may fail in this boot.
* **A20Gate.** CPU, controller, keyboard and IRQ 1 as processes over `ibf` and
  `obf`. Of a byte the two bits of the output port that matter are told
  apart, reset and A20, and the other six kept together (`rest`); a key may send any
  byte. `early` is a history variable: a scan code was waiting when the controller took
  0xAD.
* **AtaDetect.** What a position answers is a set (`Signatures`, `Capacity`),
  because a late or failing drive answers differently. `stray` is what reading
  through the NULL `device` pointer returns, `floats` whether an absent master
  reads as 0xFF (a slave that is alone may answer in its place).
* **MemoryMap.** `label` is where `LoadMemoryMap` is; `page` is the buffer; `next` is EBX; 20-byte entries leave the
  attribute of the buffer, which the code sets before every call (`Forced`, and `Preset` before one that stores nothing). Behind
  the `Cleared` entries the buffer holds what memory held.

Definitions called a *faulty variant* next to an action are what the action would
be with a plausible mistake in the code. No specification uses them; with one in
place of the definition it varies, a run must report the property it is listed
with in `PROJECT.json`.

## 3. Runs

| Run | Module, cfg | What it shows |
|---|---|---|
| atapi | `AtapiRead` | `PortAgreement`, `CommandToQuietDrive`, `CleanReturnHasSector`, refinement (`Implements`), `EveryReadReturns` |
| elf | `MCElfLoad` | `SafeFilesLoad`, `SafeNeverDerails`, `OnlySegmentsWritten` |
| fs | `MCIso9660FS`, `Fs.cfg` | `LoadKernelCorrect`, `ListShowsDirectory`, `ScanStaysInDirectory`, `AcceptedKernelIsRecorded`, `NodesIntact`, `Terminates` |
| stage2 | `MCStage2Video`, `Stage2.cfg` | `HandoffComplete`, `ModeMatchesCode`, `ModeHandedOver`, `Terminates` |
| stage1 | `MCStage1` | `Stage2Intact`, `LoadIsContiguous`, `Terminates` |
| a20 | `MCA20Gate`, `A20.cfg` | `KeyboardAndGateReady`, `OnlyA20Changes`, `Terminates` |
| detect | `AtaDetect`, `Detect.cfg` | `FoundIsUsable`, `FirstUsableWins`, `Terminates` |
| memory_map | `MCMemoryMap`, `MemMap.cfg` | `MapComplete` |
| build | `MCBuildAndBoot`, `Build.cfg` | `ScreenShowsText`, `NumbersKept`, `CompiledAsCounted` |
| fs_success | `MCIso9660FS`, `FsSuccess.cfg` | *violated*: `SuccessMeansLoaded` |
| stage2_interrupt | `Stage2Boot`, `Stage2Interrupt.cfg` | *violated*: `NoInterruptInProtectedMode` |
| a20_saved | `MCA20Gate`, `A20Saved.cfg` | *violated*: `SavedIsOutputPort` |

Each passing run checks the module's type invariant as well.

**Bounds, and why they are enough.**

* atapi: two sectors, so that data of an earlier call can be confused with data of
  this one; three pieces per sector and every block size up to three, so that a
  sector comes whole, in two uneven blocks, or in three. Calls follow each other
  without limit.
* elf: nine cells, the second stage in cell 0, the file in cells 3 to 7, every pair of program headers over
  them: segments fall on the header, the table, the data, each other, their own
  source from both sides, the loader, and free memory.
* fs: sectors of six units with records of two and three, so that sectors end with
  padding or exactly, and directories take one or two; the root in four orders;
  the kernel missing, a directory, empty, and more than two sectors, and other files
  of its name in other places. Three media are out of order: a directory that is not whole
  sectors, a name twice, a name too long. `Word` is 36, six sectors, so that a wrapped
  search comes around. Nodes of 2 units, rounded to 4, in a heap of 28: the seven it
  holds run out in the third open on a medium whose other two paths exist. The counter
  starts at 0, unaligned near the end, behind it, or just below the wrap; the stale root
  lies at the last sector number, with a size that is no multiple. Any subset of the reads
  may deliver nothing or a part. `FsSuccess.cfg` takes few disks, and none of the stale values.
* stage2: three values for sizes and addresses; every outcome of every routine. BIOSes
  without VBE, or with up to three modes, each suitable or wrong in one respect, so
  that the first suitable mode is followed by others of both kinds; with three modes
  the list may also be out of sight, with no words, a number without a mode, or modes
  in another order in its place.
* stage1: sectors of 4, segments of 16: files of one to six sectors cross a
  segment. `Full` = 128 is wide enough for the quotient to leave the low half.
  Descriptor tables with and without a primary descriptor, an old directory in the
  buffer or none, EDX with and without a high half.
* a20: every interleaving, every byte typed; the six bits kept together have two values
  (`MCRest`).
* detect: four positions, each empty, a disk, or a CD drive with good or other
  medium; late and failing answers at each.
* memory_map: tables of one to three entries of all kinds (a rejected entry before,
  between and after accepted ones), ended in both ways. The cleared page holds two
  (`Cleared`, 128 in the code), so the third is written over what lies behind it.
  `Slots` = 4, up to the second stage itself (480 in the code), is never exceeded.
* build: a screen of 3 rows of 4 with two texts after the banner, which itself wraps
  and scrolls: a line that is full with and without a newline behind it, short ones,
  more lines than the screen has; the header of the
  repository at 0.2.377, one at 0.9.99, so that numbers get longer and are cut within
  their digits, or none; two runs of the tool, of any command, each failing, on a full disk
  or interrupted at any point: one that is cut short and one that counts on from there.
  `Values` up to 171 need both hexadecimal digits. Two lines for the drives, each
  written to the screen or elsewhere, leave one row of the three; they come before and
  between the texts.

Deadlock is checked in `build`. The other systems stop: a boot or a call ends, or, in
`atapi`, the driver polls a drive that ignored its command (`Lost`). That the end
reached is a proper one is the subject of the liveness properties.

**Fairness.** One thread of control executes the boot code, so weak fairness of
all its steps together says no more than that the CPU runs
(`WF_vars(Next)` in `Stage1`, `Iso9660FS`, `AtaDetect`; of the CPU's steps in
`Stage2Boot`, `Stage2Video` and `A20Gate`, `WF_vars(Driver)` in `AtapiRead`).
Hardware gets weak fairness where the code's own polling assumes it: the drive
ends each command, the 8042 firmware takes what was written to it, the timer
ticks. No fairness is given to keyboard, IRQ 1, errors, or new calls. In `Stage2Boot` the CPU is
fair except at `Polls`: nobody promises that a drive answers, so `Terminates` lets a boot
stay there. It also excepts the three error labels that have no end of their own
(`Unended`), a load that overwrites the program, and a tick in protected mode; what is left
to it is that no other part of the boot goes round in a loop. `Terminates` of
`Iso9660FS` is about boots whose reads return; that they do is `EveryReadReturns` of
`AtapiRead`: each read is one step. That one
excepts a first command lost to a drive still busy after detection (`Lost`), where
the code does hang; no later command can be lost (`CommandToQuietDrive`). `Terminates` of
`Iso9660FS` further excepts the search of a directory that is not whole sectors, which may
go round the medium for ever.
`Terminates` of `Stage1` is claimed for readable media only and of `AtaDetect` only
if the first channel has a master, or an absent one does not read as 0xFF: elsewhere the
loops of `iso9660.inc:30-117` and `ata.inc:299-303` do not end.

## 4. Proofs

TLAPS proves the following for every value of the constants that satisfies the
assumptions named in the module. Every invariant and every action property that a
passing run checks is stated by a theorem; each is proved from an inductive
invariant, which TLC checked first.

* **AtapiReadProofs** (`AtapiAssumption`: sectors, `Junk` and `NoLba` are distinct,
  announced counts are at least 1 and at most a sector). `TypeCorrect`,
  `PortsAgree`, `QuietDrive`, `CleanReturn`, and `Implementation`: every step of driver and drive is a step of
  `SectorRead` or a stutter. None is inductive on its own; `Coupling` adds how far
  the drive can be at each of the driver's points: while the driver waits for the
  packet result the drive is still accepting or waiting, or ERR is set and the
  drive is back at rest. This is why a poll cannot be satisfied by a drive in
  another phase. `Delivery` adds how much of the sector is in the buffer behind a
  transfer, which `CleanReturn` needs.
* **Iso9660FSProofs**, the heap (`HeapAssumption`: a heap a multiple of 4 long,
  requests far from the wrap; nothing is assumed of the start but its width).
  `HeapTypeCorrect`, `NodesStayIntact`. The strengthening `HeapIInv`: every node ends at or
  below `heap_offset`, which keeps its remainder by 4, and is in the array as soon as
  one node was handed out; so the sum of `mem.c:17` can wrap for the first node only.
  `AlignedFacts` and `SumFacts` are the lemmas on the unsigned rounding and sum.
  `ImplementsHeap` (`FSAssumption`: the only size asked for is that of a node): every
  step of the file system, on every medium and with every read error, is a call of
  `stage2_malloc` or leaves the heap alone, so `Iso9660FS` implements `HeapSpec`, and
  `OpenNodesIntact` follows.
* **Iso9660FSProofs**, the file system (`MediumAssumption`, which only gives the types of
  what is on a medium; `GarbageAssumption`, that bytes of no directory look like some records;
  `PathAssumption`: the kernel's path is not empty). Two invariants, because two kinds of
  properties are asked for.
  * `IInv` survives any read error, any stale root and any medium: the types (`Shape`);
    a listing, and a search of a directory that is whole sectors, is as many sectors into
    its directory as it has subtracted from `remaining_bytes`, which is why that cannot
    wrap (`Scan`, with the arithmetic in lemmas of its own); the node of an accepted kernel
    is one the medium records by that name, as long as `astray` is FALSE, and its size is the
    one reported (`Kernel`). From it follow `TypeCorrect`, `ScansStayInside`,
    `KernelIsRecorded`.
  * `Right` holds on a sound volume (`OnSoundVolume`): one that is valid, orderly
    (`Orderly`: directories are whole sectors, with a name once, within the sector numbers)
    and read without a fault. It says at every step how much
    of the answer is there: `iso_fs` is the volume's root from the mount on (`Volume`), the
    directory being searched is the one the path names so
    far and the sectors passed do not have the next name (`Directory`, `Searching`), a node is what
    the path names or missing for want of heap (`Answered`), the buffer is the file up
    to here (`Copied`), the names printed are those of the sectors passed (`Shown`). From it
    follow `KernelIsLoaded` (`LoadKernelCorrect`) and `ListIsComplete`
    (`ListShowsDirectory`), for paths, directories and files of any length and whatever
    `.bss` held. Why the premise is needed: with a fault, or on a disorderly medium, the answer
    is not that of the tree (`SuccessMeansLoaded` is violated).
  * `Named` is defined by recursion over the path. `Below` says of a function that it
    satisfies that recursion; that one exists is shown by looking at a least length
    for which it does not, so no induction theorem is needed.
* **ElfLoadProofs** (`ElfAssumption`: file, tables, sources and destinations lie in
  memory, and the file does not lie over the second stage). `TypeCorrect`, `SafeFilesAreLoaded`, `SafeFilesNeverDerail`,
  `NothingElseWritten`, for any number of program headers. The strengthening
  `Written` says that, as long as the loader is not derailed, a changed cell belongs to a
  segment already handled and not to the loader; with a
  safe layout the tables (`TablesIntact`) and every source still to be copied
  (`SourceIntact`) are then unchanged, and `CopyFacts` says what one copy does.
* **Stage2VideoProofs**, the boot sequence (`Stage2Assumption`: `Stale` is not a real
  value). `TypeCorrect`, `HandoffIsComplete`, `CodeRunsInItsMode`. `HandoffComplete` speaks
  of the last label only; `SizedInv`, `KernelInv` and `ModeInv` say, label by label,
  what has been established on the way to it.
* **Stage2VideoProofs**, with the search (`BiosAssumption`: 0 is no mode number). `ImplementsBoot`:
  each step of the search is a stutter of `Stage2Boot`, its last one is `VesaSetup`;
  so `BootHandoff` follows from the theorems above. `ModeIsHandedOver`, for every
  BIOS and mode list: `SearchInv` says that after `esi - 1` entries either none of
  them suits and nothing is stored, or the first that suits is
  (`NothingYet`, `FirstKept`; a second one is never larger), `Coupling` that
  `header` announces a mode behind `VesaSetup` exactly if the search ended with one.
  `BootTypeCorrect` adds the types of the search.
* **Stage1Proofs** (`WidthAssumption`: the widths are multiples of the sector and of
  a paragraph, as 2^16 and 2^32 are, and the load address starts a sector;
  `RoomAssumption`: a file that can be chosen is not empty and ends below 1 MB, the
  end of what real mode can address; nothing in the code tests that).
  `TypeCorrect`, `LoadKeepsOrder`, `Stage2IsIntact`. `Loaded(n)` says that memory holds the
  first n sectors of the file and nothing else, each where it belongs, and that none
  is missing if int 13h did not fail; `InLoop` ties segment, offset and CX to the
  number n of sectors read, across the carry of the offset into the segment
  (`AddressAdvances`). `LoopCountIsSectors` is the step in which the unprepared high half
  of the division drops out. `OnTheWay` says that on a sound medium that can be read no
  wrong descriptor or record has been taken, which `Stage2IsIntact` needs.
* **AtaDetectProofs** (`DetectAssumption`: block sizes are not 0). `TypeCorrect`,
  `FoundDeviceIsUsable`, `FirstUsableIsFound`. `RecordsTrue`: a record never claims more than what
  is in the bay, however late or wrong a drive answers; `PointerMoved` and
  `PassedOver`: `device` is only set if the first look through the NULL pointer was
  lucky, and a good drive is passed over only if it was not.
* **RealModeProofs**, A20 (`RestAssumption`, `CommandAssumption`: commands, bytes and the empty
  buffer are distinct). `TypeCorrect`, `KeyboardAndGateAreReady`, `OnlyA20IsSet`. The
  invariant says, at each label of `EnableA20Gate`, what may be under way between CPU
  and controller: nothing, one command, or a command whose data byte must come next.
  `Undisturbed` says that interrupts stay off and the keyboard is silent from 0xAD on, so
  that, unless a scan code was already waiting (`early`), the byte in the buffer is the
  output port and what the CPU writes back is that port with A20 on.
* **RealModeProofs**, memory map (`MapAssumption`: the table ends below the second
  stage). `MapTypeCorrect`, `MapIsComplete`, for tables of any such length.
  `Lists` says that the slots filled so far are exactly the usable entries handed
  out so far, in order; `Fetched` adds the entry that is not yet judged, in the slot
  behind them (`QueryFetches`, `ParseExtends`).
* **BuildAndBootProofs** (`HeaderAssumption`: the first header consists of the tool's
  lines, any number of them in any order; `TextAssumption`: texts are sequences;
  `ConsoleAssumption`: the screen has a row and a column). `TypeCorrect`, `NumbersAreKept`,
  `ImageIsCounted`, for any number of runs of the tool, cut short anywhere, and numbers
  of any length. `Counted`: while a run is writing, the
  header is empty and the numbers to be written are those asked for; otherwise the
  header says so, or less once a run was cut short; behind a run that returned 0 it is
  what that run generated or a prefix of it, and a prefix that compiles is the whole.
  `WrittenIsRead` and `CutIsBelow` say what
  reading a header back gives, whole or cut within a number.
  `ScreenIsRight`, for a screen of any size and texts of any length: `OnScreen` says that
  the lines shown are at most as many as the screen has rows, the last one not full, and
  that the cursor is behind it, with whatever was written over them set apart (`over`);
  wrap and scroll keep that (`CharacterShown`, `LineBegun`).
  It has the premise `NumeralsRight`, that the numbers which are printed are converted to
  the digits that denote them. The conversion is defined with `^` and a fold, about
  which the provers know nothing; TLC checks it in `build`, where
  `ScreenShowsText` fails for a wrong numeral.

Only model-checked: all liveness (fairness and ENABLED are out of the prover's
reach), and the digits of the numbers on the screen.

## 5. Disagreements between code and comments

Three are shown by runs (section 3):

* `vfs.c:73` announces "Kernel loaded successfully!" after counting bytes copied.
  `read_sector` returns 0 whatever happened (`ata.c:594-598`), so sectors of the
  kernel may never have been read; the error branches of `ISO9660FS.c:37-42, 375,
  469` never run.
* `stage2.asm:374-375` disables interrupts "as they are no more available"; PE has
  been set since line 334, with interrupts enabled since line 326. The same window
  is open from line 103 to the `cli` in `Temp32Bit`.
* `a20.inc:95` saves "the current state of the output port"; a scan code that
  arrived before the keyboard was disabled is taken instead, and written back with all
  its bits. With a code whose bit 0 is clear that resets the CPU.

Met while modelling, built into the models as the code has them, and not claimed
by any property:

* `ata.inc:178-179` calls `identify_device` "for all four possible ATA devices";
  `test bx, 0` and `test cx, 0` always set ZF, so all four calls address the primary
  master (`Target`). The poll at `ata.inc:303` has no bound. `ata.inc:335` sets CX
  for `rep insw`, which counts in ECX in 32-bit code.
* `ata.c:442` says "No ATAPI device detected"; a good drive is overlooked also when it
  is slower than the wait of line 152, answers READ CAPACITY with an error (lines
  340-344), or is tested through the NULL pointer of line 447.
* `ata.c:358` prints "Detecting Devices Done" while the drive may still be busy with
  the READ CAPACITY of line 338: the first command of `read_sector` is then ignored and
  the poll of line 511 never ends (`Lost`).
* `vesa.inc:139-143` lists four resolutions; `jne .NextEntry` at lines 149 and 152 leaves
  1024x768 only. Line 249 takes the offset of the mode list's far pointer as its
  address. `VesaFinish` is commented out (`stage2.asm:329`): the mode announced to the
  kernel is not set.
* `revision.c:225-226` flushes and returns what `fclose` says; after a full disk the library
  has dropped the text, so the tool returns 0 with a header cut short (`WriteFails`).
* `stage2.asm:175`: `identify_ata_devices` writes "No Device" or the drive's data over the
  first rows of the screen, where `init_print_stage2` has just printed the banner
  (`print_fixed_size_string`), and the text printed next does not go behind it.
* `mem.c:12` `heap_offset = 0`, `ISO9660FS.c:8` and `ata.c:492` rely on a `.bss` that is
  clear; nothing clears it (`Starts`, `StaleRoots`, `read_12`). `ISO9660FS.c:228` "Assume iso_fs has
  been populated during mount": `init_vfs` goes on when the mount failed.
* `ISO9660FS.c:484-487` copies up to 255 bytes of a name into `filename[128]`
  (`Overwrites`); `iso9660_find_in_directory` cuts it (line 176).
* `revision.h:2`: "description of the current build"; `print.elf` is not rebuilt when it
  changes, so the banner shows the build that last compiled `print.c`.
* `print.c:23` computes the hardware cursor from `column * SCREEN_WIDTH + row`, and only
  when the screen is cleared, where both are 0.
* `print.c:122-123` has `hex_str[8] = '\0'` in an array of 5 ("8 hex digits");
  nothing calls the function. `print.c:146` negates `INT_MIN`; nothing prints it.
* `elf.c:10`: `g_kernelAddress` "stores the address where kernel is loaded"; it is the
  address of the last PT_LOAD segment in the table.
* `vfs.c:37` writes the terminator at index 512 of a 512-byte buffer (line 32) if the
  probe file is large enough.
* `stage2.asm:211` and `238` reach error labels assembled for 16 bits with a 32-bit
  code segment (`ErrorLabel`).
* `memory.inc:34` "Trap code": its `hlt` is not in a loop; a tick continues into the
  next routine with the registers of `pusha` on the stack.
* `memory.inc:165` says entries are skipped if ACPI attribute bit 0 is set; the code
  skips if it is clear, which is what ACPI 3 asks for. `memory.inc:142` takes a table
  of one entry that ends with EBX = 0 for no table (`FirstCall`).
* `iso9660.inc:343-350`: the quotient in EAX is not the sector count, as EDX holds the
  identifier length; only the low 16 bits are, and `loop` uses just these. A nonzero
  high half of EDX is a divide error.
* `iso9660.inc:128` "go to infinite loop" on an invalid disk: the code returns and
  searches whatever is in the directory buffer.
* `iso9660.inc:288-289` "if the length of the file identifier ... matches": lengths are
  never compared, `STAGE2.BINX` is taken for `STAGE2.BIN` (`Matches`).
* `stage1.asm:246` "Jump to the loaded binary": the jump is made also when the file was
  not found (`DidntFind`).

## 6. Not modelled

* **Keyboard routines** and the **legacy ISO 9660 reader** (`ISO9660.c`): nothing calls
  them, so there is no execution to model. **Port I/O**: one instruction each, part of
  the steps that use it.
* **Console**: colours, the hardware cursor, negative numbers, and `print16.inc`; of
  `print32.inc` only which cells it writes. The text of the error labels is left out, as
  the CPU decodes their code in another mode. That stage 2 prints from many places is
  abstracted to arbitrary texts after the banner.
* **Build files**: everything but counting, compiling `print.c` and `clean`. An image is
  booted only after it was built; the copies into the ISO are left out.
* **Revision tool**: date, time, system, and an argument that is no command (it
  rewrites the header unchanged). `GetNextLine` has no bound on a line's length or
  number of tokens; the headers it meets are the ones it wrote.
* First stage: a directory sector without a terminating zero, an empty
  `STAGE2.BIN` (`loop` with CX = 0 runs 65536 times). The proofs of the
  first stage assume files that are not empty and end below 1 MB (`RoomAssumption`).
* What a boot does once the program has been overwritten (`Derail` of `Iso9660FS` and
  `ElfLoad`). Records that straddle the end of a directory sector, and what the parser
  makes of the bytes of a `Junk` buffer in detail: it may find any of `Garbage`, which the
  proofs leave arbitrary and the run gives two values.
* `GetMemorySize`: two values, and their being both 0 stops the boot
  (`NoMemorySize`); the arithmetic in between is left out.
* `ISO9660FS.c` also holds `iso9660_open1`, `_open_old` and `_list2`, which nothing
  calls.

## 7. Plan

Done, in this order, because the later parts rest on the earlier: driver and drive
with its abstract promise, also in the state detection leaves the drive in; heap; file
system over both; ELF loader on what the file system left; the boot sequence around
them, then with its video search; first stage, A20, detection and memory map, which
stand on their own; build, revision tool and console. The safety properties of all of
them are proved.

Not done, and next:

1. An abstract specification of `load_kernel` (returns the file the path names, or
   fails) that `Iso9660FS` implements on a sound volume; `KernelIsLoaded` is its
   core.
2. `SectorRead` as the environment of `Iso9660FS`: that its three `Outcomes` are the
   ways a call of `SectorRead` may end, `whole` that of `CleanReturn`.
3. `NumeralsRight` for numbers of up to three digits, without powers and folds.
