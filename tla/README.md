# Fridkin OS in TLA+

Specifications of the 32-bit kernel in this repository, checked with TLC and
proved about with TLAPS. Paths below are those of the repository.

## The system

One image, one privilege level, no tasks. `kernelMain` calls `initializers()`
and then spins in `while (1)`. Everything a user sees happens inside interrupt
handlers: the handler of the keyboard reads a scan code, edits the command
line, draws on the text screen, and, at Enter, runs the command. Every gate is an
interrupt gate, so a command, a whole disk write included, runs with
interrupts off. `write` is special: it stays in the handler of its own Enter and
calls the handler again for every key of the file's data, polling.

| Component | State | Operations | Talks to |
|---|---|---|---|
| Volume (`src/fat16/fat16.cpp`) | on disk: FAT, one directory sector, data region; in memory: the geometry | `Write_File`, `Read_MBR`, `readBootSector` | ATA driver |
| File commands (`src/commands.cpp`, `fat16.cpp`) | the static table of `file_names()` | `Read`, `ls`, `Write`, `Read_File`, `List_Entries` | volume, console |
| Console (`irq.cpp`, `kernel.h`, `commands.cpp`) | screen, cursor, `command_buffer`, `write_file_buffer`, their indexes, `shift_pressed`, `write_state` | `Keyboard`, `putchar`, `scroll`, `execute_command`, `Write`'s loop | interrupts (called by), file commands (calls) |
| Interrupts (`irq.cpp`, `isr.cpp`, `isr_asm.s`, `isrs_gen.cpp`, `pic.cpp`) | the 8259s' request and service registers, `ISRHandlers` | `isr_common`, `ISR_Handler`, `Timer`, `Keyboard`, `PIC_sendEOI` | devices, console |
| ATA driver (`disk.cpp`) | the registers of the drive | `Identify`, `Read28`, `Write28`, `Flush` | drive |
| Up time (`kernel.cpp`, `irq.cpp`, `commands.cpp`) | one counter, two declarations of it | `Timer`, `printDecimal` | interrupts, console |
| Boot (`loader.s`, `kernel.cpp`, `initializers.cpp`), descriptors (`gdt`, `idt`) | tables, segment registers | set once, in an order | all |

What is hard: the order of disk writes and what is left when power fails
between them; transfers that fail without anybody being told; a directory and a FAT
that fill up; a table in memory that goes stale; names that are cut on the way
in and on the way out; arithmetic in 16 and 32 bits on sizes of disks; one handler called
from inside itself, with ends of interrupt of its own; requests latched for keys
that were polled; interrupts inside interrupts on one stack, with stubs that clear
the segment registers; a screen that scrolls and wraps while a line is edited; buffers
that are reused without being cleared, next to a counter that is wider in one file
than in another.

What makes each part correct:

* volume: a file is in the directory only when it is all there; no cluster has two
  owners; the directory loops find every file; clusters are lost only where that cannot be
  helped; a write returns; a failed transfer harms only what it must;
* geometry: the kernel and the host find the same cluster in the same place, and the search for
  free clusters stays on the volume and ends;
* driver: a sector holds what was written to it, whole; the drive is never left in the middle of a
  transfer; a call returns;
* file commands: what was written can be read back, unchanged by other writes;
* console: what is on the screen is what the kernel holds; what is typed is what
  is executed or saved;
* interrupts: no device is shut out, every key is fetched, what was interrupted goes on as it was;
* boot: nothing is used before it is set up.

## Modules

| Module | Models | Composition |
|---|---|---|
| `Names` | name typed -> name bytes -> name listed | used by `Fat16` |
| `FileStore` | abstract: files appear whole and stay | implemented by `Fat16` |
| `Fat16` | the volume and `Write_File`, one disk write per step | |
| `FatFaults` | `Write_File` on a disk whose reads and writes fail unnoticed | extends `Fat16` |
| `FileCommands` | `read`, `ls`, `write` | extends `Fat16` |
| `SectorStore` | abstract: sectors are read and written whole | implemented by `Ata` |
| `Ata` | the driver and, concurrently, the drive | |
| `LineEditor` | abstract: typing, erasing, executing, saving | implemented by `Console` |
| `Console` | keys, buffers, screen, dispatch | |
| `UpTime` | the timer's counter beside the console's variables, `printDecimal` | extends `Console` |
| `Interrupts` | controllers, devices, handlers | |
| `Geometry` | the arithmetic of `readBootSector`, and the FAT format's | used by `Boot` |
| `Boot` | `initializers()`, descriptors, gates, stubs, `isr_common` | extends `Geometry` |
| `MC...` | small instances | |
| `Fat16Proofs`, `FatFaultsProofs`, `FileCommandsProofs`, `AtaProofs`, `ConsoleProofs`, `InterruptsProofs`, `BootProofs` | theorems | each extends what it is about; `ConsoleProofs` covers `UpTime` |
| `Recursion` | theorems about least numbers and functions defined round by round | used by the proofs |

**Fat16.** `fat`, `dir` and `data` are what survives a power failure. `Write_File`
is cut at its disk accesses: `ScanCluster` is one round of the search
(`Read_FAT_Entry`), `LinkCluster` one `Write_FAT_Entry`, `StoreCluster` and
`StoreRest` one `Write_Cluster` (which is many sectors; in between the cluster is
`Torn`), `CreateEntry` the read, change and write of the directory sector.
`pc` says where the call is. A name is a sequence of characters; a cluster's
content is a piece of a payload. `file` holds the chain a directory entry stands for;
it is not on the disk, and `IsFile` says that entry, FAT and data agree
with it. `WellFormed` describes the disks the kernel may be booted from (`Disks`).
A name that the host could not fit into eight characters has an entry of its own in front of the
file's, with no cluster and characters for a size (`LongName`): the kernel, which never looks at the
attribute, takes it for a file, and the model keeps it in a slot, where nothing may touch it.
A sector transfer is whole and succeeds here; `FatFaults` takes that back. Only the first
copy of the FAT is in the model, as the kernel uses no other. The extension bytes are left
out, for the kernel never looks at them.

**FatFaults** adds what `Ata` shows the driver may do without telling: a read that leaves
the caller's array as it was on the stack, and a write that does not reach the disk.
`ScanMisread` takes a cluster that is in use for free, or the reverse. `LinkMisread` and
`EntryMisread` are the worst the code can do: `Write_FAT_Entry` and the end of `Write_File`
write such an array back, over the links of other files or over the directory. `misread` and
`unwritten` only remember, for the properties, that it has happened in the call in progress.

**Ata.** Driver and drive take turns in any order. The driver polls the status port,
sends and takes words; the drive is busy for as long as it likes, then delivers, asks,
fails (`ERR`) or falls silent for good (`task = "dead"`). The drive is external. It is assumed to show `BSY`
as soon as a command is written, and to ignore commands while `BSY` or `DRQ` is set, as QEMU's
does. A channel without a drive reads as an open bus or as zeros. Sector numbers that need all
four address registers are among those used, and one that does not fit 28 bits.

**FileCommands** adds the table of `file_names()`, which is overwritten
from the front only, and `reply`, what the last command printed. `Read` and `Ls` leave
the disk alone and run with interrupts off: one step. `Contents` follows the FAT as
`Read_File` does, from the entry of a long name too, which leads to cluster 0, whose place is
somewhere else on the disk (`Torn`), and then to the media byte, which reads as an end. `Read_File`
does not print as many bytes as the file has but up to a NUL: `RunsOn` says after which
sizes there is none, and a reply has the text and, in `past`, whether something unknown may follow it.
`Write` starts a call of `Fat16`, `Writing` takes its steps.

**Console.** One step is one scan code, whichever call of `Keyboard` reads it. The
screen is the visible cells and the cursor; a character that lands outside them is
not shown. `EnterCommand` keeps the order of `putchar`: cursor down, run the command,
then scroll. Texts that commands print are constants, a choice among which stands
for the commands not modelled here.

**UpTime** puts the timer between the keys. `irq.cpp` increments eight bytes where `kernel.cpp`
defines one: the byte, a byte of padding, then `command_length`. `Tick` is that sum.

**Interrupts.** `irr` and `isr` are the registers of both controllers, `running`
is the handler that runs. `keys` counts the scan codes the keyboard controller
holds; there may be some when `Init_pic` clears the controllers' edge latches, and then the first
has lost its request (`missed`): it stays until another key makes a new edge. `PIC_sendEOI` ends, on each controller it writes to, whatever is first in
service there, not the interrupt it is called for. A request stays latched when
its cause is gone, as in QEMU, which `scripts/run.sh` starts; a controller that
answers such a request with IRQ 7 instead would not show the run `stale_key`.

**Geometry, Boot.** `Geometry` has two columns: the kernel's sums in the width of its variables,
and the format's. `Boot` runs the calls of `initializers()` in their order; `Read_MBR` and
`readBootSector` may bring nothing. A boot sector that was not read is zeros, which are then divided by. An
MBR that was not read gives `lba_start` 0, and `readBootSector` then takes the MBR for a boot sector: each disk
has the numbers that stand at those offsets of its MBR (`mbr`), and boot goes on with them. `Take` is an
interrupt: it looks up the gate and the descriptors as the processor does, and pushes what the
processor, the stub and `isr_common` push; `ISR_Handler` looks up the handler, without which the device's
interrupt is not ended (`unended`); `Return` pops what `isr_common` pops. An interrupt
may come whenever the flag is set, an NMI at any time.

## Runs

| Run | Question | States |
|---|---|---|
| `chains` | Is the volume consistent after every disk write and power failure, and an implementation of `FileStore`; does every write come to its end? | 531 thousand |
| `faults` | When transfers fail and power does, what can be damaged and what not? | 602 thousand |
| `commands` | Does every file read back, through the stale table, and stay what it was? | 112 thousand |
| `disk` | Do driver and drive stay in step, and implement `SectorStore`? | 72 thousand |
| `console` | Does the screen show, and do the buffers hold, what was typed, with the timer running? | 236 thousand |
| `interrupts` | Do keys and ticks get through, in every nesting? | 240 |
| `boot` | Does every order of interrupts find its tables and its handlers, and does the volume mounted agree with the format? | 1024 |
| `directory_full`, `empty_name`, `bottom_line`, `carry`, `stale_key` | What the code's comments say and the code does not do | |

Properties, and where they come from, are stated above each definition. The
five runs that end in a violation are the findings of `PROJECT.json`.

**Bounds.** `chains`: three directory slots, clusters 2 to 7 of which the search
covers 3 to 6, files of one or two clusters of two bytes, two contents, two names with
one stem, four starting volumes (fresh; used, with an erased entry; with a file in two
pieces and an empty one; with a long name's entry before its file's). A file of two clusters has a first and a last round in each loop
and a link that is not the end mark; three slots are enough to have an erased
slot in front of, and behind, a file, and to become full; the FAT becomes full with
slots free, and with one cluster free when two are needed. `faults`: two slots, clusters
2 to 5, three FAT entries to a sector so that a link shares its sector with another file's,
`MaxFaults = 2` so that one failure meets what another has left; what the stack holds is all
free, all in use, an empty directory or a directory with a file. The theorems need none of
these bounds. `commands`: files of one cluster, the size `Read_File`'s buffer is made for
(`fat16.cpp:321`), filling it or not, on the used volume, the one with a long name, and one with an erased entry between two files; a name that collides with the
file of the host once cut, one with a blank, and one that is only an extension, whose entry hides those
behind it and so leaves rows of the static table behind (the only way, as entries never go away). `disk`: sectors of four bytes, that is two words, data shorter than, as long as and longer
than a sector, of odd and even length. `console`: nine cells, one key with two characters, five
characters in either buffer: a line wraps, the screen scrolls while a wrapped line is on it, and releases
leave zeros anywhere. A byte has two values and `MaxTicks` is 3, one less than the carry into
`command_length`, which run `carry` goes on to show. `MAX_COMMAND_LENGTH` and `DataLength` end the typing in the model;
the code checks neither. `interrupts`: up to three codes waiting (`MaxKeys`), one in the
port and more behind it. `boot`: the disk `run.sh` makes, one a little smaller whose size wraps, and two others;
one NMI (`MaxNMI`), before, between and inside everything else; `DWord` is 2^30 because TLC's
integers have 32 bits, and no sector number of the four disks comes near it.

**Deadlock** is checked except in `disk` and `boot`, where the system may really stop: the driver polls a drive
that has fallen silent for ever, and a machine that has reset is out of the model.

**Fairness.** `Fat16`, `FatFaults`: only the steps of a call in progress (`WF(KernelStep)`), because
a handler runs with interrupts off until it returns or power fails; users write when they
like, nobody need switch the machine on, and no transfer has to fail. `Ata`: the driver goes on
polling and the drive goes on working, where falling silent is one of the things it may do.
`Boot`: the processor goes on with whatever it runs. `Interrupts`: handlers run on, boot finishes,
the timer's and the disk's requests are accepted, and (`SF`) so is a request of the
keyboard that could be accepted again and again: the timer's 55 ms leave the idle loop
time between two of its handlers, which is also why `Tick` does not come while its
handler runs. Nothing is asked of the devices or the user; a user in `write` may never
press Enter.

**What the runs say that is not obvious.**

* A write that fails on disk harms nobody but the file being written; a read that fails may harm any
  file, because the array it left unfilled is written back. Neither harms later calls that meet no
  failure (`SpoiltOnlyByMisread`, `NewFileWhole`).
* `Write28` returns before the drive has the data and `Flush` writes its command at once, so a
  drive may never see it; `Flush`'s loop still waits for the write (`WrittenUnlessFailed`).
* The kernel counts clusters from 3 and adds 16 sectors. That is right for 16 sectors per cluster,
  what `run.sh` makes, and for nothing else (`ClustersAgree`). The size cut to 16 bits leaves part of such
  a disk unused but does no harm (`SearchSound`), unless it wraps, when the search does not end.
* `isr_common` clears the data segment registers of what it interrupts. The idle loop does not use
  them and nothing else is interrupted, so it is harmless as long as interrupts are enabled last
  (`NullOnlyWhenIdle`). Two cases are exempt and named: an NMI, and boot at a division by zero, whose exception
  comes back to it for ever (`Dividing`). In the calls before it, and on a disk that is never read, the
  property holds without exception.

## Known disagreements without a run

Seen while modelling, and visible in the definitions:

* `read` compares the name typed with the stem that `file_names()` rebuilds, so a file written with an extension,
  a blank or more than eight characters cannot be read under the name it was written with
  (`commands.cpp:166`, `Names`, `FileCommands!Answer`).
* `ls` leaves out names of one and two characters (`Names!ShownByLs`).
* "Not enough space" is printed with clusters free: the search never looks at cluster 2 nor beyond the size cut to
  16 bits (`fat16.cpp:403`, `Fat16!ScanFails`, `Geometry!Searched`). `NoSpaceIsTrue` says what it does mean.
* A file that fills the buffer of `Read_File`, an empty file, and a text of exactly 2000 bytes are printed on past their
  end, to the next NUL in memory (`fat16.cpp:341`, `FileCommands!RunsOn`). The comment there says "Print file contents".
* A scan code that waits when `Init_pic` runs is not read until another key is pressed (`pic.cpp:53`, `Interrupts!missed`).
* IRQ 14 has no handler (the table names vector 47, IRQ 15), so no handler of its own ends it; only an end of
  interrupt too many from `Write`'s loop may. Until then the slave controller's
  lines from it down stay blocked, the timer and the keyboard do not (`Interrupts`, `NeverShutOut`).

## Proofs

For every number of slots and clusters, every cluster size, set of names and set of
well-formed disks, from the assumptions at the head of `Fat16`:

* `Fat16Proofs!Invariance`: `IInv == TypeOK /\ FilesWhole /\ NoCrossLink /\ PendingOK`.
  `FilesWhole` and `NoCrossLink` are not inductive alone: a step may write a cluster of
  a file, or publish an unfinished one, unless the clusters of the call in progress are
  known to be nobody's, distinct, linked and filled as far as the loops have come. `PendingOK` says
  that, one conjunct per fact. The proof of `NextInvariant` has a step per action. `TypeCorrect`,
  `AlwaysWhole`, `NeverCrossLinked` and `PendingCorrect` follow.
* `NoFileHidden`, `LossesKnown`: under `ProperNames`, no name typed has an empty stem. The run
  `empty_name` shows the assumption is needed.
* `Fat16Proofs!VolumeImplementsStore`: `Spec => StoreSpec`. A step of `CreateEntry` that
  finds a slot is `Create`, provided the stem is not empty; every other step leaves the stored
  files as they are, which is where `FilesWhole` and `PendingOK` are used.
* `NoSpaceNeverWrong`: `Spec => NoSpaceIsTrue`. `SearchComplete` says that the search passes by no free cluster it does not take,
  so where it gives up, all that are free have been taken, and they are too few (`FewElements`).

For the shell on top of it, whatever was typed before and wherever the power failed:

* `FileCommandsProofs!ShellOnVolume`: `CSpec => Spec`, so all of the above holds under `read`, `ls` and `write`.
* `CommandInvariance`: the rows of the static table are the entries seen by some earlier call, and each is still
  on the disk, since entries never change or go away; and the FAT begins with the media byte (`MediaByte`), which ends
  the walk from a long name's entry. `TableNeverWrong`, `CommandTypes` follow.
* `FilesReadable`: a file the directory loops come to, with no entry of its name in front of it, is found
  through the table and read to its last byte, whatever names were typed before and whatever is left in the table.
  `ReadingStable`: as long as no empty name hides a file, only a new file of that name changes what is read. `Walk` says that
  there is one sequence of clusters that obeys the loop; for a file it is the chain.
  Of a file longer than one cluster, at which `Read_File` overruns its buffer, they say what the chain holds.

On a disk that fails, any number of times and with any junk on the stack, from `FaultAssumption` besides:

* `FatFaultsProofs!FaultInvariance`. `IInv` is lost, for a misread entry may bring two files together. `FInv`
  keeps the bookkeeping of the call, which no transfer touches, and says of the FAT and the data only what
  the call itself has done, if nothing in it has failed (`LinkedSoFar`, `StoredSoFar`). `FaultTypes` adds the counters.
* `MisreadsAlone`: `FSpec => SpoiltOnlyByMisread`. A search that reads correctly finds a cluster free, so it is in no
  whole file (`WholeNotFree`); after that only clusters of the call are written.
* `SoundCallsWriteWholeFiles`: `FSpec => NewFileWhole`, from `FInv` at the step that writes the entry.

For every sector size, all data and all counts, from `SectorAssumption`:

* `AtaProofs!Invariance`, `AlwaysQuiet`: `AInv` relates where the driver is in a transfer to how many words
  the drive still has to give or get, and to what it may be doing while the driver waits; `DriveQuiet` is what that says when a
  call is over.
* `DataInvariance` adds `DInv`, what the words are: the sector the drive has taken in, or has stored, is the data of the call, padded; the
  sector is the one of the call (`RegistersName`: three registers and the low half of a fourth make 28 bits); the
  buffer is as its caller left it until `Read28` takes the words. `NumberAssumption` adds that the drive's sectors fit 28
  bits and the large ones do not. With it `AtaTypes`, `ReadsExact`, `WritesReachMedium`.
* `DiskImplementsStore`: `Spec => StoreSpec`. The sector changes in the step of the drive that completes a
  write; a call begins and ends where the driver's does.

For a screen of any size from two by two, buffers of any length, any tables of characters and any texts commands may print, from
`ConsoleAssumption`, `TextAssumption` (texts are made of what can be shown and line breaks; "Please enter file data" ends in
one) and `ByteAssumption`:

* `ConsoleProofs!ConsoleInvariance`, `UpTimeInvariance`: `CInv == TypeOK /\ IndexAboveText /\ TextKept`. That Backspace does not take
  the index below zero is not inductive alone: its guard looks at the column of the cursor, so the proof
  needs that the cursor is never further right than the text is long (`TextKept`), and so that the message of `write` ends in
  a line break. `UpTimeTypes`, `IndexStaysAbove` and `ErasureIsExact` follow, and hold however often the timer carries.
* `ScreenIsFaithful`: `LInv` adds `LineKept`, no zero in the line, and `ScreenShowsEntered`. `PutMoves` says that a
  character and what is in front of it move up together when the screen scrolls.
* `BuffersEditLines`: `Spec => EditsLines`. The C strings, the loop that leaves out zeros and the search for the last
  character are shown to be the line, the text and its front (`StringEnds`, `CompactedStored`, `CompactedCleared`).
* `TimerLeavesConsole`: `USpec => Spec` if `MaxTicks < Byte * Byte`, that is for fewer than 65,536 ticks, about an hour:
  `Counted`, `ticks = up_time + Byte * padding`, has no room for a carry. So both results hold next to the timer for as long
  (`ScreenIsFaithfulNextToTimer`, `BuffersEditLinesNextToTimer`). Run `console` has `MaxTicks` 3 and bytes of two values; run `carry` has one
  tick more and shows that the bound is exact.

For any `MaxKeys`:

* `InterruptsProofs!TypeCorrect`, `NobodyShutOut`, `NobodyStranded`. `InService` adds what may
  be in service while each handler runs; `SendEOI` says what an end of interrupt leaves.

For any disks and any `MaxNMI`, from the assumptions at the head of `Geometry` and `Boot`:

* `BootProofs!NoOtherReset`, `FramesMatch`, `HandlersFound`, `NullHarmless`. `BootInv` says of the whole stack what the properties say
  of its top: it is made of frames of eight words (`FramesOK`), of which all but the last belong to a handler. `TakeStep`
  puts a frame on it for any vector that has its gate, `ReturnStep` takes one off. `CalmBoot` says that without an NMI and
  before boot is at a division by zero nothing interrupts but the idle loop; `Tables` what each call of `initializers()` has left behind.
* `ClustersInPlace`, `SearchStays`, `BootTypesOK`: under `WellMadeDisks`, which says what `mkfs.vfat` sees to (fields in
  their widths, a cluster of 1 to 128 sectors, at least one cluster, all of it within 32-bit sector numbers).
  `MountInv` says that boot ends with the boot sector and the place of the disk or with none; the rest is
  arithmetic (`FirstSector`, `PlaceOfCluster`, `SearchOnVolume`).

Loops in the models (`Printf`, `KeptUpTo`, `SeenUpTo`, the contents `Read_File` follows) are recursive functions. The proofs reach them
with `Recursion`: a function that satisfies the equation of each round exists, because a least round without one
cannot, and what holds of each round by the one before holds of all by the same argument. The lemmas speak of sets of
numbers, so none has an operator for a parameter.

Only checked: liveness (`WriteReturns`, `FWriteReturns`, `CallsReturn`, `KeysAreRead`, `BootEnds`), which the prover does not reach;
and `printDecimal`, which is defined by division and which `MCConsole` evaluates for all 256 values of the byte. Every other property
of a passing run is a theorem.

## Not modelled

* `port`: one `in` or `out` each, taken as a step by `Ata` and `Interrupts`. `memset`: an assignment.
  `scripts`, `Makefile`, `linker.ld`: not part of the kernel.
* Overruns of the line and data buffers, and of `Read_File`'s one-cluster buffer by a longer file: what lies
  behind them is up to the build. The runs stop at the bounds and name them. `Write_Cluster` takes a whole cluster
  from the 2000 bytes of `Write()`; what it takes from behind them lands behind the end of the file, and so does not
  show unless the text has no NUL behind it. What is shown then is not modelled, only that it may be.
* What the file commands do on a geometry taken from an MBR's code: `Boot` goes on with it, the volume modules start
  from a volume that was mounted.
* The second copy of the FAT, which the kernel neither reads nor writes.
* The rows of the command table behind its seven commands, which compare a line with what is at
  address 0; no line is taken to match.
* The clock stands while `write` polls with interrupts off; nothing promises otherwise.
* `callConstructors` fills objects before anything uses them.

## Plan

1. Done: `Names`, `FileStore`, `Fat16`, `FileCommands`, `LineEditor`, `Console`, `Interrupts`; `Ata` with `SectorStore`,
   `FatFaults`, `UpTime`, `Geometry`, `Boot`; the proofs above.
2. `Shell`: `Console` with `FileCommands`, so that the file saved is the line typed, end to end.
3. Proofs: that `Shell` implements both; `printDecimal` for every number.
