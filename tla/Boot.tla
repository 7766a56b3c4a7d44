-------------------------------- MODULE Boot --------------------------------
(***************************************************************************)
(* From loader to idle loop: the calls of initializers() in their order,   *)
(* on a disk that may not be readable, and the way into and out of an      *)
(* interrupt at any moment (isr_asm.s, isr.cpp): the descriptors, the      *)
(* gates, what is pushed and popped, and the segment registers.            *)
(*                                                                         *)
(* What the controllers ask for, and when, is the matter of module         *)
(* Interrupts; here an interrupt comes whenever they are enabled.          *)
(* External: the processor's part in an interrupt, the BIOS, which leaves  *)
(* IRQ 0 on vector 8, and the boot loader, which leaves interrupts off and *)
(* no usable IDT.  An NMI may come at any time.                            *)
(***************************************************************************)
EXTENDS Geometry, Sequences, FiniteSets
LOCAL INSTANCE SequencesExt

CONSTANTS
  Disks,      (* where a disk's partition begins, its boot sector, and what *)
              (* the MBR has in the places of a boot sector's fields *)
  MaxNMI      (* bound: non-maskable interrupts in one behaviour *)

ASSUME BootAssumption ==
  /\ MaxNMI \in Nat
  /\ \A d \in Disks : d.lba \in 1 .. DWord - 1 /\ DOMAIN d.sector = Field
                        /\ d.sector.BytsPerSec > 0 /\ d.sector.SecPerClus > 0
                        /\ d.mbr \in [Field -> Nat]

Vector == 0 .. 255
IRQ    == {0, 1, 14}               (* timer, keyboard, disk *)
CodeSelector == 8                  (* GDT_CODE_SEGMENT *)
DataSelector == 16                 (* GDT_DATA_SEGMENT *)

VARIABLES
  at,         (* boot, idle, handler, exit (of isr_common), or reset *)
  step,       (* the call of initializers() in progress *)
  interrupts, (* the interrupt flag *)
  ds,         (* DS, and ES, FS, GS with it *)
  stack,      (* its top first *)
  gdt,        (* lgdt done *)
  idt,        (* lidt done *)
  present,    (* the gates with the present flag *)
  ISRHandlers,(* the vectors that have a handler *)
  pic,        (* the vector of IRQ 0 *)
  unended,    (* devices whose interrupt no handler ended *)
  disk,
  lba_start,
  boot_sector,
  nmis

tables == <<gdt, idt, present, ISRHandlers, pic>>
volume == <<disk, lba_start, boot_sector>>
vars == <<at, step, interrupts, ds, stack, tables, volume, unended, nmis>>

(***************************************************************************)
(* The descriptors.                                                        *)
(***************************************************************************)
GDT_ENTRY(base, limit, access, flags) ==
  [LimitLow |-> limit % 65536, BaseLow |-> base % 65536, BaseMiddle |-> (base \div 65536) % 256,
   Access |-> access, FlagsLimitHi |-> ((limit \div 65536) % 16) + 16 * (flags \div 16),
   BaseHigh |-> base \div (65536 * 256)]

PresentCode == 128 + 24 + 2        (* present, ring 0, code, readable *)
PresentData == 128 + 16 + 2        (* present, ring 0, data, writeable *)
Flags32Pages == 64 + 128           (* 32 bit, limit in pages *)

g_GDT ==
  <<GDT_ENTRY(0, 0, 0, 0),
    GDT_ENTRY(0, 1048575, PresentCode, Flags32Pages),
    GDT_ENTRY(0, 1048575, PresentData, Flags32Pages)>>

(* What the processor makes of a selector: all memory, as code or data. *)
Flat(d) ==
  /\ d.Access >= 128
  /\ d.BaseLow = 0 /\ d.BaseMiddle = 0 /\ d.BaseHigh = 0
  /\ d.LimitLow = 65535 /\ d.FlagsLimitHi = 15 + Flags32Pages
IsCode(sel) == sel \div 8 \in 0 .. Len(gdt) - 1 /\ Flat(gdt[sel \div 8 + 1]) /\ (gdt[sel \div 8 + 1].Access \div 8) % 4 = 3
IsData(sel) == sel \div 8 \in 0 .. Len(gdt) - 1 /\ Flat(gdt[sel \div 8 + 1]) /\ (gdt[sel \div 8 + 1].Access \div 2) % 16 = 9

(***************************************************************************)
(* The stack of an interrupt, top first, from what isr_common passes to    *)
(* ISR_Handler to what the processor pushed.                               *)
(***************************************************************************)
(* The stubs that push no error code of their own, for the exceptions that *)
(* the processor gives one.                                                *)
ERRORCODE == {8, 10, 11, 12, 13, 14, 17, 21}
NOERRORCODE == Vector \ ERRORCODE

SavedDS == 0                       (* cleared before it is pushed *)

Frame(v, code, context) ==
  <<"esp", SavedDS, "registers", v>> \o (IF v \in NOERRORCODE THEN <<0>> ELSE << >>)
    \o code \o <<context, CodeSelector, interrupts>>

(* The fields of Registers, for a pointer to the second word. *)
regs_interrupt == stack[4]
AfterTooFew(n) == SubSeq(stack, n, Len(stack))
After(n) == SubSeq(stack, n + 1, Len(stack))

NoErrorCode == << >>
ErrorCode == <<"error">>

BTypeOK ==
  /\ at \in {"boot", "idle", "handler", "exit", "reset"}
  /\ step \in 1 .. 12
  /\ interrupts \in BOOLEAN
  /\ ds \in {"loader", "data", "null"}
  /\ Len(stack) % 8 = 0
  /\ present \subseteq Vector /\ ISRHandlers \subseteq Vector
  /\ pic \in {8, 32}
  /\ unended \subseteq IRQ
  /\ disk \in Disks
  /\ lba_start \in 0 .. DWord - 1
  /\ boot_sector \in [Field -> Nat]
  /\ nmis \in 0 .. MaxNMI

Init ==
  /\ at = "boot"
  /\ step = 1
  /\ interrupts = FALSE
  /\ ds = "loader"
  /\ stack = << >>
  /\ gdt = << >> /\ idt = FALSE /\ present = {} /\ ISRHandlers = {} /\ pic = 8
  /\ unended = {}
  /\ disk \in Disks
  /\ lba_start = 0
  /\ boot_sector = Unread
  /\ nmis = 0

(***************************************************************************)
(* An interrupt: the processor, the stub and isr_common up to the call.    *)
(***************************************************************************)
KeptDS == ds
LoadedDS == IF IsData(DataSelector) THEN "data" ELSE "null"

Take(v, code) ==
  /\ IF idt /\ v \in present /\ IsCode(CodeSelector)
     THEN /\ at' = "handler"
          /\ stack' = Frame(v, code, at) \o stack
          /\ interrupts' = FALSE
          /\ ds' = LoadedDS
     ELSE at' = "reset" /\ UNCHANGED <<stack, interrupts, ds>>
  /\ UNCHANGED <<step, tables, volume, unended>>

Interrupt(i) ==
  /\ interrupts
  /\ Take(pic + i, NoErrorCode)
  /\ UNCHANGED nmis

NMI ==
  /\ at # "reset"
  /\ nmis < MaxNMI
  /\ nmis' = nmis + 1
  /\ Take(2, NoErrorCode)

(* Code that uses memory other than the stack faults with no segment. *)
NullSegment ==
  /\ at \in {"boot", "handler"}
  /\ ds = "null"
  /\ Take(13, ErrorCode)
  /\ UNCHANGED nmis

(* It is the handlers that end a device's interrupt at its controller;     *)
(* what else they do is the matter of other modules.                       *)
ISR_Handler ==
  /\ at = "handler"
  /\ ds = "data"
  /\ at' = "exit"
  /\ unended' = IF regs_interrupt \in ISRHandlers THEN unended
                ELSE unended \cup {i \in IRQ : pic + i = regs_interrupt}
  /\ UNCHANGED <<step, interrupts, ds, stack, tables, volume, nmis>>

(* isr_common after the call: the stack pointer, the segments, the other   *)
(* registers, number and error code come off, then iret.                   *)
Return ==
  /\ at = "exit"
  /\ ds' = IF stack[2] = 0 THEN "null" ELSE "data"
  /\ at' = stack[6]
  /\ interrupts' = stack[8]
  /\ stack' = After(8)
  /\ UNCHANGED <<step, tables, volume, unended, nmis>>

(***************************************************************************)
(* initializers().                                                         *)
(***************************************************************************)
EnabledEarly ==
  <<"screen", "GDT_Initialize", "IDT_Initialize", "ISR_Initialize", "Populate_Irq_Entries",
    "Enable_interrupts", "Init_pic", "Identify", "Read_MBR", "readBootSector", "geometry">>
EnabledBeforeHandlers ==
  <<"screen", "GDT_Initialize", "IDT_Initialize", "ISR_Initialize", "Init_pic",
    "Enable_interrupts", "Populate_Irq_Entries", "Identify", "Read_MBR", "readBootSector", "geometry">>
EnabledBeforeDisk ==
  <<"screen", "GDT_Initialize", "IDT_Initialize", "ISR_Initialize", "Populate_Irq_Entries",
    "Init_pic", "Enable_interrupts", "Identify", "Read_MBR", "readBootSector", "geometry">>
GatesLate ==
  <<"screen", "GDT_Initialize", "IDT_Initialize", "Populate_Irq_Entries",
    "Init_pic", "Identify", "Read_MBR", "readBootSector", "geometry", "ISR_Initialize", "Enable_interrupts">>
Calls ==
  <<"screen", "GDT_Initialize", "IDT_Initialize", "ISR_Initialize", "Populate_Irq_Entries",
    "Init_pic", "Identify", "Read_MBR", "readBootSector", "geometry", "Enable_interrupts">>

Current == IF step <= Len(Calls) THEN Calls[step] ELSE "none"

Running(name) ==
  /\ at = "boot"
  /\ ds # "null"
  /\ Current = name

Done ==
  /\ step' = step + 1
  /\ at' = IF step = Len(Calls) THEN "idle" ELSE "boot"
  /\ UNCHANGED <<stack, disk, unended, nmis>>

(* Text on the screen; and Identify, which ends as module Ata shows. *)
Other ==
  /\ Running("screen") \/ Running("Identify")
  /\ Done
  /\ UNCHANGED <<interrupts, ds, tables, lba_start, boot_sector>>

GDT_Initialize ==
  /\ Running("GDT_Initialize")
  /\ Done
  /\ gdt' = g_GDT
  /\ ds' = "data"
  /\ UNCHANGED <<interrupts, idt, present, ISRHandlers, pic, lba_start, boot_sector>>

IDT_Initialize ==
  /\ Running("IDT_Initialize")
  /\ Done
  /\ idt' = TRUE
  /\ UNCHANGED <<interrupts, ds, gdt, present, ISRHandlers, pic, lba_start, boot_sector>>

(* Every vector has its stub, and all but one are then present. *)
ISR_Initialize ==
  /\ Running("ISR_Initialize")
  /\ Done
  /\ present' = Vector \ {128}
  /\ UNCHANGED <<interrupts, ds, gdt, idt, ISRHandlers, pic, lba_start, boot_sector>>

Populate_Irq_Entries ==
  /\ Running("Populate_Irq_Entries")
  /\ Done
  /\ ISRHandlers' = {32, 33, 47}
  /\ present' = present \cup {32, 33, 47}
  /\ UNCHANGED <<interrupts, ds, gdt, idt, pic, lba_start, boot_sector>>

Init_pic ==
  /\ Running("Init_pic")
  /\ Done
  /\ pic' = 32
  /\ UNCHANGED <<interrupts, ds, gdt, idt, present, ISRHandlers, lba_start, boot_sector>>

(* The global that is read into holds zeros when nothing comes. *)
Read_MBR ==
  /\ Running("Read_MBR")
  /\ Done
  /\ lba_start' \in {disk.lba, 0}
  /\ UNCHANGED <<interrupts, ds, tables, boot_sector>>

(* With lba_start 0 it is the MBR that is read, and the boot loader's code *)
(* in it taken for the fields of a boot sector.                            *)
readBootSector ==
  /\ Running("readBootSector")
  /\ Done
  /\ boot_sector' \in {Unread, IF lba_start = 0 THEN disk.mbr ELSE disk.sector}
  /\ UNCHANGED <<interrupts, ds, tables, lba_start>>

(* The division by bytes_per_sector, or by sectors_per_cluster. *)
NoDivisor == boot_sector.BytsPerSec = 0 \/ boot_sector.SecPerClus = 0

Divide ==
  /\ Running("geometry")
  /\ ~NoDivisor
  /\ Done
  /\ UNCHANGED <<interrupts, ds, tables, lba_start, boot_sector>>

(* The exception that finds no handler and comes back to the division. *)
DivideError ==
  /\ at = "boot"
  /\ Current = "geometry"
  /\ NoDivisor
  /\ Take(0, NoErrorCode)
  /\ UNCHANGED nmis

Enable_interrupts ==
  /\ Running("Enable_interrupts")
  /\ Done
  /\ interrupts' = TRUE
  /\ UNCHANGED <<ds, tables, lba_start, boot_sector>>

initializers ==
  \/ Other \/ GDT_Initialize \/ IDT_Initialize \/ ISR_Initialize \/ Populate_Irq_Entries
  \/ Init_pic \/ Read_MBR \/ readBootSector \/ Divide \/ DivideError \/ Enable_interrupts

Processor == initializers \/ NullSegment \/ ISR_Handler \/ Return

Next == Processor \/ NMI \/ \E i \in IRQ : Interrupt(i)

Spec == Init /\ [][Next]_vars /\ WF_vars(Processor)

(***************************************************************************)
(* Properties.                                                             *)
(***************************************************************************)
(* The machine does not reset once the gates are there: whatever comes     *)
(* when, the order of the calls has its descriptor and its gate in place.  *)
(* Only an NMI can come before they are.                                   *)
ResetOnlyByEarlyNMI == at = "reset" => nmis > 0 /\ step <= 4

(* When isr_common returns, what iret takes from the stack is what the     *)
(* processor put there, for vectors with and without an error code and for *)
(* interrupts inside interrupts; so the vector of IRQ 0 may not be that of *)
(* an exception with an error code when interrupts are enabled.            *)
FrameIntact ==
  at = "exit" =>
    /\ Len(stack) >= 8
    /\ stack[6] \in {"boot", "idle", "handler", "exit"}
    /\ stack[7] = CodeSelector
    /\ stack[8] \in BOOLEAN

(* An interrupt that finds no handler is never ended, and the controller   *)
(* lets nothing of its priority or below it through again.  It is only the *)
(* disk's, whose handler is entered for another vector: a tick or a key    *)
(* finds its handler, as interrupts are enabled after those are entered    *)
(* and the controllers moved to the vectors they are entered for.          *)
TimerAndKeyboardEnded == unended \subseteq {14}

(* isr_common does not restore the segment registers but clears them (it   *)
(* pushes DS after clearing it).  Nobody is hurt: they are null only for   *)
(* the idle loop, which uses no memory, unless there was an NMI or boot is *)
(* at the division by zero that is repeated for ever.                      *)
Dividing == Current = "geometry" /\ NoDivisor
NullOnlyWhenIdle == ds = "null" => at \in {"idle", "exit"} \/ nmis > 0 \/ Dividing

(* On a volume of 16 sectors per cluster, and on no other, the kernel has  *)
(* every cluster where the host has it, although it counts from cluster 3  *)
(* (once it has read the MBR, and with it where the volume is).            *)
Mounted == step > 10 /\ lba_start # 0
ClustersAgree ==
  Mounted =>
    \A c \in {2, 3, ClusterCount(boot_sector) + 1} :
      start_sector(lba_start, boot_sector, c) = ClusterPlace(lba_start, boot_sector, c)
        <=> boot_sector.SecPerClus = 16

(* Write_File looks for free clusters only among those the volume has, and *)
(* comes to an end if it finds none, unless the size cut to 16 bits wraps. *)
SearchSound ==
  Mounted /\ ~Wraps(lba_start, boot_sector) =>
    /\ Searched(lba_start, boot_sector) \subseteq 2 .. ClusterCount(boot_sector) + 1
    /\ SearchEnds(lba_start, boot_sector)

(* Boot comes to the idle loop on every disk whose boot sector is read; on *)
(* another it may divide by zero again and again.                          *)
BootEnds == <>(at = "idle" \/ nmis > 0 \/ Dividing)
=============================================================================
