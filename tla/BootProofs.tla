----------------------------- MODULE BootProofs -----------------------------
(***************************************************************************)
(* For every boot sector a volume may have, and however boot is            *)
(* interrupted: where the kernel looks for clusters, and which.            *)
(***************************************************************************)
EXTENDS Boot, TLAPS, SequenceTheorems

(* What mkfs.vfat sees to: the fields have their widths, a sector has      *)
(* bytes, a cluster is of 1 to 128 sectors, the volume has a cluster, and  *)
(* all of it is at a sector number that 32 bits can hold.                  *)
WellMade(lba, b) ==
  /\ lba \in Nat
  /\ b \in [Field -> Nat]
  /\ b.BytsPerSec > 0
  /\ b.SecPerClus \in 1 .. 128
  /\ b.TotSec16 < Word
  /\ DataOffset(b) + b.SecPerClus <= SectorCount(b)
  /\ lba + SectorCount(b) + 16 < DWord

(***************************************************************************)
(* Arithmetic.                                                             *)
(***************************************************************************)
LEMMA ModSmall ==
  ASSUME NEW m \in Nat \ {0}, NEW n \in 0 .. m - 1
  PROVE  n % m = n
OBVIOUS

LEMMA ModNegative ==
  ASSUME NEW m \in Nat \ {0}, NEW n \in Int, 0 - m <= n, n < 0
  PROVE  n % m = n + m
OBVIOUS

LEMMA ModBelow ==
  ASSUME NEW m \in Nat \ {0}, NEW n \in Nat
  PROVE  n % m \in 0 .. m - 1 /\ n % m <= n
OBVIOUS

LEMMA DivMonotonic ==
  ASSUME NEW m \in Nat \ {0}, NEW a \in Nat, NEW b \in Nat, a <= b
  PROVE  a \div m \in Nat /\ a \div m <= b \div m /\ a \div m <= a
OBVIOUS

LEMMA DivNatural ==
  ASSUME NEW m \in Nat \ {0}, NEW a \in Nat
  PROVE  a \div m \in Nat
OBVIOUS

LEMMA DivPositive ==
  ASSUME NEW m \in Nat \ {0}, NEW a \in Nat, m <= a
  PROVE  a \div m >= 1
OBVIOUS

LEMMA DivTimes ==
  ASSUME NEW m \in Nat \ {0}, NEW a \in Nat
  PROVE  (a \div m) * m <= a
OBVIOUS

LEMMA OneLess ==
  ASSUME NEW m \in Nat, NEW c \in Int
  PROVE  (c - 3) * m = (c - 2) * m - m
OBVIOUS

(***************************************************************************)
(* The volume.                                                             *)
(***************************************************************************)
(* Nothing overflows up to the first sector of data. *)
LEMMA FirstSector ==
  ASSUME NEW lba, NEW b, WellMade(lba, b)
  PROVE  /\ DataOffset(b) \in Nat /\ SectorCount(b) \in Nat
         /\ first_data_sector(lba, b) = lba + DataOffset(b) + 16
<1>1. /\ b.BytsPerSec \in Nat \ {0} /\ b.SecPerClus \in Nat /\ b.RsvdSecCnt \in Nat
      /\ b.NumFATs \in Nat /\ b.RootEntCnt \in Nat /\ b.TotSec16 \in Nat /\ b.TotSec32 \in Nat
      /\ b.FATSz16 \in Nat /\ lba \in Nat
  BY DEF WellMade, Field
<1>2. b.NumFATs * b.FATSz16 \in Nat
  BY <1>1
<1>3. root_directory_sectors(b) \in Nat
  <2>1. b.RootEntCnt * 32 + (b.BytsPerSec - 1) \in Nat
    BY <1>1
  <2>. QED
    BY <1>1, <2>1, DivMonotonic DEF root_directory_sectors
<1>4. DataOffset(b) \in Nat /\ SectorCount(b) \in Nat
  BY <1>1, <1>2, <1>3 DEF DataOffset, SectorCount
<1>5. lba + DataOffset(b) + 16 \in 0 .. DWord - 1 /\ DWord \in Nat \ {0}
  BY <1>1, <1>4, WidthAssumption DEF WellMade
<1>6. fat_start_sector(lba, b) = lba + b.RsvdSecCnt
  <2>1. lba + b.RsvdSecCnt \in 0 .. DWord - 1
    BY <1>1, <1>2, <1>3, <1>5 DEF DataOffset
  <2>. QED
    BY <1>5, <2>1, ModSmall DEF fat_start_sector
<1>7. root_dir_start_sector(lba, b) = lba + b.RsvdSecCnt + b.NumFATs * b.FATSz16
  <2>1. lba + b.RsvdSecCnt + b.NumFATs * b.FATSz16 \in 0 .. DWord - 1
    BY <1>1, <1>2, <1>3, <1>5 DEF DataOffset
  <2>. QED
    BY <1>5, <1>6, <2>1, ModSmall DEF root_dir_start_sector
<1>8. root_dir_start_sector(lba, b) + root_directory_sectors(b) + 16 = lba + DataOffset(b) + 16
  BY <1>1, <1>2, <1>3, <1>7 DEF DataOffset
<1>. QED
  BY <1>4, <1>5, <1>8, ModSmall DEF first_data_sector

(* A place right or wrong: 16 sectors too far and one cluster too near.    *)
LEMMA PlaceOfCluster ==
  ASSUME NEW lba, NEW b, WellMade(lba, b), NEW c \in {2, 3, ClusterCount(b) + 1}
  PROVE  start_sector(lba, b, c) = ClusterPlace(lba, b, c) <=> b.SecPerClus = 16
<1>. DEFINE spc == b.SecPerClus
            off == (c - 2) * spc
            x   == lba + DataOffset(b) + off
<1>1. /\ spc \in 1 .. 128 /\ lba \in Nat /\ DataOffset(b) \in Nat /\ SectorCount(b) \in Nat
      /\ DataOffset(b) + spc <= SectorCount(b) /\ lba + SectorCount(b) + 16 < DWord
      /\ DWord \in Nat \ {0} /\ Word \in Nat \ {0} /\ 128 * Word < DWord
      /\ first_data_sector(lba, b) = lba + DataOffset(b) + 16
  BY FirstSector, WidthAssumption DEF WellMade
<1>2. ClusterCount(b) \in Nat /\ ClusterCount(b) * spc <= SectorCount(b) - DataOffset(b)
  <2>1. SectorCount(b) - DataOffset(b) \in Nat /\ spc \in Nat \ {0}
    BY <1>1
  <2>2. (SectorCount(b) - DataOffset(b)) \div spc \in Nat
    BY <2>1, DivMonotonic
  <2>3. ((SectorCount(b) - DataOffset(b)) \div spc) * spc <= SectorCount(b) - DataOffset(b)
    BY <2>1, DivTimes
  <2>. QED
    BY <2>2, <2>3 DEF ClusterCount
<1>3. ClusterCount(b) >= 1
  <2>1. SectorCount(b) - DataOffset(b) \in Nat /\ spc \in Nat \ {0} /\ spc <= SectorCount(b) - DataOffset(b)
    BY <1>1
  <2>. QED
    BY <2>1, DivPositive DEF ClusterCount
<1>4. c \in Int /\ off \in Nat /\ off <= SectorCount(b) - DataOffset(b)
  <2>1. CASE c = 2
    BY <1>1, <2>1
  <2>2. CASE c = 3
    BY <1>1, <2>2
  <2>3. CASE c = ClusterCount(b) + 1
    <3>1. c - 2 \in Nat /\ c - 2 <= ClusterCount(b)
      BY <1>2, <1>3, <2>3
    <3>2. (c - 2) * spc \in Nat /\ (c - 2) * spc <= ClusterCount(b) * spc
      BY <1>1, <1>2, <3>1
    <3>. QED
      BY <1>1, <1>2, <2>3, <3>2
  <2>. QED
    BY <2>1, <2>2, <2>3
<1>5. ClusterPlace(lba, b, c) = x
  BY DEF ClusterPlace
<1>6. start_sector(lba, b, c) = (x + 16 - spc) % DWord
  <2>1. (c - 3) * spc = off - spc
    BY <1>1, <1>4, OneLess, spc \in Nat
  <2>2. first_data_sector(lba, b) + (c - 3) * spc = x + 16 - spc
    BY <1>1, <1>4, <2>1
  <2>. QED
    BY <2>2 DEF start_sector
<1>7. x \in Nat /\ x + 16 < DWord
  BY <1>1, <1>4
<1>. HIDE DEF x, off
<1>8. CASE x + 16 - spc >= 0
  <2>1. (x + 16 - spc) % DWord = x + 16 - spc
    <3>1. x + 16 - spc \in 0 .. DWord - 1
      BY <1>1, <1>7, <1>8
    <3>. QED
      BY <1>1, <3>1, ModSmall
  <2>. QED
    BY <1>1, <1>5, <1>6, <1>7, <2>1
<1>9. CASE x + 16 - spc < 0
  <2>1. (x + 16 - spc) % DWord = x + 16 - spc + DWord
    <3>1. x + 16 - spc \in Int /\ 0 - DWord <= x + 16 - spc
      BY <1>1, <1>7
    <3>. QED
      BY <1>1, <1>9, <3>1, ModNegative
  <2>. QED
    BY <1>1, <1>5, <1>6, <1>7, <1>9, <2>1
<1>. QED
  BY <1>1, <1>7, <1>8, <1>9

(* The search stays on the volume and ends. *)
LEMMA SearchOnVolume ==
  ASSUME NEW lba, NEW b, WellMade(lba, b), ~Wraps(lba, b)
  PROVE  Searched(lba, b) \subseteq 2 .. ClusterCount(b) + 1 /\ SearchEnds(lba, b)
<1>. DEFINE t == total_sectors(b)
            d == first_data_sector(lba, b)
<1>1. /\ b.SecPerClus \in Nat \ {0} /\ lba \in Nat /\ DataOffset(b) \in Nat /\ SectorCount(b) \in Nat
      /\ DWord \in Nat \ {0} /\ Word \in Nat \ {0} /\ Word < DWord
      /\ d = lba + DataOffset(b) + 16 /\ b.TotSec16 \in Nat /\ b.TotSec32 \in Nat /\ b.TotSec16 < Word
      /\ DataOffset(b) <= SectorCount(b)
  BY FirstSector, WidthAssumption DEF WellMade, Field
<1>2. t \in 0 .. Word - 1 /\ t <= SectorCount(b)
  <2>1. CASE b.TotSec16 = 0
    <3>1. b.TotSec32 % Word \in 0 .. Word - 1 /\ b.TotSec32 % Word <= b.TotSec32
      BY <1>1, ModBelow
    <3>. QED
      BY <2>1, <3>1 DEF total_sectors, SectorCount
  <2>2. CASE b.TotSec16 # 0
    BY <1>1, <2>2 DEF total_sectors, SectorCount
  <2>. QED
    BY <2>1, <2>2
<1>3. d <= t
  BY <1>1, <1>2 DEF Wraps
<1>4. (t - d) % DWord = t - d
  <2>1. t - d \in 0 .. DWord - 1
    BY <1>1, <1>2, <1>3
  <2>. QED
    BY <1>1, <2>1, ModSmall
<1>5. total_clusters(lba, b) = (t - d) \div b.SecPerClus
  BY <1>4 DEF total_clusters
<1>6. /\ t - d \in Nat /\ SectorCount(b) - DataOffset(b) \in Nat
      /\ t - d <= SectorCount(b) - DataOffset(b) /\ t - d <= Word - 17
  BY <1>1, <1>2, <1>3
<1>7. /\ total_clusters(lba, b) \in Nat /\ ClusterCount(b) \in Nat
      /\ total_clusters(lba, b) <= ClusterCount(b) /\ total_clusters(lba, b) <= t - d
  <2>1. /\ (t - d) \div b.SecPerClus \in Nat
        /\ (t - d) \div b.SecPerClus <= (SectorCount(b) - DataOffset(b)) \div b.SecPerClus
        /\ (t - d) \div b.SecPerClus <= t - d
    BY <1>1, <1>6, DivMonotonic, t - d \in Nat
  <2>2. (SectorCount(b) - DataOffset(b)) \div b.SecPerClus \in Nat
    BY <1>1, <1>6, DivNatural
  <2>. QED
    BY <1>5, <2>1, <2>2 DEF ClusterCount
<1>. HIDE DEF t, d
<1>. QED
  BY <1>1, <1>6, <1>7 DEF Searched, SearchEnds

(***************************************************************************)
(* The volume that boot ends with is the disk's, or there is none.         *)
(***************************************************************************)
MountInv ==
  /\ step \in 1 .. 12
  /\ disk \in Disks
  /\ step <= 9 => boot_sector = Unread
  /\ boot_sector \in {Unread, disk.mbr, disk.sector}
  /\ lba_start \in {0, disk.lba}
  /\ lba_start # 0 => boot_sector \in {Unread, disk.sector}
  /\ step > 10 => ~NoDivisor

LEMMA CallOrder ==
  ASSUME step \in 1 .. 12
  PROVE  /\ Len(Calls) = 11
         /\ Current = "Read_MBR" => step = 8
         /\ Current = "readBootSector" => step = 9
         /\ Current = "geometry" => step = 10
         /\ Current # "none" => step <= 11
         /\ Current \notin {"none", "Read_MBR", "readBootSector", "geometry"} => step \notin {8, 9, 10}
BY DEF Current, Calls

LEMMA OtherCall ==
  ASSUME MountInv, Current \notin {"none", "Read_MBR", "readBootSector", "geometry"}, Done,
         lba_start' = lba_start, boot_sector' = boot_sector
  PROVE  MountInv'
BY CallOrder DEF MountInv, Done, NoDivisor

LEMMA TakeMount ==
  ASSUME MountInv, UNCHANGED <<step, volume>>
  PROVE  MountInv'
BY DEF MountInv, volume, NoDivisor

LEMMA MountStep ==
  ASSUME MountInv, [Next]_vars
  PROVE  MountInv'
<1>1. CASE Other \/ GDT_Initialize \/ IDT_Initialize \/ ISR_Initialize \/ Populate_Irq_Entries
             \/ Init_pic \/ Enable_interrupts
  <2>1. /\ Current \notin {"none", "Read_MBR", "readBootSector", "geometry"} /\ Done
        /\ lba_start' = lba_start /\ boot_sector' = boot_sector
    BY <1>1 DEF Other, GDT_Initialize, IDT_Initialize, ISR_Initialize, Populate_Irq_Entries,
       Init_pic, Enable_interrupts, Running
  <2>. QED
    BY <2>1, OtherCall
<1>2. CASE Read_MBR
  <2>1. step = 8 /\ step' = 9 /\ disk' = disk /\ lba_start' \in {disk.lba, 0} /\ boot_sector' = boot_sector
    BY <1>2, CallOrder DEF Read_MBR, Running, Done, MountInv
  <2>. QED
    BY <2>1 DEF MountInv
<1>3. CASE readBootSector
  <2>1. /\ step = 9 /\ step' = 10 /\ disk' = disk /\ lba_start' = lba_start
        /\ boot_sector' \in {Unread, IF lba_start = 0 THEN disk.mbr ELSE disk.sector}
    BY <1>3, CallOrder DEF readBootSector, Running, Done, MountInv
  <2>. QED
    BY <2>1 DEF MountInv
<1>4. CASE Divide
  <2>1. /\ step = 10 /\ step' = 11 /\ ~NoDivisor
        /\ disk' = disk /\ lba_start' = lba_start /\ boot_sector' = boot_sector
    BY <1>4, CallOrder DEF Divide, Running, Done, MountInv
  <2>. QED
    BY <2>1 DEF MountInv, NoDivisor
<1>5. CASE DivideError \/ NullSegment \/ NMI \/ \E i \in IRQ : Interrupt(i)
  BY <1>5, TakeMount DEF DivideError, NullSegment, NMI, Interrupt, Take
<1>6. CASE ISR_Handler \/ Return \/ UNCHANGED vars
  BY <1>6, TakeMount DEF ISR_Handler, Return, vars
<1>. QED
  BY <1>1, <1>2, <1>3, <1>4, <1>5, <1>6 DEF Next, Processor, initializers

LEMMA MountInit == Init => MountInv
BY DEF Init, MountInv

LEMMA MountedVolume ==
  ASSUME MountInv, Mounted
  PROVE  disk \in Disks /\ boot_sector = disk.sector /\ lba_start = disk.lba
<1>1. boot_sector # Unread
  BY DEF MountInv, Mounted, NoDivisor, Unread, Field
<1>. QED
  BY <1>1 DEF MountInv, Mounted

LEMMA Mounting == Spec => []MountInv
BY MountInit, MountStep, PTL DEF Spec

WellMadeDisks == \A d \in Disks : WellMade(d.lba, d.sector)

(* The kernel finds every cluster where the host has it on volumes of 16   *)
(* sectors per cluster, and on no others, whatever the size of the volume. *)
THEOREM ClustersInPlace ==
  ASSUME WellMadeDisks
  PROVE  Spec => []ClustersAgree
<1>1. MountInv => ClustersAgree
  BY MountedVolume, PlaceOfCluster DEF WellMadeDisks, ClustersAgree
<1>. QED
  BY <1>1, Mounting, PTL

(* The search for free clusters stays on the volume and ends, unless the   *)
(* size of the volume wraps.                                               *)
THEOREM SearchStays ==
  ASSUME WellMadeDisks
  PROVE  Spec => []SearchSound
<1>1. MountInv => SearchSound
  BY MountedVolume, SearchOnVolume DEF WellMadeDisks, SearchSound
<1>. QED
  BY <1>1, Mounting, PTL

(***************************************************************************)
(* Sequences: what goes on the stack and comes off it.                     *)
(***************************************************************************)
LEMMA Push ==
  ASSUME NEW S, NEW s \in Seq(S), NEW f \in Seq(S)
  PROVE  /\ f \o s \in Seq(S) /\ Len(f \o s) = Len(f) + Len(s)
         /\ \A i \in 1 .. Len(f) : (f \o s)[i] = f[i]
         /\ \A i \in 1 .. Len(s) : (f \o s)[Len(f) + i] = s[i]
<1>. DEFINE r == f \o s
<1>1. /\ r \in Seq(S) /\ Len(r) = Len(f) + Len(s)
      /\ \A i \in 1 .. Len(f) + Len(s) : r[i] = IF i <= Len(f) THEN f[i] ELSE s[i - Len(f)]
  BY ConcatProperties
<1>2. Len(f) \in Nat /\ Len(s) \in Nat
  OBVIOUS
<1>. HIDE DEF r
<1>3. \A i \in 1 .. Len(f) : r[i] = f[i]
  BY <1>1, <1>2
<1>4. ASSUME NEW i \in 1 .. Len(s) PROVE r[Len(f) + i] = s[i]
  <2>1. Len(f) + i \in 1 .. Len(f) + Len(s) /\ ~(Len(f) + i <= Len(f)) /\ (Len(f) + i) - Len(f) = i
    BY <1>2
  <2>. QED
    BY <1>1, <2>1
<1>5. r \in Seq(S) /\ Len(r) = Len(f) + Len(s)
  BY <1>1
<1>. QED
  BY <1>3, <1>4, <1>5 DEF r

LEMMA PushFront ==
  ASSUME NEW S, NEW f \in Seq(S), NEW s \in Seq(S), NEW i \in 1 .. Len(f)
  PROVE  (f \o s)[i] = f[i]
BY Push

LEMMA PushBack ==
  ASSUME NEW S, NEW f \in Seq(S), NEW s \in Seq(S), NEW i \in 1 .. Len(s)
  PROVE  (f \o s)[Len(f) + i] = s[i]
BY Push

LEMMA Pop ==
  ASSUME NEW S, stack \in Seq(S), Len(stack) >= 8
  PROVE  /\ After(8) \in Seq(S) /\ Len(After(8)) = Len(stack) - 8
         /\ \A i \in 1 .. Len(stack) - 8 : After(8)[i] = stack[8 + i]
<1>1. /\ Len(stack) \in Nat /\ 9 <= Len(stack) + 1
      /\ \A i \in 9 .. Len(stack) : stack[i] \in S
  OBVIOUS
<1>. DEFINE n == Len(stack)
            r == SubSeq(stack, 9, n)
<1>. HIDE DEF n
<1>2. /\ r \in Seq(S) /\ Len(r) = IF 9 <= n THEN n - 9 + 1 ELSE 0
      /\ \A i \in 1 .. n - 9 + 1 : r[i] = stack[9 + i - 1]
  <2>1. n \in Int /\ \A i \in 9 .. n : stack[i] \in S
    BY <1>1 DEF n
  <2>. QED
    BY <2>1, SubSeqProperties
<1>3. n \in Nat /\ n >= 8 /\ After(8) = r
  BY <1>1 DEF n, After
<1>. HIDE DEF r
<1>4. /\ Len(r) = n - 8
      /\ \A i \in 1 .. n - 8 : r[i] = stack[8 + i]
  <2>1. n - 9 + 1 = n - 8
    BY <1>3
  <2>2. \A i \in 1 .. n - 8 : 9 + i - 1 = 8 + i
    BY <1>3
  <2>. QED
    BY <1>2, <1>3, <2>1, <2>2
<1>. QED
  BY <1>2, <1>3, <1>4 DEF n

(* The descriptors that initializers() loads are of code and of data. *)
LEMMA DescriptorsGood == gdt = g_GDT => IsCode(CodeSelector) /\ IsData(DataSelector)
<1>. SUFFICES ASSUME gdt = g_GDT PROVE IsCode(CodeSelector) /\ IsData(DataSelector)
  OBVIOUS
<1>1. /\ 1048575 % 65536 = 65535 /\ 1048575 \div 65536 = 15 /\ 15 % 16 = 15 /\ 0 \div 65536 = 0
      /\ 0 % 256 = 0 /\ 0 % 65536 = 0 /\ 192 \div 16 = 12
  OBVIOUS
<1>2. Len(gdt) = 3 /\ gdt[2] = GDT_ENTRY(0, 1048575, PresentCode, Flags32Pages)
      /\ gdt[3] = GDT_ENTRY(0, 1048575, PresentData, Flags32Pages)
  BY DEF g_GDT
<1>3. 8 \div 8 = 1 /\ 16 \div 8 = 2 /\ (154 \div 8) % 4 = 3 /\ (146 \div 2) % 16 = 9
  OBVIOUS
<1>. QED
  BY <1>1, <1>2, <1>3 DEF IsCode, IsData, GDT_ENTRY, CodeSelector, DataSelector, Flat, PresentCode, PresentData, Flags32Pages

(***************************************************************************)
(* Interrupts at any moment of boot.                                       *)
(***************************************************************************)
Context == {"boot", "idle", "handler", "exit"}
StackWord == {"esp", "registers", "error"} \cup Context \cup Vector \cup BOOLEAN

(* What iret loads as the interrupt flag: set only for the idle loop. *)
FlagOf(c, flag) == flag \in BOOLEAN /\ (flag = TRUE => c = "idle")

(* The vectors that come: NMI and two exceptions in step s, and a device's *)
(* when boot is over.                                                      *)
MayCome(v, s) == v \in {0, 2, 13} \/ (v \in {32, 33, 46} /\ s = 12)

(* The stack is made of frames of eight words, the last of which is that   *)
(* of boot or the idle loop.                                               *)
FramesOK ==
  /\ stack \in Seq(StackWord)
  /\ Len(stack) % 8 = 0
  /\ \A n \in Nat : 8 * n + 8 <= Len(stack) =>
       /\ stack[8 * n + 2] = 0
       /\ MayCome(stack[8 * n + 4], step)
       /\ stack[8 * n + 6] \in Context
       /\ stack[8 * n + 7] = CodeSelector
       /\ FlagOf(stack[8 * n + 6], stack[8 * n + 8])
       /\ stack[8 * n + 6] \in {"handler", "exit"} <=> 8 * n + 16 <= Len(stack)
       /\ stack[8 * n + 6] = "boot" => step <= 11
       /\ stack[8 * n + 6] = "idle" => step = 12

Where ==
  /\ at \in Context \cup {"reset"}
  /\ at = "boot" => step <= 11 /\ Len(stack) = 0
  /\ at = "idle" => step = 12 /\ Len(stack) = 0
  /\ at \in {"handler", "exit"} => Len(stack) # 0
  /\ at = "reset" => nmis > 0 /\ step <= 4
  /\ FlagOf(at, interrupts)

Loaded == idt = TRUE

Tables ==
  /\ step >= 3 => gdt = g_GDT
  /\ step >= 4 => Loaded
  /\ step >= 5 => Vector \ {128} \subseteq present
  /\ step >= 6 => ISRHandlers = {32, 33, 47}
  /\ step >= 7 => pic = 32

(* No NMI so far, and no division by zero. *)
Calm == nmis = 0 /\ (step <= 9 \/ ~NoDivisor)

CalmBoot ==
  Calm =>
    /\ step <= 11 => at = "boot" /\ ds # "null"
    /\ at = "handler" => ds # "null"
    /\ at \in {"handler", "exit"} => Len(stack) = 8 /\ stack[6] = "idle"

BootTypes ==
  /\ step \in 1 .. 12
  /\ ds \in {"loader", "data", "null"}
  /\ present \subseteq Vector /\ ISRHandlers \subseteq Vector
  /\ pic \in {8, 32}
  /\ nmis \in 0 .. MaxNMI

BootInv == BootTypes /\ FramesOK /\ Where /\ Tables /\ CalmBoot /\ TimerAndKeyboardEnded

LEMMA Flags ==
  /\ FlagOf("idle", TRUE)
  /\ \A c : FlagOf(c, FALSE)
  /\ \A c, d, flag : FlagOf(c, flag) /\ c # "idle" => FlagOf(d, flag)
  /\ \A c, flag : FlagOf(c, flag) => flag \in StackWord
BY Zenon DEF FlagOf, StackWord

LEMMA BootInit == Init => BootInv
<1>. SUFFICES ASSUME Init PROVE BootInv
  OBVIOUS
<1>1. stack = << >> /\ Len(stack) = 0 /\ stack \in Seq(StackWord) /\ step = 1 /\ at = "boot"
  BY DEF Init
<1>2. FramesOK
  BY <1>1 DEF FramesOK
<1>3. BootTypes
  <2>1. 0 \in 0 .. MaxNMI
    BY BootAssumption
  <2>2. ds = "loader" /\ present = {} /\ ISRHandlers = {} /\ pic = 8 /\ nmis = 0
    BY DEF Init
  <2>. QED
    BY <1>1, <2>1, <2>2 DEF BootTypes
<1>4. FlagOf(at, interrupts)
  <2>1. interrupts = FALSE
    BY DEF Init
  <2>. QED
    BY <2>1, Flags
<1>5. ds = "loader" /\ TimerAndKeyboardEnded
  BY DEF Init, TimerAndKeyboardEnded
<1>. QED
  BY <1>1, <1>2, <1>3, <1>4, <1>5 DEF BootInv, Where, Tables, CalmBoot, Context

(* A call of initializers(). *)
LEMMA CallStep ==
  ASSUME BootInv, at = "boot", step <= 11, Done, nmis' = nmis, BootTypes', ds' # "null",
         FlagOf(at', interrupts'), Tables', Len(Calls) = 11
  PROVE  BootInv'
<1>1. /\ step' = step + 1 /\ stack' = stack /\ Len(stack) = 0
      /\ at' = IF step = 11 THEN "idle" ELSE "boot"
  BY DEF Done, BootInv, Where
<1>2. step \in 1 .. 11
  BY DEF BootInv, BootTypes
<1>3. FramesOK'
  BY <1>1 DEF BootInv, FramesOK
<1>4. Where'
  BY <1>1, <1>2 DEF Where, Context
<1>5. CalmBoot'
  BY <1>1, <1>2 DEF CalmBoot
<1>6. TimerAndKeyboardEnded'
  BY DEF Done, BootInv, TimerAndKeyboardEnded
<1>. QED
  BY <1>3, <1>4, <1>5, <1>6 DEF BootInv

LEMMA InitializersStep ==
  ASSUME BootInv,
         \/ Other \/ GDT_Initialize \/ IDT_Initialize \/ ISR_Initialize \/ Populate_Irq_Entries
         \/ Init_pic \/ Read_MBR \/ readBootSector \/ Divide \/ Enable_interrupts
  PROVE  BootInv'
<1>1. /\ at = "boot" /\ ds # "null" /\ Done /\ Current # "none" /\ step \in 1 .. 11
      /\ Len(Calls) = 11 /\ step' = step + 1 /\ nmis' = nmis
  <2>1. at = "boot" /\ ds # "null" /\ Done /\ Current # "none"
    BY DEF Other, GDT_Initialize, IDT_Initialize, ISR_Initialize, Populate_Irq_Entries,
       Init_pic, Read_MBR, readBootSector, Divide, Enable_interrupts, Running
  <2>. QED
    BY <2>1, CallOrder DEF Done, BootInv, BootTypes
<1>2. Current = Calls[step]
  BY <1>1 DEF Current
<1>3. at' = IF step = 11 THEN "idle" ELSE "boot"
  BY <1>1 DEF Done
<1>4. FlagOf(at', interrupts')
  <2>1. CASE interrupts' = interrupts
    BY <1>1, <2>1, Flags DEF BootInv, Where
  <2>2. CASE Enable_interrupts
    <3>1. step = 11 /\ interrupts' = TRUE
      BY <1>1, <1>2, <2>2 DEF Enable_interrupts, Running, Calls
    <3>. QED
      BY <1>3, <3>1, Flags
  <2>. QED
    BY <2>1, <2>2 DEF Other, GDT_Initialize, IDT_Initialize, ISR_Initialize, Populate_Irq_Entries,
       Init_pic, Read_MBR, readBootSector, Divide
<1>5. BootTypes' /\ ds' # "null"
  <2>1. {32, 33, 47} \subseteq Vector
    BY DEF Vector
  <2>2. step' \in 1 .. 12
    BY <1>1
  <2>3. ds' \in {ds, "data"}
    BY DEF Other, GDT_Initialize, IDT_Initialize, ISR_Initialize, Populate_Irq_Entries,
       Init_pic, Read_MBR, readBootSector, Divide, Enable_interrupts
  <2>4. /\ present' \in {present, Vector \ {128}, present \cup {32, 33, 47}}
        /\ ISRHandlers' \in {ISRHandlers, {32, 33, 47}}
        /\ pic' \in {pic, 32}
    BY DEF Other, GDT_Initialize, IDT_Initialize, ISR_Initialize, Populate_Irq_Entries,
       Init_pic, Read_MBR, readBootSector, Divide, Enable_interrupts, tables
  <2>. QED
    BY <1>1, <2>1, <2>2, <2>3, <2>4 DEF BootInv, BootTypes
<1>6. Tables'
  <2>1. CASE Other \/ Divide \/ Read_MBR \/ readBootSector \/ Enable_interrupts
    <3>1. UNCHANGED tables /\ step \notin {2, 3, 4, 5, 6}
      BY <1>2, <2>1 DEF Other, Divide, Read_MBR, readBootSector, Enable_interrupts, Running, Calls
    <3>2. Loaded' = Loaded
      BY <3>1 DEF tables, Loaded
    <3>. QED
      BY <1>1, <3>1, <3>2 DEF tables, Tables, BootInv
  <2>2. CASE GDT_Initialize
    <3>1. step = 2 /\ gdt' = g_GDT
      BY <1>1, <1>2, <2>2 DEF GDT_Initialize, Running, Calls
    <3>. QED
      BY <1>1, <3>1 DEF Tables, BootInv
  <2>3. CASE IDT_Initialize
    <3>1. step = 3 /\ UNCHANGED <<gdt, present, ISRHandlers, pic>>
      BY <1>1, <1>2, <2>3 DEF IDT_Initialize, Running, Calls
    <3>2. Loaded'
      BY Zenon, <2>3 DEF IDT_Initialize, Loaded
    <3>. QED
      BY <1>1, <3>1, <3>2 DEF Tables, BootInv
  <2>4. CASE ISR_Initialize
    <3>1. step = 4 /\ present' = Vector \ {128} /\ UNCHANGED <<gdt, idt, ISRHandlers, pic>>
      BY <1>1, <1>2, <2>4 DEF ISR_Initialize, Running, Calls
    <3>2. Loaded' = Loaded
      BY <3>1 DEF Loaded
    <3>. QED
      BY <1>1, <3>1, <3>2 DEF Tables, BootInv
  <2>5. CASE Populate_Irq_Entries
    <3>1. /\ step = 5 /\ present' = present \cup {32, 33, 47} /\ ISRHandlers' = {32, 33, 47}
          /\ UNCHANGED <<gdt, idt, pic>>
      BY <1>1, <1>2, <2>5 DEF Populate_Irq_Entries, Running, Calls
    <3>2. Loaded' = Loaded
      BY <3>1 DEF Loaded
    <3>. QED
      BY <1>1, <3>1, <3>2 DEF Tables, BootInv
  <2>6. CASE Init_pic
    <3>1. step = 6 /\ pic' = 32 /\ UNCHANGED <<gdt, idt, present, ISRHandlers>>
      BY <1>1, <1>2, <2>6 DEF Init_pic, Running, Calls
    <3>2. Loaded' = Loaded
      BY <3>1 DEF Loaded
    <3>. QED
      BY <1>1, <3>1, <3>2 DEF Tables, BootInv
  <2>. QED
    BY <2>1, <2>2, <2>3, <2>4, <2>5, <2>6
<1>. QED
  BY <1>1, <1>4, <1>5, <1>6, CallStep

(* The frame that an interrupt pushes, with and without an error code.     *)
ErrorCodeFits(v, code) ==
  (v \in NOERRORCODE /\ code = NoErrorCode) \/ (v \notin NOERRORCODE /\ code = ErrorCode)

LEMMA FramePushed ==
  ASSUME BootInv, at \in Context, NEW v \in Vector, NEW code, ErrorCodeFits(v, code),
         NEW f, f = Frame(v, code, at)
  PROVE  /\ f \in Seq(StackWord) /\ Len(f) = 8
         /\ f[2] = 0 /\ f[4] = v /\ f[6] = at /\ f[7] = CodeSelector /\ f[8] = interrupts
<1>. DEFINE p == IF v \in NOERRORCODE THEN <<0>> ELSE << >>
<1>1. /\ "esp" \in StackWord /\ SavedDS \in StackWord /\ "registers" \in StackWord /\ v \in StackWord
      /\ at \in StackWord /\ CodeSelector \in StackWord /\ SavedDS = 0
  BY DEF StackWord, Vector, SavedDS, CodeSelector
<1>2. interrupts \in StackWord
  BY Flags DEF BootInv, Where
<1>3. p \in Seq(StackWord) /\ code \in Seq(StackWord) /\ Len(p) + Len(code) = 1
  <2>1. 0 \in StackWord /\ "error" \in StackWord
    BY DEF StackWord, Vector
  <2>2. CASE v \in NOERRORCODE
    <3>1. p = <<0>> /\ code = << >>
      BY <2>2 DEF ErrorCodeFits, NoErrorCode
    <3>2. <<0>> \in Seq(StackWord) /\ Len(<<0>>) = 1 /\ << >> \in Seq(StackWord) /\ Len(<< >>) = 0
      BY <2>1
    <3>. QED
      BY <3>1, <3>2
  <2>3. CASE v \notin NOERRORCODE
    <3>1. p = << >> /\ code = <<"error">>
      BY <2>3 DEF ErrorCodeFits, ErrorCode
    <3>2. <<"error">> \in Seq(StackWord) /\ Len(<<"error">>) = 1 /\ << >> \in Seq(StackWord) /\ Len(<< >>) = 0
      BY <2>1
    <3>. QED
      BY <3>1, <3>2
  <2>. QED
    BY <2>2, <2>3
<1>4. f = <<"esp", SavedDS, "registers", v>> \o p \o code \o <<at, CodeSelector, interrupts>>
  BY DEF Frame
<1>. HIDE DEF p
<1>5. /\ f \in Seq(StackWord) /\ Len(f) = 8
      /\ f[2] = SavedDS /\ f[4] = v /\ f[6] = at /\ f[7] = CodeSelector /\ f[8] = interrupts
  <2>. DEFINE A == <<"esp", SavedDS, "registers", v>>
              C == <<at, CodeSelector, interrupts>>
              B == A \o p \o code
  <2>1. A \in Seq(StackWord) /\ Len(A) = 4 /\ A[2] = SavedDS /\ A[4] = v
    BY <1>1
  <2>2. C \in Seq(StackWord) /\ Len(C) = 3 /\ C[1] = at /\ C[2] = CodeSelector /\ C[3] = interrupts
    BY <1>1, <1>2
  <2>. HIDE DEF A, C
  <2>3. Len(p) \in Nat /\ Len(code) \in Nat
    BY <1>3
  <2>4. /\ A \o p \in Seq(StackWord) /\ Len(A \o p) = 4 + Len(p)
        /\ (A \o p)[2] = SavedDS /\ (A \o p)[4] = v
    <3>1. A \o p \in Seq(StackWord) /\ Len(A \o p) = Len(A) + Len(p)
      BY <1>3, <2>1, Push
    <3>2. A \in Seq(StackWord) /\ p \in Seq(StackWord) /\ 2 \in 1 .. Len(A) /\ 4 \in 1 .. Len(A)
      BY <1>3, <2>1
    <3>3. (A \o p)[2] = A[2] /\ (A \o p)[4] = A[4]
      BY <3>2, PushFront
    <3>. QED
      BY <2>1, <3>1, <3>3
  <2>5. /\ A \o p \o code \in Seq(StackWord) /\ Len(A \o p \o code) = 5
        /\ (A \o p \o code)[2] = SavedDS /\ (A \o p \o code)[4] = v
    BY <1>3, <2>3, <2>4, Push
  <2>6. B \in Seq(StackWord) /\ Len(B) = 5 /\ B[2] = SavedDS /\ B[4] = v
    BY <2>5
  <2>7. f = B \o C
    BY <1>4 DEF A, C
  <2>. HIDE DEF B
  <2>8. /\ B \o C \in Seq(StackWord) /\ Len(B \o C) = 8 /\ (B \o C)[2] = SavedDS /\ (B \o C)[4] = v
        /\ (B \o C)[6] = at /\ (B \o C)[7] = CodeSelector /\ (B \o C)[8] = interrupts
    <3>0. B \in Seq(StackWord) /\ C \in Seq(StackWord)
      BY <2>2, <2>6
    <3>1. B \o C \in Seq(StackWord) /\ Len(B \o C) = Len(B) + Len(C)
      BY <3>0, Push
    <3>2. 2 \in 1 .. Len(B) /\ 4 \in 1 .. Len(B) /\ 1 \in 1 .. Len(C) /\ 2 \in 1 .. Len(C) /\ 3 \in 1 .. Len(C)
      BY <2>2, <2>6
    <3>3. (B \o C)[2] = B[2] /\ (B \o C)[4] = B[4]
      BY <3>0, <3>2, PushFront
    <3>4. (B \o C)[Len(B) + 1] = C[1] /\ (B \o C)[Len(B) + 2] = C[2] /\ (B \o C)[Len(B) + 3] = C[3]
      BY <3>0, <3>2, PushBack
    <3>5. Len(B) + 1 = 6 /\ Len(B) + 2 = 7 /\ Len(B) + 3 = 8
      BY <2>6
    <3>. QED
      BY <2>2, <2>6, <3>1, <3>3, <3>4, <3>5
  <2>. QED
    BY Zenon, <2>7, <2>8
<1>. QED
  BY <1>1, <1>5

(* An interrupt finds its gate once it is there.                           *)
LEMMA GateFound ==
  ASSUME BootInv, NEW v \in Vector \ {128}, NEW code, Take(v, code)
  PROVE  /\ UNCHANGED <<step, tables, volume, unended>>
         /\ \/ /\ at' = "handler"
               /\ stack' = Frame(v, code, at) \o stack
               /\ interrupts' = FALSE
               /\ ds' = LoadedDS
            \/ step <= 4 /\ at' = "reset" /\ UNCHANGED <<stack, interrupts, ds>>
<1>1. CASE step <= 4
  BY Zenon, <1>1 DEF Take
<1>2. CASE ~(step <= 4)
  <2>1. Loaded /\ v \in present /\ gdt = g_GDT
    BY <1>2 DEF BootInv, BootTypes, Tables
  <2>2. IsCode(CodeSelector)
    BY <2>1, DescriptorsGood
  <2>3. idt
    BY Zenon, <2>1 DEF Loaded
  <2>. QED
    BY Zenon, <2>1, <2>2, <2>3 DEF Take
<1>. QED
  BY <1>1, <1>2

LEMMA TakeStep ==
  ASSUME BootInv, at \in Context, NEW v \in Vector \ {128}, NEW code, ErrorCodeFits(v, code), Take(v, code),
         MayCome(v, step), nmis' \in 0 .. MaxNMI, step <= 4 => nmis' > 0, Calm' => at = "idle"
  PROVE  BootInv'
<1>1. UNCHANGED <<step, gdt, idt, present, ISRHandlers, pic, disk, lba_start, boot_sector, unended>>
  BY GateFound DEF tables, volume
<1>2. Tables'
  <2>1. Loaded' = Loaded
    BY <1>1 DEF Loaded
  <2>. QED
    BY <1>1, <2>1 DEF BootInv, Tables
<1>3. /\ stack \in Seq(StackWord) /\ Len(stack) % 8 = 0 /\ Len(stack) \in Nat /\ step \in 1 .. 12
      /\ at = "boot" => step <= 11 /\ Len(stack) = 0
      /\ at = "idle" => step = 12 /\ Len(stack) = 0
      /\ at \in {"handler", "exit"} => Len(stack) # 0
      /\ FlagOf(at, interrupts)
  BY DEF BootInv, Where, FramesOK, BootTypes
<1>4. TimerAndKeyboardEnded'
  BY <1>1 DEF BootInv, TimerAndKeyboardEnded
<1>5. CASE step <= 4 /\ at' = "reset" /\ UNCHANGED <<stack, interrupts, ds>>
  <2>1. BootTypes'
    BY <1>1, <1>5 DEF BootInv, BootTypes
  <2>2. FramesOK'
    BY <1>1, <1>5 DEF BootInv, FramesOK
  <2>3. at # "idle"
    BY <1>3, <1>5
  <2>4. FlagOf(at', interrupts')
    BY <1>3, <1>5, <2>3, Flags
  <2>5. Where' /\ CalmBoot'
    BY <1>1, <1>5, <2>3, <2>4 DEF Where, CalmBoot
  <2>. QED
    BY <1>2, <1>4, <2>1, <2>2, <2>5 DEF BootInv
<1>6. CASE at' = "handler" /\ stack' = Frame(v, code, at) \o stack /\ interrupts' = FALSE /\ ds' = LoadedDS
  <2>. DEFINE f == Frame(v, code, at)
  <2>1. /\ f \in Seq(StackWord) /\ Len(f) = 8
        /\ f[2] = 0 /\ f[4] = v /\ f[6] = at /\ f[7] = CodeSelector /\ f[8] = interrupts
    BY FramePushed
  <2>2. stack' = f \o stack
    BY <1>6
  <2>. HIDE DEF f
  <2>3. /\ stack' \in Seq(StackWord) /\ Len(stack') = 8 + Len(stack)
        /\ stack'[2] = 0 /\ stack'[4] = v /\ stack'[6] = at /\ stack'[7] = CodeSelector /\ stack'[8] = interrupts
    <3>0. f \in Seq(StackWord) /\ stack \in Seq(StackWord)
      BY <1>3, <2>1
    <3>1. stack' \in Seq(StackWord) /\ Len(stack') = Len(f) + Len(stack)
      <4>1. f \o stack \in Seq(StackWord) /\ Len(f \o stack) = Len(f) + Len(stack)
        BY <3>0, Push
      <4>. QED
        BY <2>2, <4>1
    <3>2. \A i \in 1 .. Len(f) : stack'[i] = f[i]
      <4>1. \A i \in 1 .. Len(f) : (f \o stack)[i] = f[i]
        BY <3>0, PushFront
      <4>. QED
        BY <2>2, <4>1
    <3>3. 2 \in 1 .. Len(f) /\ 4 \in 1 .. Len(f) /\ 6 \in 1 .. Len(f) /\ 7 \in 1 .. Len(f) /\ 8 \in 1 .. Len(f)
      BY <2>1
    <3>. QED
      BY <2>1, <3>1, <3>2, <3>3
  <2>4. \A i \in 1 .. Len(stack) : stack'[8 + i] = stack[i]
    <3>1. f \in Seq(StackWord) /\ stack \in Seq(StackWord)
      BY <1>3, <2>1
    <3>2. \A i \in 1 .. Len(stack) : (f \o stack)[Len(f) + i] = stack[i]
      BY <3>1, PushBack
    <3>. QED
      BY <2>1, <2>2, <3>2
  <2>5. FramesOK'
    <3>1. Len(stack') % 8 = 0
      BY <1>3, <2>3
    <3>2. ASSUME NEW n \in Nat, 8 * n + 8 <= Len(stack')
          PROVE  /\ stack'[8 * n + 2] = 0
                 /\ MayCome(stack'[8 * n + 4], step')
                 /\ stack'[8 * n + 6] \in Context
                 /\ stack'[8 * n + 7] = CodeSelector
                 /\ FlagOf(stack'[8 * n + 6], stack'[8 * n + 8])
                 /\ stack'[8 * n + 6] \in {"handler", "exit"} <=> 8 * n + 16 <= Len(stack')
                 /\ stack'[8 * n + 6] = "boot" => step' <= 11
                 /\ stack'[8 * n + 6] = "idle" => step' = 12
      <4>1. CASE n = 0
        <5>1. at \in {"handler", "exit"} <=> 16 <= Len(stack')
          BY <1>3, <2>3 DEF Context
        <5>. QED
          BY <1>1, <1>3, <2>3, <4>1, <5>1
      <4>2. CASE n # 0
        <5>. DEFINE m == n - 1
        <5>1. m \in Nat /\ 8 * m + 8 <= Len(stack)
          BY <1>3, <2>3, <3>2, <4>2
        <5>2. 8 * n = 8 + 8 * m
          OBVIOUS
        <5>. HIDE DEF m
        <5>3. ASSUME NEW k \in 1 .. 8 PROVE stack'[8 * n + k] = stack[8 * m + k]
          <6>1. 8 * m + k \in 1 .. Len(stack) /\ 8 * n + k = 8 + (8 * m + k)
            BY <1>3, <5>1, <5>2
          <6>. QED
            BY <2>4, <6>1
        <5>4. /\ stack'[8 * n + 2] = stack[8 * m + 2] /\ stack'[8 * n + 4] = stack[8 * m + 4]
              /\ stack'[8 * n + 6] = stack[8 * m + 6] /\ stack'[8 * n + 7] = stack[8 * m + 7]
              /\ stack'[8 * n + 8] = stack[8 * m + 8]
          <6>1. 2 \in 1 .. 8 /\ 4 \in 1 .. 8 /\ 6 \in 1 .. 8 /\ 7 \in 1 .. 8 /\ 8 \in 1 .. 8
            OBVIOUS
          <6>. QED
            BY Zenon, <5>3, <6>1
        <5>5. 8 * n + 16 <= Len(stack') <=> 8 * m + 16 <= Len(stack)
          <6>1. Len(stack') = 8 + Len(stack)
            BY <2>3
          <6>. QED
            BY <1>3, <5>1, <5>2, <6>1
        <5>6. /\ stack[8 * m + 2] = 0
              /\ MayCome(stack[8 * m + 4], step)
              /\ stack[8 * m + 6] \in Context
              /\ stack[8 * m + 7] = CodeSelector
              /\ FlagOf(stack[8 * m + 6], stack[8 * m + 8])
              /\ stack[8 * m + 6] \in {"handler", "exit"} <=> 8 * m + 16 <= Len(stack)
              /\ stack[8 * m + 6] = "boot" => step <= 11
              /\ stack[8 * m + 6] = "idle" => step = 12
          BY <5>1 DEF BootInv, FramesOK
        <5>. QED
          BY <1>1, <5>4, <5>5, <5>6
      <4>. QED
        BY <4>1, <4>2
    <3>. QED
      BY <2>3, <3>1, <3>2 DEF FramesOK
  <2>6. BootTypes'
    BY <1>1, <1>6 DEF BootInv, BootTypes, LoadedDS
  <2>7. Where'
    <3>1. FlagOf(at', interrupts')
      BY <1>6, Flags
    <3>. QED
      BY <1>3, <1>6, <2>3, <3>1 DEF Where, Context
  <2>8. CalmBoot'
    <3>. SUFFICES ASSUME Calm'
                  PROVE  step' = 12 /\ ds' # "null" /\ Len(stack') = 8 /\ stack'[6] = "idle"
      BY DEF CalmBoot
    <3>1. at = "idle" /\ step = 12
      BY <1>3
    <3>2. gdt = g_GDT
      BY <3>1 DEF BootInv, Tables
    <3>3. ds' = "data"
      BY <1>6, <3>2, DescriptorsGood DEF LoadedDS
    <3>. QED
      BY <1>1, <1>3, <2>3, <3>1, <3>3
  <2>. QED
    BY <1>2, <1>4, <2>5, <2>6, <2>7, <2>8 DEF BootInv
<1>. QED
  BY <1>5, <1>6, GateFound

(* Gates and frames of the vectors that can come. *)
LEMMA Vectors ==
  /\ ErrorCodeFits(0, NoErrorCode) /\ ErrorCodeFits(2, NoErrorCode) /\ ErrorCodeFits(13, ErrorCode)
  /\ \A i \in IRQ : 32 + i \in Vector \ {128} /\ ErrorCodeFits(32 + i, NoErrorCode)
  /\ {0, 2, 13} \subseteq Vector \ {128}
  /\ \A s : MayCome(0, s) /\ MayCome(2, s) /\ MayCome(13, s)
  /\ \A i \in IRQ : MayCome(32 + i, 12)
BY DEF ErrorCodeFits, NOERRORCODE, ERRORCODE, Vector, IRQ, MayCome

LEMMA InterruptStep ==
  ASSUME BootInv, NEW i \in IRQ, Interrupt(i)
  PROVE  BootInv'
<1>1. at = "idle"
  BY Zenon DEF BootInv, Where, FlagOf, Interrupt
<1>2. step = 12 /\ pic = 32 /\ at \in Context
  BY <1>1 DEF BootInv, Where, Tables, Context
<1>3. Take(32 + i, NoErrorCode) /\ nmis' = nmis
  BY <1>2 DEF Interrupt
<1>4. nmis' \in 0 .. MaxNMI
  BY <1>3 DEF BootInv, BootTypes
<1>5. 32 + i \in Vector \ {128} /\ ErrorCodeFits(32 + i, NoErrorCode) /\ MayCome(32 + i, step)
  BY <1>2, Vectors
<1>. QED
  BY <1>1, <1>2, <1>3, <1>4, <1>5, TakeStep

LEMMA NMIStep ==
  ASSUME BootInv, NMI
  PROVE  BootInv'
<1>1. Take(2, NoErrorCode) /\ at \in Context
  BY DEF NMI, BootInv, Where
<1>2. nmis' \in 0 .. MaxNMI /\ nmis' > 0 /\ ~Calm'
  BY BootAssumption DEF NMI, BootInv, BootTypes, Calm
<1>. QED
  BY <1>1, <1>2, Vectors, TakeStep

LEMMA NullSegmentStep ==
  ASSUME BootInv, NullSegment
  PROVE  BootInv'
<1>1. /\ Take(13, ErrorCode) /\ at \in {"boot", "handler"} /\ ds = "null"
      /\ UNCHANGED <<step, boot_sector>> /\ nmis' = nmis
  BY DEF NullSegment, Take, volume
<1>2. ~Calm
  BY <1>1 DEF BootInv, Where, CalmBoot
<1>3. ~Calm'
  BY <1>1, <1>2 DEF Calm, NoDivisor
<1>4. nmis' \in 0 .. MaxNMI /\ (step <= 4 => nmis' > 0)
  BY <1>1, <1>2 DEF Calm, BootInv, BootTypes
<1>5. at \in Context
  BY <1>1 DEF Context
<1>. QED
  BY <1>1, <1>3, <1>4, <1>5, Vectors, TakeStep

LEMMA DivideErrorStep ==
  ASSUME BootInv, DivideError
  PROVE  BootInv'
<1>1. /\ Take(0, NoErrorCode) /\ at = "boot" /\ step = 10 /\ NoDivisor
      /\ UNCHANGED <<step, boot_sector>> /\ nmis' = nmis
  BY CallOrder DEF DivideError, Take, volume, BootInv, BootTypes
<1>2. ~Calm'
  BY <1>1 DEF Calm, NoDivisor
<1>3. nmis' \in 0 .. MaxNMI /\ at \in Context
  BY <1>1 DEF BootInv, BootTypes, Context
<1>. QED
  BY <1>1, <1>2, <1>3, Vectors, TakeStep

LEMMA HandlerStep ==
  ASSUME BootInv, ISR_Handler
  PROVE  BootInv'
<1>1. /\ at = "handler" /\ at' = "exit"
      /\ UNCHANGED <<step, interrupts, ds, stack, tables, volume, nmis>>
  BY DEF ISR_Handler
<1>2. UNCHANGED <<step, ds, stack, gdt, idt, present, ISRHandlers, pic, boot_sector, nmis>>
  BY <1>1 DEF tables, volume
<1>3. FlagOf(at', interrupts')
  <2>1. FlagOf(at, interrupts) /\ at # "idle" /\ interrupts' = interrupts
    BY <1>1 DEF BootInv, Where
  <2>. QED
    BY <2>1, Flags
<1>4. BootTypes'
  BY <1>2 DEF BootInv, BootTypes
<1>5. FramesOK'
  BY <1>2 DEF BootInv, FramesOK
<1>6. Where'
  BY <1>1, <1>2, <1>3 DEF BootInv, Where, Context
<1>7. Tables'
  <2>1. Loaded' = Loaded
    BY <1>2 DEF Loaded
  <2>. QED
    BY <1>2, <2>1 DEF BootInv, Tables
<1>8. CalmBoot'
  BY <1>1, <1>2 DEF BootInv, CalmBoot, Calm, NoDivisor
<1>9. TimerAndKeyboardEnded'
  <2>1. MayCome(stack[4], step)
    <3>1. Len(stack) >= 8
      BY <1>1 DEF BootInv, FramesOK, Where
    <3>2. 0 \in Nat /\ 8 * 0 + 8 <= Len(stack) /\ 8 * 0 + 4 = 4
      BY <3>1
    <3>. QED
      BY <3>2 DEF BootInv, FramesOK
  <2>2. unended' \in {unended, unended \cup {i \in IRQ : pic + i = stack[4]}}
    BY DEF ISR_Handler, regs_interrupt
  <2>3. CASE stack[4] \in {0, 2, 13}
    <3>1. {i \in IRQ : pic + i = stack[4]} = {}
      BY <2>3 DEF IRQ, BootInv, BootTypes
    <3>. QED
      BY <2>2, <3>1 DEF BootInv, TimerAndKeyboardEnded
  <2>4. CASE stack[4] \in {32, 33, 46} /\ step = 12
    <3>1. ISRHandlers = {32, 33, 47} /\ pic = 32
      BY <2>4 DEF BootInv, Tables
    <3>2. stack[4] \in ISRHandlers \/ stack[4] = 46
      BY <2>4, <3>1
    <3>3. stack[4] \in ISRHandlers => unended' = unended
      BY DEF ISR_Handler, regs_interrupt
    <3>4. stack[4] = 46 => {i \in IRQ : pic + i = stack[4]} \subseteq {14}
      BY <3>1 DEF IRQ
    <3>. QED
      BY <2>2, <3>2, <3>3, <3>4 DEF BootInv, TimerAndKeyboardEnded
  <2>. QED
    BY <2>1, <2>3, <2>4 DEF MayCome
<1>. QED
  BY <1>4, <1>5, <1>6, <1>7, <1>8, <1>9 DEF BootInv

LEMMA FrameBelow ==
  ASSUME NEW n \in Nat, n % 8 = 0, n >= 8, NEW k, k = n - 8
  PROVE  k = 0 <=> ~(16 <= n)
OBVIOUS

(* iret takes the frame on the top, and the one below it is as good. *)
LEMMA ReturnStep ==
  ASSUME BootInv, Return
  PROVE  BootInv'
<1>1. /\ at = "exit" /\ at' = stack[6] /\ interrupts' = stack[8] /\ stack' = After(8)
      /\ ds' = IF stack[2] = 0 THEN "null" ELSE "data"
      /\ UNCHANGED <<step, gdt, idt, present, ISRHandlers, pic, boot_sector, nmis>>
  BY DEF Return, tables, volume
<1>2. stack \in Seq(StackWord) /\ Len(stack) \in Nat /\ Len(stack) % 8 = 0 /\ Len(stack) >= 8
  BY <1>1 DEF BootInv, FramesOK, Where
<1>3. /\ stack[2] = 0 /\ stack[6] \in Context /\ FlagOf(stack[6], stack[8])
      /\ stack[6] \in {"handler", "exit"} <=> 16 <= Len(stack)
      /\ stack[6] = "boot" => step <= 11
      /\ stack[6] = "idle" => step = 12
  <2>1. 0 \in Nat /\ 8 * 0 + 8 <= Len(stack)
    BY <1>2
  <2>2. 8 * 0 + 2 = 2 /\ 8 * 0 + 6 = 6 /\ 8 * 0 + 8 = 8 /\ 8 * 0 + 16 = 16
    OBVIOUS
  <2>. QED
    BY <2>1, <2>2 DEF BootInv, FramesOK
<1>4. /\ stack' \in Seq(StackWord) /\ Len(stack') = Len(stack) - 8
      /\ \A i \in 1 .. Len(stack) - 8 : stack'[i] = stack[8 + i]
  <2>1. /\ After(8) \in Seq(StackWord) /\ Len(After(8)) = Len(stack) - 8
        /\ \A i \in 1 .. Len(stack) - 8 : After(8)[i] = stack[8 + i]
    BY <1>2, Pop
  <2>. QED
    BY <1>1, <2>1
<1>5. FramesOK'
  <2>1. Len(stack') % 8 = 0
    BY <1>2, <1>4
  <2>2. ASSUME NEW n \in Nat, 8 * n + 8 <= Len(stack')
        PROVE  /\ stack'[8 * n + 2] = 0
               /\ MayCome(stack'[8 * n + 4], step')
               /\ stack'[8 * n + 6] \in Context
               /\ stack'[8 * n + 7] = CodeSelector
               /\ FlagOf(stack'[8 * n + 6], stack'[8 * n + 8])
               /\ stack'[8 * n + 6] \in {"handler", "exit"} <=> 8 * n + 16 <= Len(stack')
               /\ stack'[8 * n + 6] = "boot" => step' <= 11
               /\ stack'[8 * n + 6] = "idle" => step' = 12
    <3>. DEFINE m == n + 1
    <3>1. m \in Nat /\ 8 * m + 8 <= Len(stack)
      BY <1>2, <1>4, <2>2
    <3>2. 8 * m = 8 + 8 * n
      OBVIOUS
    <3>. HIDE DEF m
    <3>3. ASSUME NEW k \in 1 .. 8 PROVE stack'[8 * n + k] = stack[8 * m + k]
      <4>1. 8 * n + k \in 1 .. Len(stack) - 8 /\ 8 * m + k = 8 + (8 * n + k)
        BY <1>2, <1>4, <2>2, <3>2
      <4>. QED
        BY <1>4, <4>1
    <3>4. /\ stack'[8 * n + 2] = stack[8 * m + 2] /\ stack'[8 * n + 4] = stack[8 * m + 4]
          /\ stack'[8 * n + 6] = stack[8 * m + 6] /\ stack'[8 * n + 7] = stack[8 * m + 7]
          /\ stack'[8 * n + 8] = stack[8 * m + 8]
      <4>1. 2 \in 1 .. 8 /\ 4 \in 1 .. 8 /\ 6 \in 1 .. 8 /\ 7 \in 1 .. 8 /\ 8 \in 1 .. 8
        OBVIOUS
      <4>. QED
        BY Zenon, <3>3, <4>1
    <3>5. 8 * n + 16 <= Len(stack') <=> 8 * m + 16 <= Len(stack)
      <4>1. Len(stack') = Len(stack) - 8
        BY <1>4
      <4>. QED
        BY <1>2, <3>1, <3>2, <4>1
    <3>6. /\ stack[8 * m + 2] = 0
          /\ MayCome(stack[8 * m + 4], step)
          /\ stack[8 * m + 6] \in Context
          /\ stack[8 * m + 7] = CodeSelector
          /\ FlagOf(stack[8 * m + 6], stack[8 * m + 8])
          /\ stack[8 * m + 6] \in {"handler", "exit"} <=> 8 * m + 16 <= Len(stack)
          /\ stack[8 * m + 6] = "boot" => step <= 11
          /\ stack[8 * m + 6] = "idle" => step = 12
      BY <3>1 DEF BootInv, FramesOK
    <3>. QED
      BY <1>1, <3>4, <3>5, <3>6
  <2>. QED
    BY <1>4, <2>1, <2>2 DEF FramesOK
<1>6. BootTypes'
  BY <1>1 DEF BootInv, BootTypes
<1>7. Where'
  <2>1. FlagOf(at', interrupts')
    BY <1>1, <1>3
  <2>2. Len(stack') = 0 <=> stack[6] \notin {"handler", "exit"}
    <3>1. Len(stack') = 0 <=> ~(16 <= Len(stack))
      BY <1>2, <1>4, FrameBelow
    <3>. QED
      BY <1>3, <3>1
  <2>3. /\ at' \in Context
        /\ at' = "boot" => step' <= 11
        /\ at' = "idle" => step' = 12
        /\ at' \notin {"handler", "exit"} <=> Len(stack') = 0
    BY <1>1, <1>3, <2>2
  <2>. QED
    BY <2>1, <2>3 DEF Where, Context
<1>8. Tables'
  <2>1. Loaded' = Loaded
    BY <1>1 DEF Loaded
  <2>. QED
    BY <1>1, <2>1 DEF BootInv, Tables
<1>9. CalmBoot'
  <2>. SUFFICES ASSUME Calm' PROVE at' = "idle" /\ step' = 12
    BY DEF CalmBoot
  <2>1. Calm
    BY <1>1 DEF Calm, NoDivisor
  <2>. QED
    BY <1>1, <1>3, <2>1 DEF BootInv, CalmBoot
<1>10. TimerAndKeyboardEnded'
  BY DEF Return, BootInv, TimerAndKeyboardEnded
<1>. QED
  BY <1>5, <1>6, <1>7, <1>8, <1>9, <1>10 DEF BootInv

LEMMA BootStutter ==
  ASSUME BootInv, UNCHANGED vars
  PROVE  BootInv'
<1>1. UNCHANGED <<at, step, interrupts, ds, stack, gdt, idt, present, ISRHandlers, pic, boot_sector, nmis>>
  BY DEF vars, tables, volume
<1>2. Loaded' = Loaded
  BY <1>1 DEF Loaded
<1>3. FlagOf(at, interrupts)' = FlagOf(at, interrupts)
  BY <1>1 DEF FlagOf
<1>4. BootTypes' /\ FramesOK'
  BY <1>1 DEF BootInv, BootTypes, FramesOK
<1>5. Where'
  BY <1>1, <1>3 DEF BootInv, Where
<1>6. Tables' /\ CalmBoot'
  BY <1>1, <1>2 DEF BootInv, Tables, CalmBoot, Calm, NoDivisor
<1>7. TimerAndKeyboardEnded'
  BY DEF vars, BootInv, TimerAndKeyboardEnded
<1>. QED
  BY <1>4, <1>5, <1>6, <1>7 DEF BootInv

LEMMA BootStep == BootInv /\ [Next]_vars => BootInv'
<1>. SUFFICES ASSUME BootInv, [Next]_vars PROVE BootInv'
  OBVIOUS
<1>1. CASE DivideError
  BY <1>1, DivideErrorStep
<1>2. CASE initializers /\ ~DivideError
  BY <1>2, InitializersStep DEF initializers
<1>3. CASE NullSegment
  BY <1>3, NullSegmentStep
<1>4. CASE ISR_Handler
  BY <1>4, HandlerStep
<1>5. CASE Return
  BY <1>5, ReturnStep
<1>6. CASE NMI
  BY <1>6, NMIStep
<1>7. CASE \E i \in IRQ : Interrupt(i)
  BY <1>7, InterruptStep
<1>8. CASE UNCHANGED vars
  BY <1>8, BootStutter
<1>. QED
  BY <1>1, <1>2, <1>3, <1>4, <1>5, <1>6, <1>7, <1>8 DEF Next, Processor

LEMMA BootInvariance == Spec => []BootInv
BY BootInit, BootStep, PTL DEF Spec

(* The types, for disks whose boot sectors are well made. *)
THEOREM BootTypesOK ==
  ASSUME WellMadeDisks
  PROVE  Spec => []BTypeOK
<1>1. BootInv /\ MountInv => BTypeOK
  <2>. SUFFICES ASSUME BootInv, MountInv PROVE BTypeOK
    OBVIOUS
  <2>1. interrupts \in BOOLEAN
    BY Zenon DEF BootInv, Where, FlagOf
  <2>2. disk \in Disks /\ lba_start \in 0 .. DWord - 1
    BY BootAssumption, WidthAssumption DEF MountInv
  <2>3. boot_sector \in [Field -> Nat]
    <3>1. Unread \in [Field -> Nat]
      BY DEF Unread
    <3>. QED
      BY <2>2, <3>1, BootAssumption DEF MountInv, WellMadeDisks, WellMade
  <2>4. at \in {"boot", "idle", "handler", "exit", "reset"} /\ Len(stack) % 8 = 0
    BY DEF BootInv, Where, FramesOK, Context
  <2>5. unended \subseteq IRQ
    BY DEF BootInv, TimerAndKeyboardEnded, IRQ
  <2>. QED
    BY <2>1, <2>2, <2>3, <2>4, <2>5 DEF BTypeOK, BootInv, BootTypes
<1>. QED
  BY <1>1, BootInvariance, Mounting, PTL

(* Whatever comes when, only an NMI that comes before the gates are there  *)
(* can reset the machine.                                                  *)
THEOREM NoOtherReset == Spec => []ResetOnlyByEarlyNMI
<1>1. BootInv => ResetOnlyByEarlyNMI
  BY DEF BootInv, Where, ResetOnlyByEarlyNMI
<1>. QED
  BY <1>1, BootInvariance, PTL

(* However deep interrupts are nested, isr_common has removed just what it *)
(* and the stub pushed when iret is reached.                               *)
THEOREM FramesMatch == Spec => []FrameIntact
<1>1. BootInv => FrameIntact
  <2>. SUFFICES ASSUME BootInv, at = "exit"
                PROVE  /\ Len(stack) >= 8 /\ stack[6] \in Context
                       /\ stack[7] = CodeSelector /\ stack[8] \in BOOLEAN
    BY DEF FrameIntact, Context
  <2>1. Len(stack) >= 8
    BY DEF BootInv, FramesOK, Where
  <2>2. stack[6] \in Context /\ stack[7] = CodeSelector /\ FlagOf(stack[6], stack[8])
    <3>1. 0 \in Nat /\ 8 * 0 + 8 <= Len(stack)
      BY <2>1
    <3>2. 8 * 0 + 6 = 6 /\ 8 * 0 + 7 = 7 /\ 8 * 0 + 8 = 8
      OBVIOUS
    <3>. QED
      BY <3>1, <3>2 DEF BootInv, FramesOK
  <2>3. stack[8] \in BOOLEAN
    BY Zenon, <2>2 DEF FlagOf
  <2>. QED
    BY <2>1, <2>2, <2>3
<1>. QED
  BY <1>1, BootInvariance, PTL

(* Ticks and keys find their handlers, and so the ends of their interrupts, *)
(* whenever they come.                                                     *)
THEOREM HandlersFound == Spec => []TimerAndKeyboardEnded
<1>1. BootInv => TimerAndKeyboardEnded
  BY DEF BootInv
<1>. QED
  BY <1>1, BootInvariance, PTL

(* Cleared segment registers meet only code that uses no memory, unless    *)
(* there was an NMI or boot is at the division by zero: nothing else can   *)
(* meet them, from the loader on and whatever the disk.                    *)
THEOREM NullHarmless == Spec => []NullOnlyWhenIdle
<1>1. BootInv /\ MountInv => NullOnlyWhenIdle
  <2>. SUFFICES ASSUME BootInv, MountInv, ds = "null", at \notin {"idle", "exit"}, ~(nmis > 0)
                PROVE  Dividing
    BY DEF NullOnlyWhenIdle
  <2>1. nmis = 0 /\ step \in 1 .. 12 /\ at \in {"boot", "handler"}
    BY DEF BootInv, BootTypes, Where, Context
  <2>2. ~Calm
    BY <2>1 DEF BootInv, Where, CalmBoot
  <2>3. step > 9 /\ NoDivisor
    BY <2>1, <2>2 DEF Calm
  <2>4. step = 10
    BY <2>1, <2>3 DEF MountInv
  <2>5. Current = "geometry"
    BY <2>4, CallOrder DEF Current, Calls
  <2>. QED
    BY <2>3, <2>5 DEF Dividing
<1>. QED
  BY <1>1, BootInvariance, Mounting, PTL
=============================================================================
