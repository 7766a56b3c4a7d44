------------------------------- MODULE MCBoot -------------------------------
(* Disks of several sizes, with a boot loader in the MBR or none; DWord is *)
(* 2^30, to stay within TLC's integers.                                    *)
EXTENDS Boot

Sector(perCluster, reserved, total16, total32, fat) ==
  [BytsPerSec |-> 512, SecPerClus |-> perCluster, RsvdSecCnt |-> reserved, NumFATs |-> 2,
   RootEntCnt |-> 512, TotSec16 |-> total16, TotSec32 |-> total32, FATSz16 |-> fat]

Code == [Unread EXCEPT !.BytsPerSec = 47616, !.SecPerClus = 124, !.TotSec16 = 62099]

MCDisks == {
  [lba |-> 2048, sector |-> Sector(16, 16, 0, 1046528, 256), mbr |-> Code],   (* what run.sh makes *)
  [lba |-> 2048, sector |-> Sector(16, 16, 0, 983040, 240), mbr |-> Code],    (* its size wraps *)
  [lba |-> 63,   sector |-> Sector(4, 4, 0, 65536 + 40960, 104), mbr |-> Code],
  [lba |-> 63,   sector |-> Sector(4, 4, 65535, 0, 64), mbr |-> Unread]}

=============================================================================
