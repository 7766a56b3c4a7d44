------------------------------ MODULE Geometry ------------------------------
(***************************************************************************)
(* What readBootSector makes of the boot sector of a FAT16 volume, in the  *)
(* widths of its variables, and what the FAT format says (external; the    *)
(* host's mkfs and driver go by it).                                       *)
(***************************************************************************)
EXTENDS Integers

CONSTANTS
  Word,       (* values of a uint16_t: 65536 *)
  DWord       (* values of a uint32_t: 2^32 *)

ASSUME WidthAssumption == Word \in Nat \ {0} /\ DWord \in Nat \ {0} /\ 128 * Word < DWord

(* The fields of FAT16_BootSector that are used. *)
Field == {"BytsPerSec", "SecPerClus", "RsvdSecCnt", "NumFATs", "RootEntCnt",
          "TotSec16", "TotSec32", "FATSz16"}
Unread == [f \in Field |-> 0]

(***************************************************************************)
(* The kernel's arithmetic; lba is where the partition begins.             *)
(***************************************************************************)
total_sectors(b) == IF b.TotSec16 = 0 THEN b.TotSec32 % Word ELSE b.TotSec16

fat_start_sector(lba, b) == (lba + b.RsvdSecCnt) % DWord
root_dir_start_sector(lba, b) == (fat_start_sector(lba, b) + b.NumFATs * b.FATSz16) % DWord

root_directory_sectors(b) == (b.RootEntCnt * 32 + (b.BytsPerSec - 1)) \div b.BytsPerSec

first_data_unshifted(lba, b) == (root_dir_start_sector(lba, b) + root_directory_sectors(b)) % DWord
first_data_sector(lba, b) == (root_dir_start_sector(lba, b) + root_directory_sectors(b) + 16) % DWord

clusters_of_all(lba, b) == (total_sectors(b) % DWord) \div b.SecPerClus
total_clusters(lba, b) == ((total_sectors(b) - first_data_sector(lba, b)) % DWord) \div b.SecPerClus

(* Where Read_Cluster and Write_Cluster begin. *)
start_sector(lba, b, c) == (first_data_sector(lba, b) + (c - 3) * b.SecPerClus) % DWord

(* The clusters Write_File looks at when it finds none free; the uint16_t  *)
(* it counts them in must come to the limit.                               *)
Searched(lba, b) == 3 .. total_clusters(lba, b) + 1
SearchEnds(lba, b) == total_clusters(lba, b) + 2 <= Word - 1

(***************************************************************************)
(* The format.                                                             *)
(***************************************************************************)
SectorCount(b) == IF b.TotSec16 = 0 THEN b.TotSec32 ELSE b.TotSec16
DataOffset(b) == b.RsvdSecCnt + b.NumFATs * b.FATSz16 + root_directory_sectors(b)
ClusterCount(b) == (SectorCount(b) - DataOffset(b)) \div b.SecPerClus
ClusterPlace(lba, b, c) == lba + DataOffset(b) + (c - 2) * b.SecPerClus

(* The low 16 bits of the size are less than what comes before the data,   *)
(* counted from the beginning of the disk.                                 *)
Wraps(lba, b) == total_sectors(b) < first_data_sector(lba, b)
=============================================================================
