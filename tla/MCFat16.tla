------------------------------ MODULE MCFat16 ------------------------------
(* Small volumes for TLC.                                                  *)
EXTENDS Fat16, TLC

CONSTANTS p, q         (* contents to write; the host's files hold p *)

(* Names that become different stems, and one whose stem is another's.     *)
MCNames == {<<"a">>, <<"a", ".">>}
(* The host's file, and the name bytes of a long name's entry, whose two-  *)
(* byte characters end after the first for a C string.                     *)
MCHostNames == {<<"H", "I", "J">>, <<"A", "H">>}

Unused == [name |-> EndMark, first |-> 0, size |-> 0]
Erased(c) == [name |-> ErasedMark, first |-> c, size |-> 1]
HostEntry(c, n) == [name |-> <<"H", "I", "J">>, first |-> c, size |-> n]
NoChain == [clusters |-> << >>, payload |-> p]

(* FAT entries 0 and 1 hold the media byte and a clean-shutdown mark.      *)
HostFat(used) ==
  [i \in 0 .. FatLen - 1 |->
     IF i \in DOMAIN used THEN used[i] ELSE IF i < 2 THEN 65528 + i * 7 ELSE 0]
HostData(used) == [i \in Cluster |-> IF i \in DOMAIN used THEN used[i] ELSE Torn]

(* A freshly formatted volume. *)
FreshDisk ==
  [fat |-> HostFat(<< >>), dir |-> [s \in Slot |-> Unused],
   data |-> HostData(<< >>), file |-> [s \in Slot |-> NoChain]]

(* A volume the host has put a file on and has deleted one from; the       *)
(* deleted file came first and its entry still names a cluster.            *)
UsedDisk ==
  [fat  |-> HostFat(3 :> 65535), dir |-> [s \in Slot |-> CASE s = 1 -> Erased(4)
                                                           [] s = 2 -> HostEntry(3, 1)
                                                           [] OTHER -> Unused],
   data |-> HostData(3 :> <<p, 1>>),
   file |-> [s \in Slot |-> IF s = 2 THEN [clusters |-> <<3>>, payload |-> p] ELSE NoChain]]

(* A fragmented file of two clusters and an empty file, which has none.    *)
FragmentedDisk ==
  [fat  |-> HostFat(2 :> 5 @@ 5 :> 65528),
   dir  |-> [s \in Slot |-> CASE s = 1 -> HostEntry(2, ClusterBytes + 1)
                              [] s = 2 -> HostEntry(0, 0)
                              [] OTHER -> Unused],
   data |-> HostData(2 :> <<p, 1>> @@ 5 :> <<p, 2>>),
   file |-> [s \in Slot |-> IF s = 1 THEN [clusters |-> <<2, 5>>, payload |-> p] ELSE NoChain]]

(* A file whose name the host wrote as a long one, in an entry before it.  *)
LongNameDisk ==
  [fat  |-> HostFat(2 :> 65535),
   dir  |-> [s \in Slot |-> CASE s = 1 -> [name |-> <<"A", "H">>, first |-> 0, size |-> 7]
                              [] s = 2 -> HostEntry(2, ClusterBytes)
                              [] OTHER -> Unused],
   data |-> HostData(2 :> <<p, 1>>),
   file |-> [s \in Slot |-> IF s = 2 THEN [clusters |-> <<2>>, payload |-> p] ELSE NoChain]]

MCPayload == {p, q}

(* Files before and behind an erased entry.                                *)
GapDisk ==
  [fat  |-> HostFat(3 :> 65535 @@ 6 :> 65535),
   dir  |-> [s \in Slot |-> CASE s = 1 -> [name |-> <<"A", "H">>, first |-> 3, size |-> ClusterBytes]
                              [] s = 2 -> Erased(4)
                              [] s = 3 -> HostEntry(6, 1)
                              [] OTHER -> Unused],
   data |-> HostData(3 :> <<p, 1>> @@ 6 :> <<p, 1>>),
   file |-> [s \in Slot |-> CASE s = 1 -> [clusters |-> <<3>>, payload |-> p]
                              [] s = 3 -> [clusters |-> <<6>>, payload |-> p]
                              [] OTHER -> NoChain]]

(* Disks whose files fit a cluster, as Read_File assumes (fat16.cpp:321).  *)
MCOneClusterDisks == {UsedDisk, LongNameDisk, GapDisk}

MCDisks == {FreshDisk, UsedDisk, FragmentedDisk, LongNameDisk}
=============================================================================
