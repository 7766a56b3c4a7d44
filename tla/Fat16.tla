------------------------------- MODULE Fat16 -------------------------------
(***************************************************************************)
(* The FAT16 volume of Fridkin OS and the one operation that changes it,   *)
(* Write_File (src/fat16/fat16.cpp), one disk write at a time, on a        *)
(* machine whose power may fail between any two of them.                   *)
(*                                                                         *)
(* Write_File runs inside the keyboard interrupt handler with interrupts   *)
(* disabled, so nothing but a power failure comes between its steps.  What *)
(* survives a failure is the disk: the first FAT (`fat'), the one          *)
(* directory sector the kernel uses (`dir') and the data region (`data').  *)
(* A sector is written whole or not at all; a cluster is many sectors.     *)
(***************************************************************************)
EXTENDS Names, FiniteSets

CONSTANTS
  NSlots,          (* directory entries in one sector: 16 *)
  FatLen,          (* entries of the FAT, the two reserved ones included *)
  total_clusters,  (* the cluster count readBootSector() computed *)
  ClusterBytes,    (* bytes_per_sector * sectors_per_cluster *)
  MaxBytes,        (* the most a user can enter: sizeof write_file_buffer *)
  TypedNames,      (* file names the user may type *)
  HostNames,       (* names of the files put on the disk by the host *)
  Payload,         (* identities of file contents *)
  Torn,            (* a cluster not written to the end, or never used *)
  NoRequest,       (* no Write_File call in progress *)
  NoFile,          (* a slot that holds no file *)
  Disks            (* the disk images the kernel may be booted from *)

Slot     == 1 .. NSlots
Cluster  == 2 .. FatLen - 1      (* entries 0 and 1 describe no cluster *)
Word16   == 256 * 256            (* a FAT entry is a uint16_t *)
FatValue == 0 .. Word16 - 1

(* The mark Write_File puts in the last cluster of a chain, and the test   *)
(* that Read_File makes for one.                                           *)
EndOfChain == Word16 - 1         (* 0xFFFF *)
IsEnd(v) == v >= Word16 - 8      (* 0xFFF8 *)

(* Clusters a file of `size' bytes occupies, rounded up. *)
Needed(size) == (size + (ClusterBytes - 1)) \div ClusterBytes

DirName == {Stem(n) : n \in TypedNames} \cup HostNames \cup {EndMark, ErasedMark}
Entry   == [name : DirName, first : FatValue, size : Nat]
Request == [name : TypedNames, payload : Payload, size : 1 .. MaxBytes]

(* Content of a cluster: the i-th cluster-sized piece of a payload. *)
Content == (Payload \X Nat) \cup {Torn}

(* What a directory entry stands for: its chain and what was put there.    *)
(* No byte of the disk holds this; it is what the entry, the FAT and the   *)
(* data region have to agree on.                                           *)
Chain == [clusters : Seq(Cluster), payload : Payload]

(***************************************************************************)
(* Well-formed volumes.                                                    *)
(***************************************************************************)
ElementsOf(s) == {s[i] : i \in DOMAIN s}

Holds(e) == e.name \notin {EndMark, ErasedMark}

(* What the host enters before a file for a name that does not fit: an     *)
(* entry with no cluster and characters in the place of the size.  The     *)
(* kernel does not look at the attribute that tells it from a file.        *)
LongName(e) == e.first = 0 /\ e.size > 0
HoldsFile(e) == Holds(e) /\ ~LongName(e)
Extent(e) == IF LongName(e) THEN 0 ELSE Needed(e.size)

(* Entry e is the file of chain c, all of it on the disk: the FAT links    *)
(* its clusters in order and ends after the last, the entry says where it  *)
(* starts and how long it is, and every cluster has its piece.             *)
IsFile(f, d, e, c) ==
  /\ Len(c.clusters) = Extent(e)
  /\ c.clusters # << >> => e.first = c.clusters[1]
  /\ \A i \in 1 .. Len(c.clusters) :
       /\ IF i < Len(c.clusters) THEN f[c.clusters[i]] = c.clusters[i + 1]
                                 ELSE IsEnd(f[c.clusters[i]])
       /\ d[c.clusters[i]] = <<c.payload, i>>

Disjoint(c, e) == ElementsOf(c.clusters) \cap ElementsOf(e.clusters) = {}

WellFormed(D) ==
  /\ D.fat \in [0 .. FatLen - 1 -> FatValue] /\ IsEnd(D.fat[0])
  /\ D.dir \in [Slot -> Entry]
  /\ D.data \in [Cluster -> Content]
  /\ D.file \in [Slot -> Chain]
  /\ \A s \in Slot : Holds(D.dir[s]) => IsFile(D.fat, D.data, D.dir[s], D.file[s])
  /\ \A s, t \in Slot : s # t /\ Holds(D.dir[s]) /\ Holds(D.dir[t])
                          => Disjoint(D.file[s], D.file[t])
  /\ \A s, t \in Slot : s < t /\ Holds(D.dir[t]) => D.dir[s].name # EndMark

ASSUME NameAssumption == NameLen \in Nat \ {0}
ASSUME SizeAssumption ==
  /\ NSlots \in Nat
  /\ ClusterBytes \in Nat \ {0}
  /\ MaxBytes \in Nat \ {0}
  /\ FatLen \in 4 .. Word16 - 9
  /\ total_clusters \in Nat
  /\ total_clusters + 2 <= FatLen
ASSUME DataAssumption == Torn \notin Payload \X Nat /\ NoRequest \notin Request
ASSUME DiskAssumption == \A D \in Disks : WellFormed(D)

(***************************************************************************)
(* State.                                                                  *)
(***************************************************************************)
VARIABLES
  fat,        (* disk: the first FAT *)
  dir,        (* disk: the first sector of the root directory *)
  data,       (* disk: the data region *)
  file,       (* the chain of the file in each slot (see Chain) *)
  pc,         (* where the kernel is: off, at the prompt, or in Write_File *)
  request,    (* Write_File's parameters *)
  clusters,   (* its array of clusters found *)
  cursor,     (* its loop variable `cluster' *)
  k           (* its loop variable i, counted from 1 *)

disk  == <<fat, dir, data, file>>
local == <<request, clusters, cursor, k>>
vars  == <<fat, dir, data, file, pc, request, clusters, cursor, k>>

Busy == {"scan", "chain", "data", "rest", "entry"}

TypeOK ==
  /\ fat \in [0 .. FatLen - 1 -> FatValue]
  /\ dir \in [Slot -> Entry]
  /\ data \in [Cluster -> Content]
  /\ file \in [Slot -> Chain]
  /\ pc \in {"off", "idle"} \cup Busy
  /\ request \in Request \cup {NoRequest}
  /\ pc \in Busy <=> request # NoRequest
  /\ clusters \in Seq(Cluster)
  /\ cursor \in 3 .. FatLen + 1
  /\ k \in Nat \ {0}

NoLocals ==
  /\ request' = NoRequest
  /\ clusters' = << >>
  /\ cursor' = 3
  /\ k' = 1

Init ==
  /\ \E D \in Disks : fat = D.fat /\ dir = D.dir /\ data = D.data /\ file = D.file
  /\ pc = "idle"
  /\ request = NoRequest
  /\ clusters = << >>
  /\ cursor = 3
  /\ k = 1

(***************************************************************************)
(* Write_File.                                                             *)
(***************************************************************************)
(* The call. *)
WriteFile(r) ==
  /\ pc = "idle"
  /\ pc' = "scan"
  /\ request' = r
  /\ UNCHANGED <<fat, dir, data, file, clusters, cursor, k>>

AnyCluster(c) == TRUE
ClusterFree(c) == fat[c] = 0

SameCluster(c) == c
SkippingOne(c) == c + 2
NextCluster(c) == c + 1

(* One iteration of the search, which stops at the last cluster needed. *)
ScanCluster ==
  /\ pc = "scan"
  /\ cursor < total_clusters + 2
  /\ \/ /\ ClusterFree(cursor)
        /\ clusters' = Append(clusters, cursor)
        /\ IF Len(clusters') = Needed(request.size)
           THEN pc' = "chain" /\ UNCHANGED cursor
           ELSE cursor' = NextCluster(cursor) /\ UNCHANGED pc
     \/ /\ ~ClusterFree(cursor)
        /\ cursor' = NextCluster(cursor)
        /\ UNCHANGED <<clusters, pc>>
  /\ UNCHANGED <<disk, request, k>>

(* found_clusters < clusters_needed: "Not enough space", return. *)
ScanFails ==
  /\ pc = "scan"
  /\ cursor >= total_clusters + 2
  /\ pc' = "idle"
  /\ NoLocals
  /\ UNCHANGED disk

(* The order of the three loops: the FAT chain, the data, the entry. *)
EntryBeforeData(loop) == IF loop = "chain" THEN "entry" ELSE "data"
AfterLoop(loop) == IF loop = "chain" THEN "data" ELSE "entry"

(* Leave a loop over the clusters after its last round. *)
NextRound(loop) ==
  IF k < Len(clusters)
  THEN pc' = loop /\ k' = k + 1
  ELSE pc' = AfterLoop(loop) /\ k' = 1

Link(i) == IF i < Len(clusters) THEN clusters[i + 1] ELSE EndOfChain

(* Write_FAT_Entry of the k-th cluster found. *)
LinkCluster ==
  /\ pc = "chain"
  /\ fat' = [fat EXCEPT ![clusters[k]] = Link(k)]
  /\ NextRound("chain")
  /\ UNCHANGED <<dir, data, file, request, clusters, cursor>>

(* Write_Cluster of the k-th cluster: first some of its sectors... *)
StoreCluster ==
  /\ pc = "data"
  /\ data' = [data EXCEPT ![clusters[k]] = Torn]
  /\ pc' = "rest"
  /\ UNCHANGED <<fat, dir, file, local>>

(* ... then the last one. *)
StoreRest ==
  /\ pc = "rest"
  /\ data' = [data EXCEPT ![clusters[k]] = <<request.payload, k>>]
  /\ NextRound("data")
  /\ UNCHANGED <<fat, dir, file, request, clusters, cursor>>

UntruncatedEntry == [name |-> request.name, first |-> clusters[1], size |-> request.size]
NewEntry == [name |-> Stem(request.name), first |-> clusters[1], size |-> request.size]

NeverUsed(e) == e.name = EndMark
NotEndMark(e) == e.name # EndMark
SlotFree(e) == e.name \in {EndMark, ErasedMark}

LastFree(s) == SlotFree(dir[s]) /\ \A t \in s + 1 .. NSlots : ~SlotFree(dir[t])
FirstFree(s) == SlotFree(dir[s]) /\ \A t \in 1 .. s - 1 : ~SlotFree(dir[t])

(* Put the entry into the first slot free and write the sector back, which *)
(* leaves the sector as it was when no slot is free.                       *)
CreateEntry ==
  /\ pc = "entry"
  /\ \/ \E s \in Slot :
          /\ FirstFree(s)
          /\ dir' = [dir EXCEPT ![s] = NewEntry]
          /\ file' = [file EXCEPT ![s] = [clusters |-> clusters, payload |-> request.payload]]
     \/ /\ \A s \in Slot : ~SlotFree(dir[s])
        /\ UNCHANGED <<dir, file>>
  /\ pc' = "idle"
  /\ NoLocals
  /\ UNCHANGED <<fat, data>>

(* One step of a call in progress. *)
KernelStep == ScanCluster \/ ScanFails \/ LinkCluster \/ StoreCluster \/ StoreRest \/ CreateEntry

(***************************************************************************)
(* The machine loses power, or is switched off, and starts again.          *)
(***************************************************************************)
PowerFail ==
  /\ pc # "off"
  /\ pc' = "off"
  /\ NoLocals
  /\ UNCHANGED disk

(* Identify, Read_MBR and readBootSector only read (see module Boot). *)
Boot ==
  /\ pc = "off"
  /\ pc' = "idle"
  /\ UNCHANGED <<disk, local>>

Next ==
  \/ \E r \in Request : WriteFile(r)
  \/ KernelStep
  \/ PowerFail
  \/ Boot

Spec == Init /\ [][Next]_vars

(* The processor runs the handler to its end as long as it has power. The  *)
(* user need not write anything, and nobody has to switch the machine on.  *)
FairSpec == Spec /\ WF_vars(KernelStep)

(***************************************************************************)
(* Properties.                                                             *)
(***************************************************************************)
Owned == UNION {ElementsOf(file[s].clusters) : s \in {t \in Slot : Holds(dir[t])}}
Pending == ElementsOf(clusters)
Lost == {c \in Cluster : fat[c] # 0} \ (Owned \cup Pending)
DirectoryFull == \A s \in Slot : Holds(dir[s])

PendingDistinct ==
  \A i, j \in 1 .. Len(clusters) : i # j => clusters[i] # clusters[j]

PendingFree ==
  /\ pc \notin Busy => clusters = << >> /\ k = 1
  /\ pc = "scan" =>
       /\ k = 1
       /\ Len(clusters) < Needed(request.size)
       /\ \A i \in 1 .. Len(clusters) : clusters[i] < cursor /\ fat[clusters[i]] = 0

PendingComplete ==
  pc \in Busy \ {"scan"} =>
    /\ Len(clusters) = Needed(request.size)
    /\ k <= Len(clusters)
    /\ Owned \cap Pending = {}

PendingLinked ==
  pc \in Busy \ {"scan"} =>
    \A i \in 1 .. Len(clusters) :
      fat[clusters[i]] = IF pc = "chain" /\ i >= k THEN 0 ELSE Link(i)

PendingStored ==
  \A i \in 1 .. Len(clusters) :
    (pc = "entry" \/ (pc \in {"data", "rest"} /\ i < k))
      => data[clusters[i]] = <<request.payload, i>>

(* Every file in the directory is whole at every moment: its chain is      *)
(* linked and ended and all its data is in place.  Write_File earns this   *)
(* by writing the entry last; a write cut short by a power failure, and    *)
(* clusters handed out again after one, must not spoil it.                 *)
FilesWhole == \A s \in Slot : Holds(dir[s]) => IsFile(fat, data, dir[s], file[s])

(* No cluster belongs to two files: Write_File takes only clusters that    *)
(* the FAT says are free, and a chain half written by an earlier call does *)
(* not lead into one.                                                      *)
NoCrossLink ==
  \A s, t \in Slot : s # t /\ Holds(dir[s]) /\ Holds(dir[t]) => Disjoint(file[s], file[t])

(* file_names() and List_Entries() stop at the first entry that was never  *)
(* used, so no file may lie behind one.  Holds for names whose stem is not *)
(* empty; the run empty_name shows the others.                             *)
NothingBehindEndMark ==
  \A s, t \in Slot : s < t /\ Holds(dir[t]) => dir[s].name # EndMark

(* The clusters of the call in progress are free while the search of the   *)
(* FAT runs; afterwards they are as many as the file needs, they are no    *)
(* file's, and they are linked, and then filled, up to the round that the  *)
(* loops have reached.  This is what makes the three properties above hold *)
(* from step to step.                                                      *)
PendingOK ==
  /\ PendingDistinct
  /\ PendingFree
  /\ PendingComplete
  /\ PendingLinked
  /\ PendingStored

(* Clusters go missing, marked used with no file to own them, only in two  *)
(* ways: a power failure inside Write_File, or a directory with no free    *)
(* slot, which Write_File notices after it has spent the clusters.         *)
LostOnlyByFailureOrFullDirectory ==
  [][Lost' \subseteq Lost \/ pc' = "off" \/ (pc = "entry" /\ DirectoryFull)]_vars

(* "Not enough space" is printed only when fewer clusters are free, of     *)
(* those the search covers, than the file needs; and nothing was changed.  *)
NoSpaceIsTrue ==
  [][pc = "scan" /\ pc' = "idle" =>
       /\ Cardinality({c \in 3 .. total_clusters + 1 : fat[c] = 0}) < Needed(request.size)
       /\ UNCHANGED disk]_vars

(* Write_File comes to its end unless the power fails.                     *)
WriteReturns == (pc \in Busy) ~> (pc \in {"idle", "off"})

(* The volume as a store of whole files (FileStore).  A file's content is  *)
(* read from the data region along the clusters of its chain.              *)
Stored ==
  [s \in Slot |->
     IF HoldsFile(dir[s])
     THEN [name |-> dir[s].name, size |-> dir[s].size,
           content |-> [i \in 1 .. Len(file[s].clusters) |-> data[file[s].clusters[i]]]]
     ELSE NoFile]

WholeFile ==
  {f \in [name : DirName, size : Nat, content : Seq(Content)] :
     \E p \in Payload : f.content = [i \in 1 .. Needed(f.size) |-> <<p, i>>]}

Store == INSTANCE FileStore WITH store <- Stored, File <- WholeFile, None <- NoFile

(* Files appear whole and in one step, at the write of the directory       *)
(* sector, in a slot that held none, and stay as they are ever after,      *)
(* whatever later writes and power failures do.                            *)
StoreSpec == Store!Spec

(* What Write_File's own list of steps (fat16.cpp:392) says: a call that   *)
(* gets past the search for clusters has created the entry when it         *)
(* returns.  It does not hold when the directory sector is full.           *)
WriteCreatesEntry ==
  [][pc = "entry" /\ pc' = "idle" =>
       \E s \in Slot : Holds(dir'[s]) /\ file'[s].clusters = clusters]_vars
=============================================================================
