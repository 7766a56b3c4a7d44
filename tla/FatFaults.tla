----------------------------- MODULE FatFaults -----------------------------
(***************************************************************************)
(* Write_File (module Fat16) on a disk whose driver fails without saying   *)
(* so, as module Ata shows it may: a sector is not written, or a read      *)
(* leaves the caller's buffer as it was, which in fat16.cpp is always an   *)
(* uninitialised array on the stack.  Write_FAT_Entry and the last step of *)
(* Write_File put such an array back on the disk.                          *)
(***************************************************************************)
EXTENDS Fat16

CONSTANTS
  SectorEntries,   (* FAT entries in one sector: 256 *)
  JunkValues,      (* what a FAT entry of an array nobody filled may be *)
  JunkDirs,        (* what a directory sector nobody filled may be *)
  MaxFaults        (* bound: transfers that fail in one behaviour *)

ASSUME FaultAssumption ==
  /\ SectorEntries \in Nat \ {0}
  /\ JunkValues \subseteq FatValue
  /\ JunkDirs \subseteq [Slot -> Entry]
  /\ MaxFaults \in Nat

VARIABLES
  misread,         (* a read has failed in the call in progress, or the last *)
  unwritten,       (* a write has *)
  faults           (* how many have failed so far *)

faultVars == <<misread, unwritten, faults>>
allVars   == <<vars, faultVars>>

FTypeOK ==
  /\ TypeOK
  /\ misread \in BOOLEAN /\ unwritten \in BOOLEAN
  /\ faults \in 0 .. MaxFaults
  /\ faults = 0 => ~misread /\ ~unwritten

FInit == Init /\ misread = FALSE /\ unwritten = FALSE /\ faults = 0

ReadFails  == faults < MaxFaults /\ faults' = faults + 1 /\ misread' = TRUE /\ UNCHANGED unwritten
WriteFails == faults < MaxFaults /\ faults' = faults + 1 /\ unwritten' = TRUE /\ UNCHANGED misread

(* Read_FAT_Entry returns what was on the stack: a cluster in use may seem *)
(* free, and a free one in use.                                            *)
ScanMisread ==
  /\ pc = "scan"
  /\ cursor < total_clusters + 2
  /\ ReadFails
  /\ \/ /\ clusters' = Append(clusters, cursor)
        /\ IF Len(clusters') = Needed(request.size)
           THEN pc' = "chain" /\ UNCHANGED cursor
           ELSE cursor' = NextCluster(cursor) /\ UNCHANGED pc
     \/ /\ cursor' = NextCluster(cursor)
        /\ UNCHANGED <<clusters, pc>>
  /\ UNCHANGED <<disk, request, k>>

(* Write_FAT_Entry does not get its sector and writes the array, with one  *)
(* entry filled in, over it.                                               *)
SameSector(c) == {d \in 0 .. FatLen - 1 : d \div SectorEntries = c \div SectorEntries}

LinkMisread ==
  /\ pc = "chain"
  /\ ReadFails
  /\ \E junk \in [SameSector(clusters[k]) -> JunkValues] :
       fat' = [c \in DOMAIN fat |-> IF c = clusters[k] THEN Link(k)
                                    ELSE IF c \in DOMAIN junk THEN junk[c] ELSE fat[c]]
  /\ NextRound("chain")
  /\ UNCHANGED <<dir, data, file, request, clusters, cursor>>

LinkUnwritten ==
  /\ pc = "chain"
  /\ WriteFails
  /\ NextRound("chain")
  /\ UNCHANGED <<disk, request, clusters, cursor>>

(* Write_Cluster: none of its sectors is written, or not all of them. *)
StoreUnwritten ==
  /\ pc \in {"data", "rest"}
  /\ WriteFails
  /\ NextRound("data")
  /\ UNCHANGED <<disk, request, clusters, cursor>>

(* The directory sector is not read: the entry goes into what was on the   *)
(* stack, if that has room, and all of it is written.                      *)
EntryMisread ==
  /\ pc = "entry"
  /\ ReadFails
  /\ \E junk \in JunkDirs :
       LET free == {s \in Slot : SlotFree(junk[s])}
           into == {s \in free : \A t \in free : s <= t}
       IN  /\ dir' = [s \in Slot |-> IF s \in into THEN NewEntry ELSE junk[s]]
           /\ file' = [s \in Slot |-> IF s \in into THEN [clusters |-> clusters, payload |-> request.payload]
                                                    ELSE file[s]]
  /\ pc' = "idle"
  /\ NoLocals
  /\ UNCHANGED <<fat, data>>

EntryUnwritten ==
  /\ pc = "entry"
  /\ WriteFails
  /\ pc' = "idle"
  /\ NoLocals
  /\ UNCHANGED disk

FaultyStep ==
  ScanMisread \/ LinkMisread \/ LinkUnwritten \/ StoreUnwritten \/ EntryMisread \/ EntryUnwritten

SoundStep ==
  \/ \E r \in Request : WriteFile(r) /\ misread' = FALSE /\ unwritten' = FALSE /\ UNCHANGED faults
  \/ (KernelStep \/ PowerFail \/ Boot) /\ UNCHANGED faultVars

FNext == SoundStep \/ FaultyStep

FSpec == FInit /\ [][FNext]_allVars /\ WF_allVars(KernelStep /\ UNCHANGED faultVars)

(***************************************************************************)
(* Properties.                                                             *)
(***************************************************************************)
Whole(s) == Holds(dir[s]) /\ IsFile(fat, data, dir[s], file[s])

(* Whole, and no call is about to write over it.  (A chain damaged earlier *)
(* may look whole while a new call has linked the same cluster.)           *)
Safe(s) == Whole(s) /\ ElementsOf(file[s].clusters) \cap Pending = {}

(* A file that is safe stays safe, whatever earlier failures have left on  *)
(* the disk and whichever writes fail now, power included: only a call in  *)
(* which a read fails can spoil it, for the driver does not say that the   *)
(* array was not filled.                                                   *)
SpoiltOnlyByMisread == [][\A s \in Slot : Safe(s) /\ ~Safe(s)' => misread']_allVars

(* A call in which nothing fails puts a whole file into the directory,     *)
(* however damaged the FAT and the directory are that it finds.            *)
NewFileWhole ==
  [][\A s \in Slot : pc = "entry" /\ dir'[s] # dir[s] /\ Holds(dir'[s]) =>
       Whole(s)' \/ misread' \/ unwritten']_allVars

(* Write_File comes to its end also when transfers fail. *)
FWriteReturns == (pc \in Busy) ~> (pc \in {"idle", "off"})
=============================================================================
