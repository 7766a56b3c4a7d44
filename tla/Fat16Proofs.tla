---------------------------- MODULE Fat16Proofs ----------------------------
(***************************************************************************)
(* Proofs about the volume (Fat16) for disks, files and clusters of every  *)
(* size: its types, that every file is whole and no two share a cluster at *)
(* any moment, and that it implements the abstract FileStore.              *)
(***************************************************************************)
EXTENDS Fat16, TLAPS, SequenceTheorems, FiniteSetTheorems

IInv == TypeOK /\ FilesWhole /\ NoCrossLink /\ PendingOK

(* Every write needs a cluster at least. *)
LEMMA NeededPositive ==
  \A size \in Nat \ {0} : Needed(size) \in Nat \ {0}
BY SizeAssumption DEF Needed

LEMMA InitInvariant == Init => IInv
<1>. SUFFICES ASSUME Init PROVE IInv
  OBVIOUS
<1>2. PICK D \in Disks : fat = D.fat /\ dir = D.dir /\ data = D.data /\ file = D.file
  BY DEF Init
<1>3. WellFormed(D)
  BY DiskAssumption
<1>4. TypeOK
  <2>1. /\ fat \in [0 .. FatLen - 1 -> FatValue]
        /\ dir \in [Slot -> Entry]
        /\ data \in [Cluster -> Content]
        /\ file \in [Slot -> Chain]
    BY <1>2, <1>3 DEF WellFormed
  <2>2. pc \in {"off", "idle"} \cup Busy /\ (pc \in Busy <=> request # NoRequest)
    BY DEF Init, Busy
  <2>3. request \in Request \cup {NoRequest} /\ clusters \in Seq(Cluster)
    BY DEF Init
  <2>4. cursor \in 3 .. FatLen + 1 /\ k \in Nat \ {0}
    BY SizeAssumption DEF Init
  <2>. QED
    BY <2>1, <2>2, <2>3, <2>4 DEF TypeOK
<1>5. FilesWhole
  BY <1>2, <1>3 DEF WellFormed, FilesWhole
<1>6. NoCrossLink
  BY <1>2, <1>3 DEF WellFormed, NoCrossLink
<1>7. PendingOK
  BY DEF Init, PendingOK, PendingDistinct, PendingFree, PendingComplete,
         PendingLinked, PendingStored, Busy
<1>. QED
  BY <1>4, <1>5, <1>6, <1>7 DEF IInv

(***************************************************************************)
(* What the invariant says of the clusters in use.                         *)
(***************************************************************************)
LEMMA OwnedClusters ==
  ASSUME IInv
  PROVE  \A s \in Slot : Holds(dir[s]) =>
           /\ file[s].clusters \in Seq(Cluster)
           /\ IsFile(fat, data, dir[s], file[s])
           /\ \A i \in 1 .. Len(file[s].clusters) :
                /\ file[s].clusters[i] \in Owned
                /\ file[s].clusters[i] \in Cluster
                /\ fat[file[s].clusters[i]] # 0
<1>1. TAKE s \in Slot
<1>2. HAVE Holds(dir[s])
<1>3. file[s].clusters \in Seq(Cluster)
  BY DEF IInv, TypeOK, Chain
<1>4. IsFile(fat, data, dir[s], file[s])
  BY <1>2 DEF IInv, FilesWhole
<1>5. ASSUME NEW i \in 1 .. Len(file[s].clusters)
      PROVE  /\ file[s].clusters[i] \in Owned
             /\ file[s].clusters[i] \in Cluster
             /\ fat[file[s].clusters[i]] # 0
  <2>1. file[s].clusters[i] \in Cluster
    BY <1>3
  <2>2. file[s].clusters[i] \in Owned
    BY <1>2, <1>3 DEF Owned, ElementsOf
  <2>3. fat[file[s].clusters[i]] # 0
    <3>1. CASE i < Len(file[s].clusters)
      <4>1. fat[file[s].clusters[i]] = file[s].clusters[i + 1]
        BY <1>4, <3>1 DEF IsFile
      <4>2. file[s].clusters[i + 1] \in Cluster
        BY <1>3, <3>1
      <4>. QED
        BY <4>1, <4>2 DEF Cluster
    <3>2. CASE ~(i < Len(file[s].clusters))
      BY <1>4, <3>2 DEF IsFile, IsEnd, Word16
    <3>. QED
      BY <3>1, <3>2
  <2>. QED
    BY <2>1, <2>2, <2>3
<1>. QED
  BY <1>3, <1>4, <1>5

(* A file's clusters are in use, so a free cluster is nobody's.            *)
LEMMA OwnedInUse ==
  ASSUME IInv
  PROVE  \A c \in Owned : c \in Cluster /\ fat[c] # 0
<1>1. TAKE c \in Owned
<1>2. PICK s \in Slot : Holds(dir[s]) /\ c \in ElementsOf(file[s].clusters)
  BY DEF Owned
<1>3. file[s].clusters \in Seq(Cluster)
  BY DEF IInv, TypeOK, Chain
<1>4. PICK i \in 1 .. Len(file[s].clusters) : c = file[s].clusters[i]
  BY <1>2, <1>3 DEF ElementsOf
<1>. QED
  BY <1>2, <1>4, OwnedClusters

(***************************************************************************)
(* Each action preserves the invariant.                                    *)
(***************************************************************************)
(* Steps that leave the disk alone keep the files as they are.             *)
LEMMA DiskUnchanged ==
  ASSUME IInv, UNCHANGED disk
  PROVE  FilesWhole' /\ NoCrossLink' /\ Owned' = Owned
<1>1. fat' = fat /\ dir' = dir /\ data' = data /\ file' = file
  BY DEF disk
<1>2. FilesWhole'
  BY <1>1 DEF IInv, FilesWhole
<1>3. NoCrossLink'
  BY <1>1 DEF IInv, NoCrossLink
<1>4. Owned' = Owned
  BY <1>1 DEF Owned
<1>. QED
  BY <1>2, <1>3, <1>4

(* A return from Write_File, or a power failure, leaves no clusters pending. *)
LEMMA NothingPending ==
  ASSUME IInv, NoLocals, pc' \in {"off", "idle"}
  PROVE  PendingOK'
BY DEF NoLocals, PendingOK, PendingDistinct, PendingFree, PendingComplete,
       PendingLinked, PendingStored, Busy

LEMMA ReturnType ==
  ASSUME IInv, NoLocals, pc' \in {"off", "idle"}, UNCHANGED disk
  PROVE  TypeOK'
<1>1. /\ fat' \in [0 .. FatLen - 1 -> FatValue]
      /\ dir' \in [Slot -> Entry]
      /\ data' \in [Cluster -> Content]
      /\ file' \in [Slot -> Chain]
  BY DEF IInv, TypeOK, disk
<1>2. /\ pc' \in {"off", "idle"} \cup Busy
      /\ pc' \in Busy <=> request' # NoRequest
      /\ request' \in Request \cup {NoRequest}
      /\ clusters' \in Seq(Cluster)
  BY DEF NoLocals, Busy
<1>3. cursor' \in 3 .. FatLen + 1 /\ k' \in Nat \ {0}
  BY SizeAssumption DEF NoLocals
<1>. QED
  BY <1>1, <1>2, <1>3 DEF TypeOK

LEMMA WriteFileStep ==
  ASSUME IInv, NEW r \in Request, WriteFile(r)
  PROVE  IInv'
<1>1. UNCHANGED disk /\ clusters' = << >> /\ k' = 1
  BY DEF WriteFile, disk, IInv, PendingOK, PendingFree, Busy
<1>2. TypeOK'
  BY DataAssumption DEF WriteFile, IInv, TypeOK, Busy
<1>3. PendingOK'
  <2>1. 0 < Needed(request'.size)
    BY NeededPositive DEF WriteFile, Request
  <2>. QED
    BY <1>1, <2>1 DEF WriteFile, PendingOK, PendingDistinct, PendingFree,
                      PendingComplete, PendingLinked, PendingStored, Busy
<1>. QED
  BY <1>1, <1>2, <1>3, DiskUnchanged DEF IInv

LEMMA ScanFailsStep ==
  ASSUME IInv, ScanFails
  PROVE  IInv'
BY DiskUnchanged, NothingPending, ReturnType DEF IInv, ScanFails

LEMMA PowerFailStep ==
  ASSUME IInv, PowerFail
  PROVE  IInv'
BY DiskUnchanged, NothingPending, ReturnType DEF IInv, PowerFail

LEMMA BootStep ==
  ASSUME IInv, Boot
  PROVE  IInv'
<1>1. TypeOK'
  BY DEF Boot, IInv, TypeOK, Busy, disk, local
<1>2. PendingOK'
  BY DEF Boot, IInv, PendingOK, PendingDistinct, PendingFree, PendingComplete,
         PendingLinked, PendingStored, Busy, disk, local
<1>. QED
  BY <1>1, <1>2, DiskUnchanged DEF IInv, Boot

LEMMA ScanClusterStep ==
  ASSUME IInv, ScanCluster
  PROVE  IInv'
<1>. /\ pc = "scan" /\ request \in Request /\ clusters \in Seq(Cluster)
     /\ cursor \in 3 .. FatLen + 1 /\ cursor < total_clusters + 2 /\ k \in Nat \ {0}
  BY DEF ScanCluster, IInv, TypeOK, Busy
<1>. cursor \in Cluster /\ cursor + 1 \in 3 .. FatLen + 1
  BY SizeAssumption DEF Cluster
<1>0. UNCHANGED disk /\ UNCHANGED <<request, k>>
  BY DEF ScanCluster
<1>d. fat' = fat /\ dir' = dir /\ data' = data /\ file' = file
  BY <1>0 DEF disk
<1>n. Needed(request.size) \in Nat \ {0}
  BY NeededPositive DEF Request
<1>1. CASE ~ClusterFree(cursor)
  <2>1. clusters' = clusters /\ pc' = pc /\ cursor' = cursor + 1
    BY <1>1 DEF ScanCluster, NextCluster
  <2>2. TypeOK'
    BY <1>0, <1>d, <2>1 DEF IInv, TypeOK, Busy
  <2>3. PendingDistinct' /\ PendingComplete' /\ PendingLinked' /\ PendingStored'
    BY <2>1 DEF IInv, PendingOK, PendingDistinct, PendingComplete, PendingLinked,
                PendingStored, Busy
  <2>4. PendingFree'
    <3>1. /\ k = 1 /\ Len(clusters) < Needed(request.size)
          /\ \A i \in 1 .. Len(clusters) : clusters[i] < cursor /\ fat[clusters[i]] = 0
      BY DEF IInv, PendingOK, PendingFree
    <3>2. ASSUME NEW i \in 1 .. Len(clusters)
          PROVE  clusters[i] < cursor + 1
      <4>1. clusters[i] \in Cluster
        OBVIOUS
      <4>. QED
        BY <3>1, <4>1 DEF Cluster
    <3>. QED
      BY <1>0, <1>d, <2>1, <3>1, <3>2 DEF PendingFree, Busy
  <2>. QED
    BY <1>0, <2>2, <2>3, <2>4, DiskUnchanged DEF IInv, PendingOK
<1>2. CASE ClusterFree(cursor)
  <2>1. /\ clusters' = Append(clusters, cursor)
        /\ fat[cursor] = 0
        /\ \/ Len(clusters') = Needed(request.size) /\ pc' = "chain" /\ cursor' = cursor
           \/ Len(clusters') # Needed(request.size) /\ pc' = "scan" /\ cursor' = cursor + 1
    BY <1>2 DEF ScanCluster, NextCluster, ClusterFree
  <2>2. TypeOK'
    BY <1>0, <1>d, <2>1 DEF IInv, TypeOK, Busy
  <2>3. /\ Len(clusters') = Len(clusters) + 1
        /\ \A i \in 1 .. Len(clusters) : clusters'[i] = clusters[i]
        /\ clusters'[Len(clusters) + 1] = cursor
    BY <2>1
  <2>4. /\ k = 1
        /\ Len(clusters) < Needed(request.size)
        /\ \A i \in 1 .. Len(clusters) : clusters[i] < cursor /\ fat[clusters[i]] = 0
    BY DEF IInv, PendingOK, PendingFree
  <2>5. \A i \in 1 .. Len(clusters') : clusters'[i] <= cursor /\ fat[clusters'[i]] = 0
    <3>. SUFFICES ASSUME NEW i \in 1 .. Len(clusters')
                  PROVE  clusters'[i] <= cursor /\ fat[clusters'[i]] = 0
      OBVIOUS
    <3>1. CASE i = Len(clusters) + 1
      BY <2>1, <2>3, <3>1 DEF Cluster
    <3>2. CASE i # Len(clusters) + 1
      <4>1. i \in 1 .. Len(clusters) /\ clusters'[i] = clusters[i] /\ clusters[i] \in Cluster
        BY <2>3, <3>2
      <4>. QED
        BY <2>4, <4>1 DEF Cluster
    <3>. QED
      BY <3>1, <3>2
  <2>6. PendingDistinct'
    <3>1. \A i, j \in 1 .. Len(clusters) : i # j => clusters[i] # clusters[j]
      BY DEF IInv, PendingOK, PendingDistinct
    <3>. SUFFICES ASSUME NEW i \in 1 .. Len(clusters'), NEW j \in 1 .. Len(clusters'), i < j
                  PROVE  clusters'[i] # clusters'[j]
      BY <2>3 DEF PendingDistinct
    <3>2. CASE j = Len(clusters) + 1
      BY <2>3, <2>4, <3>2 DEF Cluster
    <3>3. CASE j # Len(clusters) + 1
      BY <2>3, <3>1, <3>3
    <3>. QED
      BY <3>2, <3>3
  <2>7. PendingFree'
    <3>1. ASSUME NEW i \in 1 .. Len(clusters')
          PROVE  clusters'[i] < cursor + 1
      <4>1. clusters'[i] \in Cluster
        BY <2>2 DEF TypeOK
      <4>. QED
        BY <2>5, <4>1 DEF Cluster
    <3>2. Len(clusters') # Needed(request.size) => Len(clusters') < Needed(request.size)
      BY <1>n, <2>3, <2>4
    <3>. QED
      BY <1>0, <1>d, <2>1, <2>4, <2>5, <3>1, <3>2 DEF PendingFree, Busy
  <2>8. Owned \cap Pending' = {}
    <3>1. \A c \in Pending' : fat[c] = 0
      BY <2>1, <2>5 DEF Pending, ElementsOf
    <3>. QED
      BY <3>1, OwnedInUse
  <2>9. PendingComplete'
    <3>1. pc' = "chain" => Len(clusters') = Needed(request'.size)
      BY <1>0, <2>1
    <3>2. pc' = "chain" => k = 1
      BY <2>4
    <3>. QED
      BY <1>0, <1>n, <2>1, <2>8, <3>1, <3>2, DiskUnchanged DEF PendingComplete, Busy
  <2>10. PendingLinked' /\ PendingStored'
    <3>1. \A i \in 1 .. Len(clusters') : i >= k' /\ fat'[clusters'[i]] = 0
      BY <1>0, <1>d, <2>4, <2>5
    <3>. QED
      BY <2>1, <3>1 DEF PendingLinked, PendingStored, Busy
  <2>. QED
    BY <1>0, <2>2, <2>6, <2>7, <2>9, <2>10, DiskUnchanged DEF IInv, PendingOK
<1>. QED
  BY <1>1, <1>2

(* What the invariant says while Write_File writes: the k-th cluster found *)
(* is a cluster, no file's, and different from the other ones found.       *)
LEMMA WritingFacts ==
  ASSUME IInv, pc \in Busy \ {"scan"}
  PROVE  /\ request \in Request /\ clusters \in Seq(Cluster)
         /\ k \in 1 .. Len(clusters) /\ Len(clusters) = Needed(request.size)
         /\ clusters[k] \in Cluster
         /\ \A c \in Owned : c # clusters[k]
         /\ \A i \in 1 .. Len(clusters) : i # k => clusters[i] # clusters[k]
<1>1. /\ request \in Request /\ clusters \in Seq(Cluster)
      /\ k \in 1 .. Len(clusters) /\ Len(clusters) = Needed(request.size)
  BY DEF IInv, TypeOK, PendingOK, PendingComplete
<1>2. clusters[k] \in Cluster
  BY <1>1
<1>3. clusters[k] \in Pending
  BY <1>1 DEF Pending, ElementsOf
<1>4. \A c \in Owned : c # clusters[k]
  BY <1>3 DEF IInv, PendingOK, PendingComplete
<1>5. \A i \in 1 .. Len(clusters) : i # k => clusters[i] # clusters[k]
  BY <1>1 DEF IInv, PendingOK, PendingDistinct
<1>. QED
  BY <1>1, <1>2, <1>4, <1>5

(* Writing the FAT entry or the data of a cluster that is no file's leaves *)
(* every file as it is.                                                    *)
LEMMA FilesUntouched ==
  ASSUME IInv, NEW c \in Cluster, c \notin Owned,
         UNCHANGED <<dir, file>>,
         \A e \in Cluster : e # c => fat'[e] = fat[e] /\ data'[e] = data[e]
  PROVE  FilesWhole' /\ NoCrossLink' /\ Owned' = Owned
<1>1. Owned' = Owned
  BY DEF Owned
<1>2. NoCrossLink'
  BY DEF IInv, NoCrossLink
<1>3. FilesWhole'
  <2>. SUFFICES ASSUME NEW s \in Slot, Holds(dir[s])
                PROVE  IsFile(fat', data', dir[s], file[s])
    BY DEF FilesWhole
  <2>1. /\ file[s].clusters \in Seq(Cluster)
        /\ IsFile(fat, data, dir[s], file[s])
        /\ \A i \in 1 .. Len(file[s].clusters) :
             file[s].clusters[i] \in Owned /\ file[s].clusters[i] \in Cluster
    BY OwnedClusters
  <2>2. \A i \in 1 .. Len(file[s].clusters) :
          /\ fat'[file[s].clusters[i]] = fat[file[s].clusters[i]]
          /\ data'[file[s].clusters[i]] = data[file[s].clusters[i]]
    BY <2>1
  <2>. QED
    BY <2>1, <2>2 DEF IsFile
<1>. QED
  BY <1>1, <1>2, <1>3

LEMMA ClusterValue == Cluster \subseteq FatValue
<1>1. Word16 \in Int
  BY DEF Word16
<1>2. FatLen \in Int /\ FatLen <= Word16 - 9
  BY <1>1, SizeAssumption
<1>. QED
  BY <1>1, <1>2 DEF Cluster, FatValue

LEMMA LinkInType ==
  ASSUME IInv, pc \in Busy \ {"scan"}, NEW i \in 1 .. Len(clusters)
  PROVE  Link(i) \in FatValue
<1>1. clusters \in Seq(Cluster)
  BY WritingFacts
<1>2. CASE i < Len(clusters)
  <2>1. clusters[i + 1] \in Cluster
    BY <1>1, <1>2
  <2>. QED
    BY <1>2, <2>1, ClusterValue DEF Link
<1>3. CASE ~(i < Len(clusters))
  BY <1>3 DEF Link, EndOfChain, FatValue, Word16
<1>. QED
  BY <1>2, <1>3

(* The loops over the clusters: what NextRound does to pc and k.           *)
LEMMA RoundFacts ==
  ASSUME IInv, pc \in Busy \ {"scan"}, NEW loop \in {"chain", "data"}, NextRound(loop)
  PROVE  \/ k < Len(clusters) /\ pc' = loop /\ k' = k + 1
         \/ k = Len(clusters) /\ k' = 1 /\ (pc' = IF loop = "chain" THEN "data" ELSE "entry")
BY WritingFacts DEF NextRound, AfterLoop

LEMMA LinkClusterStep ==
  ASSUME IInv, LinkCluster
  PROVE  IInv'
<1>. pc = "chain" /\ pc \in Busy \ {"scan"}
  BY DEF LinkCluster, Busy
<1>1. /\ fat' = [fat EXCEPT ![clusters[k]] = Link(k)]
      /\ UNCHANGED <<dir, data, file, request, clusters, cursor>>
  BY DEF LinkCluster
<1>2. /\ request \in Request /\ clusters \in Seq(Cluster)
      /\ k \in 1 .. Len(clusters) /\ Len(clusters) = Needed(request.size)
      /\ clusters[k] \in Cluster
      /\ \A c \in Owned : c # clusters[k]
      /\ \A i \in 1 .. Len(clusters) : i # k => clusters[i] # clusters[k]
  BY WritingFacts
<1>3. \/ k < Len(clusters) /\ pc' = "chain" /\ k' = k + 1
      \/ k = Len(clusters) /\ k' = 1 /\ pc' = "data"
  BY RoundFacts DEF LinkCluster
<1>4. fat \in [0 .. FatLen - 1 -> FatValue] /\ clusters[k] \in 0 .. FatLen - 1
  BY <1>2 DEF IInv, TypeOK, Cluster
<1>5. FilesWhole' /\ NoCrossLink' /\ Owned' = Owned
  <2>1. \A e \in Cluster : e # clusters[k] => fat'[e] = fat[e] /\ data'[e] = data[e]
    BY <1>1, <1>4 DEF Cluster
  <2>. QED
    BY <1>1, <1>2, <2>1, FilesUntouched
<1>6. TypeOK'
  <2>1. fat' \in [0 .. FatLen - 1 -> FatValue]
    BY <1>1, <1>2, <1>4, LinkInType
  <2>2. /\ pc' \in Busy /\ k' \in Nat \ {0}
    BY <1>2, <1>3 DEF Busy
  <2>. QED
    BY <1>1, <2>1, <2>2 DEF IInv, TypeOK
<1>7. PendingDistinct' /\ PendingFree' /\ PendingComplete'
  <2>1. pc' # "scan" /\ pc' \in Busy /\ k' <= Len(clusters)
    BY <1>2, <1>3 DEF Busy
  <2>2. Pending' = Pending
    BY <1>1 DEF Pending
  <2>. QED
    BY <1>1, <1>2, <1>5, <2>1, <2>2
       DEF IInv, PendingOK, PendingDistinct, PendingFree, PendingComplete
<1>8. PendingLinked'
  <2>. SUFFICES ASSUME NEW i \in 1 .. Len(clusters)
                PROVE  fat'[clusters[i]] = IF pc' = "chain" /\ i >= k' THEN 0 ELSE Link(i)'
    BY <1>1 DEF PendingLinked
  <2>1. Link(i)' = Link(i)
    BY <1>1 DEF Link
  <2>2. fat[clusters[i]] = IF i >= k THEN 0 ELSE Link(i)
    BY DEF IInv, PendingOK, PendingLinked
  <2>3. CASE i = k
    BY <1>1, <1>2, <1>3, <1>4, <2>1, <2>3
  <2>4. CASE i # k
    <3>1. fat'[clusters[i]] = fat[clusters[i]]
      BY <1>1, <1>2, <1>4, <2>4 DEF Cluster
    <3>. QED
      BY <1>2, <1>3, <2>1, <2>2, <2>4, <3>1
  <2>. QED
    BY <2>3, <2>4
<1>9. PendingStored'
  BY <1>1, <1>2, <1>3 DEF PendingStored
<1>. QED
  BY <1>5, <1>6, <1>7, <1>8, <1>9 DEF IInv, PendingOK

LEMMA StoreClusterStep ==
  ASSUME IInv, StoreCluster
  PROVE  IInv'
<1>. pc = "data" /\ pc \in Busy \ {"scan"} /\ pc' = "rest"
  BY DEF StoreCluster, Busy
<1>1. /\ data' = [data EXCEPT ![clusters[k]] = Torn]
      /\ UNCHANGED <<fat, dir, file, request, clusters, cursor, k>>
  BY DEF StoreCluster, local
<1>2. /\ request \in Request /\ clusters \in Seq(Cluster)
      /\ k \in 1 .. Len(clusters) /\ Len(clusters) = Needed(request.size)
      /\ clusters[k] \in Cluster
      /\ \A c \in Owned : c # clusters[k]
      /\ \A i \in 1 .. Len(clusters) : i # k => clusters[i] # clusters[k]
  BY WritingFacts
<1>3. data \in [Cluster -> Content]
  BY DEF IInv, TypeOK
<1>4. FilesWhole' /\ NoCrossLink' /\ Owned' = Owned
  <2>1. \A e \in Cluster : e # clusters[k] => fat'[e] = fat[e] /\ data'[e] = data[e]
    BY <1>1, <1>3
  <2>. QED
    BY <1>1, <1>2, <2>1, FilesUntouched
<1>5. TypeOK'
  <2>1. data' \in [Cluster -> Content]
    BY <1>1, <1>3 DEF Content
  <2>. QED
    BY <1>1, <2>1 DEF IInv, TypeOK, Busy
<1>6. PendingDistinct' /\ PendingFree' /\ PendingComplete' /\ PendingLinked'
  <2>1. Pending' = Pending
    BY <1>1 DEF Pending
  <2>2. \A i \in 1 .. Len(clusters) : Link(i)' = Link(i)
    BY <1>1 DEF Link
  <2>. QED
    BY <1>1, <1>4, <2>1, <2>2
       DEF IInv, PendingOK, PendingDistinct, PendingFree, PendingComplete, PendingLinked, Busy
<1>7. PendingStored'
  <2>1. \A i \in 1 .. Len(clusters) : i < k => data'[clusters[i]] = data[clusters[i]]
    BY <1>1, <1>2, <1>3
  <2>2. \A i \in 1 .. Len(clusters) : i < k => data[clusters[i]] = <<request.payload, i>>
    BY DEF IInv, PendingOK, PendingStored
  <2>. QED
    BY <1>1, <2>1, <2>2 DEF PendingStored
<1>. QED
  BY <1>4, <1>5, <1>6, <1>7 DEF IInv, PendingOK

LEMMA StoreRestStep ==
  ASSUME IInv, StoreRest
  PROVE  IInv'
<1>. pc = "rest" /\ pc \in Busy \ {"scan"}
  BY DEF StoreRest, Busy
<1>1. /\ data' = [data EXCEPT ![clusters[k]] = <<request.payload, k>>]
      /\ UNCHANGED <<fat, dir, file, request, clusters, cursor>>
  BY DEF StoreRest
<1>2. /\ request \in Request /\ clusters \in Seq(Cluster)
      /\ k \in 1 .. Len(clusters) /\ Len(clusters) = Needed(request.size)
      /\ clusters[k] \in Cluster
      /\ \A c \in Owned : c # clusters[k]
      /\ \A i \in 1 .. Len(clusters) : i # k => clusters[i] # clusters[k]
  BY WritingFacts
<1>3. \/ k < Len(clusters) /\ pc' = "data" /\ k' = k + 1
      \/ k = Len(clusters) /\ k' = 1 /\ pc' = "entry"
  BY RoundFacts DEF StoreRest
<1>4. data \in [Cluster -> Content]
  BY DEF IInv, TypeOK
<1>5. FilesWhole' /\ NoCrossLink' /\ Owned' = Owned
  <2>1. \A e \in Cluster : e # clusters[k] => fat'[e] = fat[e] /\ data'[e] = data[e]
    BY <1>1, <1>4
  <2>. QED
    BY <1>1, <1>2, <2>1, FilesUntouched
<1>6. TypeOK'
  <2>1. <<request.payload, k>> \in Content
    BY <1>2 DEF Content, Request
  <2>2. data' \in [Cluster -> Content]
    BY <1>1, <1>4, <2>1
  <2>3. pc' \in Busy /\ k' \in Nat \ {0}
    BY <1>2, <1>3 DEF Busy
  <2>. QED
    BY <1>1, <2>2, <2>3 DEF IInv, TypeOK
<1>7. PendingDistinct' /\ PendingFree' /\ PendingComplete' /\ PendingLinked'
  <2>1. pc' \in Busy \ {"scan", "chain"} /\ k' <= Len(clusters)
    BY <1>2, <1>3 DEF Busy
  <2>2. Pending' = Pending
    BY <1>1 DEF Pending
  <2>3. \A i \in 1 .. Len(clusters) : Link(i)' = Link(i)
    BY <1>1 DEF Link
  <2>. QED
    BY <1>1, <1>2, <1>5, <2>1, <2>2, <2>3
       DEF IInv, PendingOK, PendingDistinct, PendingFree, PendingComplete, PendingLinked
<1>8. PendingStored'
  <2>. SUFFICES ASSUME NEW i \in 1 .. Len(clusters), pc' = "entry" \/ i < k'
                PROVE  data'[clusters[i]] = <<request.payload, i>>
    BY <1>1 DEF PendingStored
  <2>1. CASE i = k
    BY <1>1, <1>2, <1>4, <2>1
  <2>2. CASE i # k
    <3>1. i < k
      BY <1>2, <1>3, <2>2
    <3>2. data[clusters[i]] = <<request.payload, i>>
      BY <3>1 DEF IInv, PendingOK, PendingStored
    <3>. QED
      BY <1>1, <1>2, <1>4, <2>2, <3>2
  <2>. QED
    BY <2>1, <2>2
<1>. QED
  BY <1>5, <1>6, <1>7, <1>8 DEF IInv, PendingOK

(* An entry that Write_File makes is a file's: it names a cluster.         *)
LEMMA NewEntryIsFile ==
  ASSUME clusters \in Seq(Cluster), 1 \in 1 .. Len(clusters)
  PROVE  ~LongName(NewEntry) /\ Extent(NewEntry) = Needed(request.size)
<1>1. clusters[1] # 0
  <2>1. clusters[1] \in Cluster
    OBVIOUS
  <2>. QED
    BY <2>1 DEF Cluster
<1>2. ~LongName(NewEntry)
  BY <1>1 DEF LongName, NewEntry
<1>. QED
  BY <1>2 DEF Extent, NewEntry

LEMMA CreateEntryStep ==
  ASSUME IInv, CreateEntry
  PROVE  IInv'
<1>. pc = "entry" /\ pc \in Busy \ {"scan"} /\ pc' = "idle"
  BY DEF CreateEntry, Busy
<1>1. NoLocals /\ UNCHANGED <<fat, data>>
  BY DEF CreateEntry
<1>2. PendingOK'
  BY <1>1, NothingPending
<1>3. CASE UNCHANGED <<dir, file>>
  BY <1>1, <1>2, <1>3, DiskUnchanged, ReturnType DEF IInv, disk
<1>4. ASSUME NEW s \in Slot,
             dir' = [dir EXCEPT ![s] = NewEntry],
             file' = [file EXCEPT ![s] = [clusters |-> clusters, payload |-> request.payload]]
      PROVE  IInv'
  <2>. DEFINE new == [clusters |-> clusters, payload |-> request.payload]
  <2>1. /\ request \in Request /\ clusters \in Seq(Cluster)
        /\ 1 \in 1 .. Len(clusters) /\ Len(clusters) = Needed(request.size)
        /\ clusters[1] \in Cluster
    BY WritingFacts
  <2>2. NewEntry \in Entry /\ new \in Chain
    <3>1. Stem(request.name) \in DirName
      BY <2>1 DEF Request, DirName
    <3>2. clusters[1] \in FatValue
      BY <2>1, ClusterValue
    <3>3. request.size \in Nat
      BY <2>1, SizeAssumption DEF Request
    <3>4. request.payload \in Payload
      BY <2>1 DEF Request
    <3>. QED
      BY <2>1, <3>1, <3>2, <3>3, <3>4 DEF NewEntry, Entry, Chain
  <2>3. dir \in [Slot -> Entry] /\ file \in [Slot -> Chain]
    BY DEF IInv, TypeOK
  <2>4. dir'[s] = NewEntry /\ file'[s] = new
    BY <1>4, <2>3
  <2>5. \A t \in Slot : t # s => dir'[t] = dir[t] /\ file'[t] = file[t]
    BY <1>4, <2>3
  <2>6. TypeOK'
    <3>1. dir' \in [Slot -> Entry] /\ file' \in [Slot -> Chain]
      BY <1>4, <2>2, <2>3
    <3>2. /\ request' = NoRequest /\ clusters' = << >> /\ cursor' = 3 /\ k' = 1
      BY <1>1 DEF NoLocals
    <3>3. cursor' \in 3 .. FatLen + 1 /\ k' \in Nat \ {0} /\ clusters' \in Seq(Cluster)
      BY <3>2, SizeAssumption
    <3>4. fat' \in [0 .. FatLen - 1 -> FatValue] /\ data' \in [Cluster -> Content]
      BY <1>1 DEF IInv, TypeOK
    <3>. QED
      BY <3>1, <3>2, <3>3, <3>4 DEF TypeOK, Busy
  <2>7. IsFile(fat, data, NewEntry, new)
    <3>1. \A i \in 1 .. Len(clusters) :
            fat[clusters[i]] = Link(i) /\ data[clusters[i]] = <<request.payload, i>>
      BY DEF IInv, PendingOK, PendingLinked, PendingStored
    <3>2. Extent(NewEntry) = Needed(request.size)
      BY <2>1, NewEntryIsFile
    <3>. QED
      BY <2>1, <3>1, <3>2 DEF IsFile, NewEntry, Link, EndOfChain, IsEnd, Word16
  <2>8. FilesWhole'
    BY <1>1, <2>4, <2>5, <2>7 DEF IInv, FilesWhole
  <2>9. \A t \in Slot : Holds(dir[t]) => Disjoint(file[t], new) /\ Disjoint(new, file[t])
    <3>1. Owned \cap Pending = {}
      BY DEF IInv, PendingOK, PendingComplete
    <3>. QED
      BY <3>1 DEF Owned, Pending, Disjoint
  <2>10. NoCrossLink'
    BY <2>4, <2>5, <2>9 DEF IInv, NoCrossLink
  <2>. QED
    BY <1>2, <2>6, <2>8, <2>10 DEF IInv
<1>. QED
  BY <1>3, <1>4 DEF CreateEntry

(***************************************************************************)
(* The theorems.                                                           *)
(***************************************************************************)
LEMMA NextInvariant == IInv /\ [Next]_vars => IInv'
<1>. SUFFICES ASSUME IInv, [Next]_vars PROVE IInv'
  OBVIOUS
<1>1. ASSUME NEW r \in Request, WriteFile(r) PROVE IInv'
  BY <1>1, WriteFileStep
<1>2. CASE ScanCluster
  BY <1>2, ScanClusterStep
<1>3. CASE ScanFails
  BY <1>3, ScanFailsStep
<1>4. CASE LinkCluster
  BY <1>4, LinkClusterStep
<1>5. CASE StoreCluster
  BY <1>5, StoreClusterStep
<1>6. CASE StoreRest
  BY <1>6, StoreRestStep
<1>7. CASE CreateEntry
  BY <1>7, CreateEntryStep
<1>8. CASE PowerFail
  BY <1>8, PowerFailStep
<1>9. CASE Boot
  BY <1>9, BootStep
<1>10. CASE UNCHANGED vars
  <2>1. UNCHANGED disk /\ UNCHANGED <<pc, request, clusters, cursor, k>>
    BY <1>10 DEF vars, disk
  <2>2. TypeOK'
    BY <1>10 DEF IInv, TypeOK, vars
  <2>3. Owned' = Owned /\ Pending' = Pending /\ \A i \in 1 .. Len(clusters) : Link(i)' = Link(i)
    BY <1>10 DEF Owned, Pending, Link, vars
  <2>4. PendingDistinct' /\ PendingFree' /\ PendingComplete'
    BY <1>10, <2>3 DEF IInv, PendingOK, PendingDistinct, PendingFree, PendingComplete, vars
  <2>5. PendingLinked'
    BY <1>10, <2>3 DEF IInv, PendingOK, PendingLinked, vars
  <2>6. PendingStored'
    BY <1>10 DEF IInv, PendingOK, PendingStored, vars
  <2>. QED
    BY <2>1, <2>2, <2>4, <2>5, <2>6, DiskUnchanged DEF IInv, PendingOK
<1>. QED
  BY <1>1, <1>2, <1>3, <1>4, <1>5, <1>6, <1>7, <1>8, <1>9, <1>10 DEF Next, KernelStep

(* The invariant holds of every reachable state.                           *)
THEOREM Invariance == Spec => []IInv
<1>. QED
  BY InitInvariant, NextInvariant, PTL DEF Spec

(* The types of the volume and of Write_File's variables.                  *)
THEOREM TypeCorrect == Spec => []TypeOK
<1>1. IInv => TypeOK
  BY DEF IInv
<1>. QED
  BY <1>1, Invariance, PTL

(* Every file in the directory is whole at every moment, for volumes,      *)
(* files and clusters of every size and however often the power fails.     *)
THEOREM AlwaysWhole == Spec => []FilesWhole
<1>1. IInv => FilesWhole
  BY DEF IInv
<1>. QED
  BY <1>1, Invariance, PTL

(* No cluster ever belongs to two files.                                   *)
THEOREM NeverCrossLinked == Spec => []NoCrossLink
<1>1. IInv => NoCrossLink
  BY DEF IInv
<1>. QED
  BY <1>1, Invariance, PTL

(* What the loops of Write_File rely on at every round: the clusters found *)
(* are nobody's and distinct, linked and filled as far as the loops are.   *)
THEOREM PendingCorrect == Spec => []PendingOK
<1>1. IInv => PendingOK
  BY DEF IInv
<1>. QED
  BY <1>1, Invariance, PTL

(***************************************************************************)
(* What holds when no name has an empty stem.                              *)
(***************************************************************************)
ProperNames == \A n \in TypedNames : Stem(n) \notin {EndMark, ErasedMark}

LEMMA CreatedEntryHolds ==
  ASSUME ProperNames, IInv, pc = "entry"
  PROVE  Holds(NewEntry)
<1>1. request.name \in TypedNames
  BY WritingFacts DEF Busy, Request
<1>. QED
  BY <1>1 DEF ProperNames, Holds, NewEntry

LEMMA EndMarkInit == Init => NothingBehindEndMark
BY DiskAssumption DEF Init, WellFormed, NothingBehindEndMark

LEMMA EndMarkNext ==
  ASSUME ProperNames, IInv, NothingBehindEndMark, [Next]_vars
  PROVE  NothingBehindEndMark'
<1>1. CASE dir' = dir
  BY <1>1 DEF NothingBehindEndMark
<1>2. ASSUME NEW s \in Slot, pc = "entry", FirstFree(s), dir' = [dir EXCEPT ![s] = NewEntry]
      PROVE  NothingBehindEndMark'
  <2>1. dir'[s] = NewEntry /\ \A t \in Slot : t # s => dir'[t] = dir[t]
    BY <1>2 DEF IInv, TypeOK
  <2>2. Holds(NewEntry)
    BY <1>2, CreatedEntryHolds
  <2>3. \A t \in Slot : t < s => dir[t].name # EndMark
    BY <1>2 DEF FirstFree, SlotFree, Slot
  <2>. QED
    BY <2>1, <2>2, <2>3 DEF NothingBehindEndMark, Holds
<1>. QED
  BY <1>1, <1>2 DEF Next, KernelStep, WriteFile, ScanCluster, ScanFails, LinkCluster,
     StoreCluster, StoreRest, CreateEntry, PowerFail, Boot, vars, disk

(* The end of the listing never hides a file, if no stem is empty.         *)
THEOREM NoFileHidden ==
  ASSUME ProperNames
  PROVE  Spec => []NothingBehindEndMark
<1>. QED
  BY EndMarkInit, EndMarkNext, Invariance, PTL DEF Spec

LEMMA LostStep ==
  ASSUME ProperNames, IInv, [Next]_vars
  PROVE  Lost' \subseteq Lost \/ pc' = "off" \/ (pc = "entry" /\ DirectoryFull)
<1>1. CASE CreateEntry
  <2>. pc = "entry"
    BY <1>1 DEF CreateEntry
  <2>1. CASE DirectoryFull
    BY <2>1
  <2>2. CASE ~DirectoryFull
    <3>1. PICK s \in Slot :
            /\ SlotFree(dir[s])
            /\ dir' = [dir EXCEPT ![s] = NewEntry]
            /\ file' = [file EXCEPT ![s] = [clusters |-> clusters, payload |-> request.payload]]
      BY <1>1, <2>2 DEF CreateEntry, FirstFree, DirectoryFull, SlotFree, Holds
    <3>2. /\ dir'[s] = NewEntry /\ file'[s].clusters = clusters
          /\ \A t \in Slot : t # s => dir'[t] = dir[t] /\ file'[t] = file[t]
      BY <3>1 DEF IInv, TypeOK
    <3>3. Holds(NewEntry) /\ ~Holds(dir[s])
      BY <3>1, CreatedEntryHolds DEF SlotFree, Holds
    <3>4. Owned \cup Pending \subseteq Owned'
      BY <3>2, <3>3 DEF Owned, Pending
    <3>5. fat' = fat
      BY <1>1 DEF CreateEntry
    <3>. QED
      BY <3>4, <3>5 DEF Lost
  <2>. QED
    BY <2>1, <2>2
<1>2. CASE LinkCluster
  <2>1. fat' = [fat EXCEPT ![clusters[k]] = Link(k)] /\ UNCHANGED <<dir, file, clusters>>
    BY <1>2 DEF LinkCluster
  <2>2. clusters[k] \in Pending /\ fat \in [0 .. FatLen - 1 -> FatValue]
    BY <1>2, WritingFacts DEF LinkCluster, Busy, Pending, ElementsOf, IInv, TypeOK
  <2>3. Owned' = Owned /\ Pending' = Pending
    BY <2>1 DEF Owned, Pending
  <2>4. \A c \in Cluster : c # clusters[k] => fat'[c] = fat[c]
    BY <2>1, <2>2 DEF Cluster
  <2>. QED
    BY <2>2, <2>3, <2>4 DEF Lost
<1>3. CASE ScanCluster
  <2>1. UNCHANGED disk /\ (clusters' = clusters \/ clusters' = Append(clusters, cursor))
    BY <1>3 DEF ScanCluster
  <2>2. clusters \in Seq(Cluster)
    BY DEF IInv, TypeOK
  <2>3. Pending \subseteq Pending'
    BY <2>1, <2>2 DEF Pending, ElementsOf
  <2>. QED
    BY <2>1, <2>3 DEF Lost, Owned, disk
<1>4. CASE ScanFails
  <2>1. UNCHANGED disk /\ pc = "scan"
    BY <1>4 DEF ScanFails
  <2>2. \A c \in Pending : fat[c] = 0
    BY <2>1 DEF IInv, TypeOK, PendingOK, PendingFree, Pending, ElementsOf
  <2>. QED
    BY <2>1, <2>2 DEF Lost, Owned, disk
<1>5. CASE UNCHANGED <<fat, dir, file, clusters>>
  BY <1>5 DEF Lost, Owned, Pending
<1>. QED
  BY <1>1, <1>2, <1>3, <1>4, <1>5 DEF Next, KernelStep, WriteFile, StoreCluster, StoreRest,
     PowerFail, Boot, vars, disk, local

(* Clusters go missing only by a power failure or a full directory, if no  *)
(* stem is empty.                                                          *)
THEOREM LossesKnown ==
  ASSUME ProperNames
  PROVE  Spec => LostOnlyByFailureOrFullDirectory
<1>. QED
  BY LostStep, Invariance, PTL DEF Spec, LostOnlyByFailureOrFullDirectory

(***************************************************************************)
(* The search for free clusters.                                           *)
(***************************************************************************)
(* It starts at cluster 3 and passes by no free cluster it does not take.  *)
SearchComplete ==
  /\ pc \in {"idle", "off"} => cursor = 3
  /\ pc = "scan" => \A c \in 3 .. cursor - 1 : fat[c] = 0 => c \in Pending

LEMMA SearchStep ==
  ASSUME IInv, SearchComplete, [Next]_vars
  PROVE  SearchComplete'
<1>1. CASE ScanCluster
  <2>1. /\ pc = "scan" /\ cursor \in 3 .. FatLen + 1 /\ clusters \in Seq(Cluster) /\ fat' = fat
        /\ cursor' \in {cursor, cursor + 1} /\ (pc' = "scan" => cursor' = cursor + 1)
        /\ pc' \in {"scan", "chain"}
    BY <1>1 DEF ScanCluster, NextCluster, IInv, TypeOK, disk
  <2>2. Pending \subseteq Pending' /\ (fat[cursor] = 0 => cursor \in Pending')
    <3>1. CASE ClusterFree(cursor)
      <4>1. clusters' = Append(clusters, cursor)
        BY <1>1, <3>1 DEF ScanCluster
      <4>2. /\ Len(clusters') = Len(clusters) + 1 /\ clusters'[Len(clusters) + 1] = cursor
            /\ DOMAIN clusters' = 1 .. Len(clusters) + 1 /\ Len(clusters) \in Nat
            /\ \A i \in 1 .. Len(clusters) : clusters'[i] = clusters[i]
        BY <2>1, <4>1
      <4>. QED
        BY <2>1, <4>2 DEF Pending, ElementsOf
    <3>2. CASE ~ClusterFree(cursor)
      BY <1>1, <3>2 DEF ScanCluster, ClusterFree, Pending
    <3>. QED
      BY <3>1, <3>2
  <2>3. ASSUME NEW c \in 3 .. cursor, fat[c] = 0
        PROVE  c \in Pending'
    <3>1. c = cursor \/ c \in 3 .. cursor - 1
      BY <2>1
    <3>. QED
      BY <2>1, <2>2, <2>3, <3>1 DEF SearchComplete
  <2>4. pc' = "scan" => 3 .. cursor' - 1 = 3 .. cursor
    BY <2>1
  <2>5. pc' \notin {"idle", "off"}
    BY <2>1
  <2>. QED
    BY <2>1, <2>3, <2>4, <2>5, Zenon DEF SearchComplete
<1>2. ASSUME NEW r \in Request, WriteFile(r)
      PROVE  SearchComplete'
  BY <1>2 DEF WriteFile, SearchComplete
<1>3. CASE NoLocals /\ pc' # "scan"
  BY <1>3 DEF NoLocals, SearchComplete
<1>4. CASE pc' \notin {"idle", "off", "scan"}
  BY <1>4 DEF SearchComplete
<1>5. CASE UNCHANGED <<fat, clusters, cursor>> /\ pc \in {"idle", "off"} /\ pc' \in {"idle", "off"}
  BY <1>5 DEF SearchComplete
<1>6. CASE UNCHANGED vars
  BY <1>6 DEF SearchComplete, Pending, vars
<1>7. ASSUME NEW loop \in {"chain", "data"}, NextRound(loop)
      PROVE  pc' \notin {"idle", "off", "scan"}
  BY <1>7 DEF NextRound, AfterLoop
<1>8. CASE ScanFails \/ CreateEntry \/ PowerFail
  BY <1>3, <1>8 DEF ScanFails, CreateEntry, PowerFail
<1>9. CASE LinkCluster \/ StoreRest
  BY <1>4, <1>7, <1>9 DEF LinkCluster, StoreRest
<1>10. CASE StoreCluster
  BY <1>4, <1>10 DEF StoreCluster
<1>11. CASE Boot
  BY <1>5, <1>11 DEF Boot, disk, local
<1>. QED
  BY <1>1, <1>2, <1>6, <1>8, <1>9, <1>10, <1>11 DEF Next, KernelStep

(* A sequence has no more elements than it is long.                        *)
LEMMA FewElements ==
  ASSUME NEW S, NEW q \in Seq(S)
  PROVE  IsFiniteSet(ElementsOf(q)) /\ Cardinality(ElementsOf(q)) <= Len(q)
<1>1. Len(q) \in Nat /\ DOMAIN q = 1 .. Len(q) /\ q \in [1 .. Len(q) -> S]
  OBVIOUS
<1>2. q \in Surjection(1 .. Len(q), ElementsOf(q))
  BY <1>1 DEF Surjection, ElementsOf
<1>3. IsFiniteSet(1 .. Len(q)) /\ Cardinality(1 .. Len(q)) = Len(q)
  BY <1>1, FS_Interval
<1>. QED
  BY <1>2, <1>3, FS_Surjection

LEMMA NoSpaceStep ==
  ASSUME IInv, SearchComplete, [Next]_vars, pc = "scan", pc' = "idle"
  PROVE  /\ Cardinality({c \in 3 .. total_clusters + 1 : fat[c] = 0}) < Needed(request.size)
         /\ UNCHANGED disk
<1>1. ScanFails
  BY DEF Next, KernelStep, WriteFile, ScanCluster, LinkCluster, StoreCluster, StoreRest,
         CreateEntry, PowerFail, Boot, vars
<1>2. UNCHANGED disk /\ cursor >= total_clusters + 2
  BY <1>1 DEF ScanFails
<1>3. clusters \in Seq(Cluster) /\ Len(clusters) \in Nat /\ Len(clusters) < Needed(request.size)
  BY DEF IInv, TypeOK, PendingOK, PendingFree
<1>4. cursor \in Nat /\ total_clusters \in Nat
  BY SizeAssumption DEF IInv, TypeOK
<1>5. Needed(request.size) \in Nat
  BY NeededPositive DEF IInv, TypeOK, Request, Busy
<1>. DEFINE free == {c \in 3 .. total_clusters + 1 : fat[c] = 0}
<1>6. free \subseteq ElementsOf(clusters)
  BY <1>2, <1>4 DEF SearchComplete, Pending
<1>7. IsFiniteSet(ElementsOf(clusters)) /\ Cardinality(ElementsOf(clusters)) <= Len(clusters)
  BY <1>3, FewElements
<1>8. /\ IsFiniteSet(free) /\ Cardinality(free) <= Cardinality(ElementsOf(clusters))
  BY <1>6, <1>7, FS_Subset
<1>9. Cardinality(free) \in Nat /\ Cardinality(ElementsOf(clusters)) \in Nat
  BY <1>7, <1>8, FS_CardinalityType
<1>. HIDE DEF free
<1>10. Cardinality(free) < Needed(request.size)
  BY <1>3, <1>5, <1>7, <1>8, <1>9
<1>. QED
  BY <1>2, <1>10 DEF free

(* "Not enough space" is said only when too few clusters are free, and     *)
(* after nothing was changed.                                              *)
THEOREM NoSpaceNeverWrong == Spec => NoSpaceIsTrue
<1>1. Init => SearchComplete
  BY DEF Init, SearchComplete
<1>2. IInv /\ SearchComplete /\ [Next]_vars => SearchComplete'
  BY SearchStep
<1>3. IInv /\ SearchComplete /\ [Next]_vars =>
        [pc = "scan" /\ pc' = "idle" =>
           /\ Cardinality({c \in 3 .. total_clusters + 1 : fat[c] = 0}) < Needed(request.size)
           /\ UNCHANGED disk]_vars
  BY NoSpaceStep
<1>. QED
  BY <1>1, <1>2, <1>3, Invariance, PTL DEF Spec, NoSpaceIsTrue

(***************************************************************************)
(* The volume implements the store of whole files: every step of Fat16 is  *)
(* a Create of FileStore, which the write of the directory sector is, or   *)
(* leaves the store unchanged, which everything before that write does,    *)
(* and a power failure.                                                    *)
(***************************************************************************)
(* The file that entry e and chain c stand for, on data region d.          *)
FileOf(d, e, c) ==
  [name |-> e.name, size |-> e.size,
   content |-> [i \in 1 .. Len(c.clusters) |-> d[c.clusters[i]]]]

(* What is linked and stored as it should be is a whole file.              *)
LEMMA FileIsWhole ==
  ASSUME NEW f, NEW d \in [Cluster -> Content], NEW e \in Entry, NEW c \in Chain,
         IsFile(f, d, e, c), ~LongName(e)
  PROVE  FileOf(d, e, c) \in WholeFile
<1>1. c.clusters \in Seq(Cluster) /\ c.payload \in Payload /\ Len(c.clusters) = Needed(e.size)
  BY DEF Chain, IsFile, Extent
<1>2. Len(c.clusters) \in Nat
  BY <1>1
<1>3. \A i \in 1 .. Len(c.clusters) : d[c.clusters[i]] = <<c.payload, i>>
  BY DEF IsFile
<1>. DEFINE content == [i \in 1 .. Len(c.clusters) |-> d[c.clusters[i]]]
<1>4. content = [i \in 1 .. Needed(e.size) |-> <<c.payload, i>>]
  BY <1>1, <1>3
<1>5. \A i \in 1 .. Len(c.clusters) : content[i] \in Content
  BY <1>1, <1>3 DEF Content
<1>6. content \in Seq(Content)
  <2>1. content \in [1 .. Len(c.clusters) -> Content]
    BY <1>5
  <2>. QED
    BY <1>2, <2>1, SeqDef
<1>. HIDE DEF content
<1>7. [name |-> e.name, size |-> e.size, content |-> content]
        \in [name : DirName, size : Nat, content : Seq(Content)]
  BY <1>6 DEF Entry
<1>8. [name |-> e.name, size |-> e.size, content |-> content] \in WholeFile
  BY <1>1, <1>4, <1>7 DEF WholeFile
<1>. QED
  BY <1>8 DEF FileOf, content

LEMMA StoredValue ==
  Stored = [s \in Slot |-> IF HoldsFile(dir[s]) THEN FileOf(data, dir[s], file[s]) ELSE NoFile]
BY DEF Stored, FileOf

LEMMA InitRefines == Init => Store!Init
<1>. SUFFICES ASSUME Init PROVE Store!Init
  OBVIOUS
<1>1. IInv
  BY InitInvariant
<1>2. ASSUME NEW s \in Slot, HoldsFile(dir[s])
      PROVE  FileOf(data, dir[s], file[s]) \in WholeFile
  BY <1>1, <1>2, FileIsWhole DEF IInv, TypeOK, FilesWhole, HoldsFile
<1>. QED
  BY <1>2, StoredValue DEF Store!Init

(* Steps that change no file's clusters leave the store as it is.          *)
LEMMA StoreUnchanged ==
  ASSUME IInv, UNCHANGED <<dir, file>>, \A c \in Owned : data'[c] = data[c]
  PROVE  Stored' = Stored
<1>1. ASSUME NEW s \in Slot, HoldsFile(dir[s])
      PROVE  FileOf(data', dir[s], file[s]) = FileOf(data, dir[s], file[s])
  <2>1. \A i \in 1 .. Len(file[s].clusters) : file[s].clusters[i] \in Owned
    BY <1>1, OwnedClusters DEF HoldsFile
  <2>. QED
    BY <2>1 DEF FileOf
<1>2. Stored' = [s \in Slot |-> IF HoldsFile(dir[s]) THEN FileOf(data', dir[s], file[s]) ELSE NoFile]
  BY DEF Stored, FileOf, HoldsFile, Holds, LongName
<1>. QED
  BY <1>1, <1>2, StoredValue

LEMMA CreateEntryRefines ==
  ASSUME IInv, CreateEntry
  PROVE  [Store!Next]_Stored
<1>1. IInv'
  BY CreateEntryStep
<1>2. data' = data
  BY DEF CreateEntry
<1>3. CASE UNCHANGED <<dir, file>>
  BY <1>2, <1>3, StoreUnchanged
<1>4. ASSUME NEW s \in Slot, SlotFree(dir[s]),
             dir' = [dir EXCEPT ![s] = NewEntry],
             file' = [file EXCEPT ![s] = [clusters |-> clusters, payload |-> request.payload]]
      PROVE  [Store!Next]_Stored
  <2>1. Stored' = [t \in Slot |-> IF HoldsFile(dir'[t]) THEN FileOf(data, dir'[t], file'[t]) ELSE NoFile]
    BY <1>2 DEF Stored, FileOf, HoldsFile, Holds, LongName
  <2>2. \A t \in Slot : t # s => dir'[t] = dir[t] /\ file'[t] = file[t]
    BY <1>4 DEF IInv, TypeOK
  <2>3. Stored[s] = NoFile
    BY <1>4, StoredValue DEF SlotFree, HoldsFile, Holds
  <2>4. \A t \in Slot : t # s => Stored'[t] = Stored[t]
    BY <2>1, <2>2, StoredValue
  <2>5. DOMAIN Stored = Slot /\ DOMAIN Stored' = Slot
    BY <2>1, StoredValue
  <2>6. Stored' = [Stored EXCEPT ![s] = Stored'[s]]
    BY <2>1, <2>4, <2>5, StoredValue
  <2>7. CASE HoldsFile(dir'[s])
    <3>1. IsFile(fat', data', dir'[s], file'[s])
      BY <1>1, <2>7 DEF IInv, FilesWhole, HoldsFile, Holds
    <3>2. data' \in [Cluster -> Content] /\ dir'[s] \in Entry /\ file'[s] \in Chain
      BY <1>1 DEF IInv, TypeOK
    <3>3. Stored'[s] \in WholeFile
      BY <1>2, <2>1, <2>7, <3>1, <3>2, FileIsWhole DEF HoldsFile, LongName
    <3>. QED
      BY <2>3, <2>6, <3>3 DEF Store!Next, Store!Create
  <2>8. CASE ~HoldsFile(dir'[s])
    <3>1. Stored'[s] = Stored[s]
      BY <2>1, <2>3, <2>8
    <3>2. \A t \in Slot : Stored'[t] = Stored[t]
      BY <2>4, <3>1
    <3>3. Stored' = Stored
      BY <2>1, <3>2, StoredValue
    <3>. QED
      BY <3>3
  <2>. QED
    BY <2>7, <2>8
<1>. QED
  BY <1>3, <1>4 DEF CreateEntry, FirstFree

LEMMA NextRefines == IInv /\ [Next]_vars => [Store!Next]_Stored
<1>. SUFFICES ASSUME IInv, [Next]_vars PROVE [Store!Next]_Stored
  OBVIOUS
<1>1. CASE CreateEntry
  BY <1>1, CreateEntryRefines
<1>2. CASE StoreCluster
  <2>1. pc \in Busy \ {"scan"} /\ data \in [Cluster -> Content]
    BY <1>2 DEF StoreCluster, Busy, IInv, TypeOK
  <2>2. \A c \in Owned : data'[c] = data[c]
    BY <1>2, <2>1, WritingFacts, OwnedInUse DEF StoreCluster
  <2>. QED
    BY <1>2, <2>2, StoreUnchanged DEF StoreCluster
<1>3. CASE StoreRest
  <2>1. pc \in Busy \ {"scan"} /\ data \in [Cluster -> Content]
    BY <1>3 DEF StoreRest, Busy, IInv, TypeOK
  <2>2. \A c \in Owned : data'[c] = data[c]
    BY <1>3, <2>1, WritingFacts, OwnedInUse DEF StoreRest
  <2>. QED
    BY <1>3, <2>2, StoreUnchanged DEF StoreRest
<1>4. CASE UNCHANGED <<dir, file, data>>
  BY <1>4, StoreUnchanged
<1>5. \/ CreateEntry \/ StoreCluster \/ StoreRest \/ UNCHANGED <<dir, file, data>>
  BY DEF Next, KernelStep, WriteFile, ScanCluster, ScanFails, LinkCluster, PowerFail, Boot,
         vars, disk
<1>. QED
  BY <1>1, <1>2, <1>3, <1>4, <1>5

(* Files appear whole and in one step and never change or go away: the     *)
(* three loops of Write_File, cut short or not, are one atomic Create of   *)
(* the abstract store, for volumes and files of every size.                *)
THEOREM VolumeImplementsStore == Spec => StoreSpec
<1>. QED
  BY InitRefines, NextRefines, Invariance, PTL DEF Spec, StoreSpec, Store!Spec
=============================================================================
