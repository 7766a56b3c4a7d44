-------------------------- MODULE FatFaultsProofs --------------------------
(***************************************************************************)
(* For volumes, files and numbers of failures of every size: what a disk   *)
(* that fails can do to files.  The invariant of Fat16 does not hold here  *)
(* (a failed read may bring two files together); what is left of it is the *)
(* call's own bookkeeping, and what a call that met no failure has done.   *)
(***************************************************************************)
EXTENDS FatFaults, Fat16Proofs

Clean == ~misread /\ ~unwritten

(* The array of clusters and the loop variables, whatever the reads bring. *)
Bookkeeping ==
  /\ PendingDistinct
  /\ pc \notin Busy => clusters = << >> /\ k = 1
  /\ pc = "scan" =>
       k = 1 /\ Len(clusters) < Needed(request.size) /\ \A i \in 1 .. Len(clusters) : clusters[i] < cursor
  /\ pc \in Busy \ {"scan"} => Len(clusters) = Needed(request.size) /\ k <= Len(clusters)

(* What the loops have done as far as they are, if nothing has failed.     *)
LinkedSoFar ==
  Clean /\ pc \in Busy \ {"scan"} =>
    \A i \in 1 .. Len(clusters) : (pc = "chain" => i < k) => fat[clusters[i]] = Link(i)

StoredSoFar == Clean => PendingStored

FInv == TypeOK /\ Bookkeeping /\ LinkedSoFar /\ StoredSoFar

LEMMA FaultFacts ==
  /\ UNCHANGED faultVars => (Clean' <=> Clean)
  /\ ReadFails \/ WriteFails => ~Clean'
<1>1. ASSUME UNCHANGED faultVars
      PROVE  Clean' <=> Clean
  <2>1. misread' = misread /\ unwritten' = unwritten
    BY <1>1 DEF faultVars
  <2>. QED
    BY Zenon, <2>1 DEF Clean
<1>2. ReadFails \/ WriteFails => ~Clean'
  BY Zenon DEF Clean, ReadFails, WriteFails
<1>. QED
  BY <1>1, <1>2

LEMMA FInitInvariant == FInit => FInv
<1>. SUFFICES ASSUME FInit
              PROVE  FInv
  OBVIOUS
<1>1. TypeOK /\ PendingOK /\ pc \notin Busy
  BY InitInvariant DEF FInit, IInv, Init, Busy
<1>. QED
  BY <1>1 DEF FInv, PendingOK, PendingFree, Bookkeeping, LinkedSoFar, StoredSoFar, Busy

(***************************************************************************)
(* Steps that end a call, and the search.                                  *)
(***************************************************************************)
LEMMA ReturnInvariant ==
  ASSUME FInv, NoLocals, pc' \in {"off", "idle"},
         fat' = fat, data' = data, dir' \in [Slot -> Entry], file' \in [Slot -> Chain]
  PROVE  FInv'
<1>1. TypeOK'
  <2>1. clusters' \in Seq(Cluster) /\ cursor' \in 3 .. FatLen + 1 /\ k' \in Nat \ {0}
    BY SizeAssumption DEF NoLocals
  <2>. QED
    BY <2>1 DEF FInv, TypeOK, NoLocals, Busy
<1>2. PendingStored'
  BY DEF NoLocals, PendingStored
<1>. QED
  BY <1>1, <1>2 DEF FInv, Bookkeeping, PendingDistinct, LinkedSoFar, StoredSoFar, NoLocals, Busy

LEMMA CallInvariant ==
  ASSUME FInv, NEW r \in Request, WriteFile(r)
  PROVE  FInv'
<1>1. TypeOK'
  BY DataAssumption DEF WriteFile, FInv, TypeOK, Busy
<1>2. clusters' = << >> /\ k' = 1 /\ pc' = "scan"
  BY DEF WriteFile, FInv, Bookkeeping, Busy
<1>3. 0 < Needed(request'.size)
  BY NeededPositive DEF WriteFile, Request
<1>4. PendingStored'
  BY <1>2 DEF PendingStored
<1>. QED
  BY <1>1, <1>2, <1>3, <1>4 DEF FInv, Bookkeeping, PendingDistinct, LinkedSoFar, StoredSoFar, Busy

(* A round of the search, whether the entry it read was right or not. *)
LEMMA SearchInvariant ==
  ASSUME FInv, pc = "scan", cursor < total_clusters + 2, UNCHANGED <<disk, request, k>>,
         \/ /\ clusters' = Append(clusters, cursor)
            /\ \/ Len(clusters') = Needed(request.size) /\ pc' = "chain" /\ cursor' = cursor
               \/ Len(clusters') # Needed(request.size) /\ pc' = "scan" /\ cursor' = cursor + 1
         \/ clusters' = clusters /\ pc' = "scan" /\ cursor' = cursor + 1
  PROVE  FInv'
<1>. /\ request \in Request /\ clusters \in Seq(Cluster) /\ cursor \in 3 .. FatLen + 1 /\ k \in Nat \ {0}
  BY DEF FInv, TypeOK, Busy
<1>. cursor \in Cluster /\ cursor + 1 \in 3 .. FatLen + 1 /\ cursor \in Nat
  BY SizeAssumption DEF Cluster
<1>. Cluster \subseteq Nat
  BY DEF Cluster
<1>. Needed(request.size) \in Nat \ {0}
  BY NeededPositive DEF Request
<1>1. k = 1 /\ Len(clusters) < Needed(request.size) /\ \A i \in 1 .. Len(clusters) : clusters[i] < cursor
  BY DEF FInv, Bookkeeping
<1>2. TypeOK'
  <2>1. cursor' \in 3 .. FatLen + 1 /\ pc' \in Busy
    BY DEF Busy
  <2>3. clusters' \in Seq(Cluster)
    BY <1>1
  <2>2. UNCHANGED <<fat, dir, data, file, request, k>>
    BY DEF disk
  <2>. QED
    BY <2>1, <2>2, <2>3 DEF FInv, TypeOK, Busy
<1>3. PendingDistinct' /\ \A i \in 1 .. Len(clusters') : clusters'[i] < cursor + 1
  <2>0. \A i, j \in 1 .. Len(clusters) : i # j => clusters[i] # clusters[j]
    BY DEF FInv, Bookkeeping, PendingDistinct
  <2>1. \A i \in 1 .. Len(clusters) : clusters[i] \in Nat /\ clusters[i] < cursor
    <3>1. \A i \in 1 .. Len(clusters) : clusters[i] \in Cluster
      OBVIOUS
    <3>. QED
      BY <1>1, <3>1
  <2>2. CASE clusters' = clusters
    <3>1. \A i \in 1 .. Len(clusters) : clusters[i] < cursor + 1
      BY <2>1
    <3>. QED
      BY <2>0, <2>2, <3>1 DEF PendingDistinct
  <2>3. CASE clusters' = Append(clusters, cursor)
    <3>1. /\ Len(clusters') = Len(clusters) + 1
          /\ clusters'[Len(clusters) + 1] = cursor
          /\ \A i \in 1 .. Len(clusters) : clusters'[i] = clusters[i]
      BY <2>3
    <3>2. \A i \in 1 .. Len(clusters) + 1 : i \in 1 .. Len(clusters) \/ i = Len(clusters) + 1
      OBVIOUS
    <3>3. \A i \in 1 .. Len(clusters') : clusters'[i] < cursor + 1
      BY <2>1, <3>1, <3>2
    <3>4. ASSUME NEW i \in 1 .. Len(clusters'), NEW j \in 1 .. Len(clusters'), i # j
          PROVE  clusters'[i] # clusters'[j]
      <4>1. CASE i = Len(clusters) + 1
        BY <2>1, <3>1, <3>2, <3>4, <4>1
      <4>2. CASE j = Len(clusters) + 1
        BY <2>1, <3>1, <3>2, <3>4, <4>2
      <4>3. CASE i \in 1 .. Len(clusters) /\ j \in 1 .. Len(clusters)
        BY <2>0, <3>1, <3>4, <4>3
      <4>. QED
        BY <3>1, <3>2, <4>1, <4>2, <4>3
    <3>. QED
      BY <3>3, <3>4 DEF PendingDistinct
  <2>. QED
    BY <2>2, <2>3
<1>4. /\ pc' = "scan" => Len(clusters') < Needed(request'.size) /\ cursor' = cursor + 1
      /\ pc' \in {"scan", "chain"}
      /\ pc' = "chain" => Len(clusters') = Needed(request'.size) /\ 1 <= Len(clusters')
  <2>1. CASE clusters' = clusters
    BY <1>1, <2>1
  <2>2. CASE clusters' = Append(clusters, cursor)
    <3>1. Len(clusters') = Len(clusters) + 1 /\ Len(clusters) \in Nat
      BY <2>2
    <3>2. clusters' # clusters
      BY <3>1
    <3>. QED
      BY <1>1, <3>1, <3>2
  <2>. QED
    BY <2>1, <2>2
<1>5. Bookkeeping'
  BY <1>1, <1>3, <1>4 DEF Bookkeeping, Busy
<1>6. LinkedSoFar' /\ StoredSoFar'
  BY <1>1, <1>4 DEF LinkedSoFar, StoredSoFar, PendingStored
<1>. QED
  BY <1>2, <1>5, <1>6 DEF FInv

(***************************************************************************)
(* The loops over the clusters found.                                      *)
(***************************************************************************)
LEMMA LoopFacts ==
  ASSUME FInv, pc \in Busy \ {"scan"}
  PROVE  /\ request \in Request /\ clusters \in Seq(Cluster) /\ Cluster \subseteq 0 .. FatLen - 1
         /\ k \in 1 .. Len(clusters) /\ Len(clusters) = Needed(request.size) /\ clusters[k] \in Cluster
         /\ \A i \in 1 .. Len(clusters) : i # k => clusters[i] # clusters[k]
<1>1. /\ request \in Request /\ clusters \in Seq(Cluster)
      /\ k \in 1 .. Len(clusters) /\ Len(clusters) = Needed(request.size)
  BY DEF FInv, TypeOK, Bookkeeping
<1>2. clusters[k] \in Cluster
  BY <1>1
<1>3. Cluster \subseteq 0 .. FatLen - 1
  BY DEF Cluster
<1>4. \A i \in 1 .. Len(clusters) : i # k => clusters[i] # clusters[k]
  BY <1>1 DEF FInv, Bookkeeping, PendingDistinct
<1>. QED
  BY <1>1, <1>2, <1>3, <1>4

LEMMA RoundOfLoop ==
  ASSUME FInv, pc \in Busy \ {"scan"}, NEW loop \in {"chain", "data"}, NextRound(loop),
         UNCHANGED <<request, clusters, cursor>>,
         fat' \in [0 .. FatLen - 1 -> FatValue], data' \in [Cluster -> Content],
         dir' = dir, file' = file
  PROVE  /\ TypeOK' /\ Bookkeeping'
         /\ \/ k < Len(clusters) /\ pc' = loop /\ k' = k + 1
            \/ k = Len(clusters) /\ k' = 1 /\ (pc' = IF loop = "chain" THEN "data" ELSE "entry")
<1>1. \/ k < Len(clusters) /\ pc' = loop /\ k' = k + 1
      \/ k = Len(clusters) /\ k' = 1 /\ (pc' = IF loop = "chain" THEN "data" ELSE "entry")
  BY LoopFacts DEF NextRound, AfterLoop
<1>2. pc' \in Busy \ {"scan"} /\ k' \in 1 .. Len(clusters)
  BY <1>1, LoopFacts DEF Busy
<1>3. TypeOK'
  BY <1>2 DEF FInv, TypeOK
<1>4. Bookkeeping'
  BY <1>2 DEF FInv, Bookkeeping, PendingDistinct
<1>. QED
  BY <1>1, <1>3, <1>4

(* A round that fails leaves the bookkeeping as after one that does not. *)
LEMMA FailedRound ==
  ASSUME FInv, ~Clean', pc \in Busy \ {"scan"}, NEW loop \in {"chain", "data"}, NextRound(loop),
         UNCHANGED <<request, clusters, cursor>>,
         fat' \in [0 .. FatLen - 1 -> FatValue], data' \in [Cluster -> Content],
         dir' = dir, file' = file
  PROVE  FInv'
BY RoundOfLoop DEF FInv, LinkedSoFar, StoredSoFar

LEMMA LinkType ==
  ASSUME FInv, pc \in Busy \ {"scan"}
  PROVE  Link(k) \in FatValue
<1>1. CASE k < Len(clusters)
  <2>1. clusters[k + 1] \in Cluster
    BY <1>1, LoopFacts
  <2>. QED
    BY <1>1, <2>1, ClusterValue DEF Link
<1>2. CASE ~(k < Len(clusters))
  BY <1>2 DEF Link, EndOfChain, FatValue, Word16
<1>. QED
  BY <1>1, <1>2

LEMMA LinkInvariant == ASSUME FInv, LinkCluster, UNCHANGED faultVars PROVE FInv'
<1>. pc = "chain" /\ pc \in Busy \ {"scan"}
  BY DEF LinkCluster, Busy
<1>1. /\ fat \in [0 .. FatLen - 1 -> FatValue] /\ data' \in [Cluster -> Content]
      /\ fat' = [fat EXCEPT ![clusters[k]] = Link(k)]
      /\ UNCHANGED <<dir, data, file, request, clusters, cursor>> /\ NextRound("chain")
  BY DEF LinkCluster, FInv, TypeOK
<1>2. fat' \in [0 .. FatLen - 1 -> FatValue]
  BY <1>1, LinkType
<1>3. /\ TypeOK' /\ Bookkeeping'
      /\ \/ k < Len(clusters) /\ pc' = "chain" /\ k' = k + 1
         \/ k = Len(clusters) /\ k' = 1 /\ pc' = "data"
  BY <1>1, <1>2, RoundOfLoop
<1>4. LinkedSoFar'
  <2>. SUFFICES ASSUME Clean, NEW i \in 1 .. Len(clusters), pc' = "chain" => i < k'
                PROVE  fat'[clusters[i]] = Link(i)
    BY <1>1, FaultFacts DEF LinkedSoFar, Link
  <2>1. CASE i = k
    BY <1>1, <2>1, LoopFacts
  <2>2. CASE i # k
    <3>1. i < k
      BY <1>3, <2>2, LoopFacts
    <3>2. fat[clusters[i]] = Link(i)
      BY <3>1 DEF FInv, LinkedSoFar
    <3>3. clusters[i] \in 0 .. FatLen - 1 /\ clusters[i] # clusters[k]
      BY <2>2, LoopFacts
    <3>. QED
      BY <1>1, <3>2, <3>3
  <2>. QED
    BY <2>1, <2>2
<1>5. StoredSoFar'
  <2>1. PendingStored'
    BY <1>1, <1>3, LoopFacts DEF PendingStored
  <2>. QED
    BY <2>1 DEF StoredSoFar
<1>. QED
  BY <1>3, <1>4, <1>5 DEF FInv

LEMMA StoreClusterInvariant == ASSUME FInv, StoreCluster, UNCHANGED faultVars PROVE FInv'
<1>. pc = "data" /\ pc' = "rest" /\ pc \in Busy \ {"scan"} /\ pc' \in Busy \ {"scan"}
  BY DEF StoreCluster, Busy
<1>1. /\ data \in [Cluster -> Content] /\ data' = [data EXCEPT ![clusters[k]] = Torn]
      /\ fat' = fat /\ UNCHANGED <<dir, file, request, clusters, cursor, k>>
  BY DEF StoreCluster, FInv, TypeOK, local
<1>2. TypeOK'
  <2>1. data' \in [Cluster -> Content]
    BY <1>1 DEF Content
  <2>. QED
    BY <1>1, <2>1 DEF FInv, TypeOK
<1>3. Bookkeeping'
  BY <1>1 DEF FInv, Bookkeeping, PendingDistinct
<1>4. LinkedSoFar'
  <2>1. \A i \in 1 .. Len(clusters) : Link(i)' = Link(i)
    BY <1>1 DEF Link
  <2>. QED
    BY <1>1, <2>1, FaultFacts DEF FInv, LinkedSoFar
<1>5. StoredSoFar'
  <2>. SUFFICES ASSUME Clean, NEW i \in 1 .. Len(clusters), i < k
                PROVE  data'[clusters[i]] = <<request.payload, i>>
    BY <1>1, FaultFacts DEF StoredSoFar, PendingStored
  <2>1. data[clusters[i]] = <<request.payload, i>>
    BY DEF FInv, StoredSoFar, PendingStored
  <2>. QED
    BY <1>1, <2>1, LoopFacts
<1>. QED
  BY <1>2, <1>3, <1>4, <1>5 DEF FInv

LEMMA StoreRestInvariant == ASSUME FInv, StoreRest, UNCHANGED faultVars PROVE FInv'
<1>. pc = "rest" /\ pc \in Busy \ {"scan"}
  BY DEF StoreRest, Busy
<1>1. /\ data \in [Cluster -> Content] /\ data' = [data EXCEPT ![clusters[k]] = <<request.payload, k>>]
      /\ fat' = fat /\ fat' \in [0 .. FatLen - 1 -> FatValue]
      /\ UNCHANGED <<dir, file, request, clusters, cursor>> /\ NextRound("data")
  BY DEF StoreRest, FInv, TypeOK
<1>2. data' \in [Cluster -> Content]
  <2>1. <<request.payload, k>> \in Content
    BY LoopFacts DEF Content, Request
  <2>. QED
    BY <1>1, <2>1
<1>3. /\ TypeOK' /\ Bookkeeping'
      /\ \/ k < Len(clusters) /\ pc' = "data" /\ k' = k + 1
         \/ k = Len(clusters) /\ k' = 1 /\ pc' = "entry"
  BY <1>1, <1>2, RoundOfLoop
<1>4. LinkedSoFar'
  <2>1. \A i \in 1 .. Len(clusters) : Link(i)' = Link(i)
    BY <1>1 DEF Link
  <2>. QED
    BY <1>1, <1>3, <2>1, FaultFacts DEF FInv, LinkedSoFar
<1>5. StoredSoFar'
  <2>. SUFFICES ASSUME Clean, NEW i \in 1 .. Len(clusters), pc' = "entry" \/ i < k'
                PROVE  data'[clusters[i]] = <<request.payload, i>>
    BY <1>1, FaultFacts DEF StoredSoFar, PendingStored
  <2>1. CASE i = k
    BY <1>1, <2>1, LoopFacts
  <2>2. CASE i # k
    <3>1. i < k
      BY <1>3, <2>2, LoopFacts
    <3>2. data[clusters[i]] = <<request.payload, i>>
      BY <3>1 DEF FInv, StoredSoFar, PendingStored
    <3>. QED
      BY <1>1, <2>2, <3>2, LoopFacts
  <2>. QED
    BY <2>1, <2>2
<1>. QED
  BY <1>3, <1>4, <1>5 DEF FInv

(***************************************************************************)
(* The directory sector.                                                   *)
(***************************************************************************)
LEMMA NewEntryType ==
  ASSUME FInv, pc = "entry"
  PROVE  NewEntry \in Entry /\ [clusters |-> clusters, payload |-> request.payload] \in Chain
<1>1. /\ request \in Request /\ clusters \in Seq(Cluster)
      /\ 1 \in 1 .. Len(clusters) /\ clusters[1] \in Cluster
  BY LoopFacts DEF Busy
<1>2. Stem(request.name) \in DirName
  BY <1>1 DEF Request, DirName
<1>3. clusters[1] \in FatValue
  BY <1>1, ClusterValue
<1>4. request.size \in Nat
  BY <1>1, SizeAssumption DEF Request
<1>5. request.payload \in Payload
  BY <1>1 DEF Request
<1>. QED
  BY <1>1, <1>2, <1>3, <1>4, <1>5 DEF NewEntry, Entry, Chain

LEMMA EntryInvariant == ASSUME FInv, CreateEntry PROVE FInv'
<1>1. pc = "entry" /\ pc' = "idle" /\ NoLocals /\ fat' = fat /\ data' = data
  BY DEF CreateEntry
<1>2. dir \in [Slot -> Entry] /\ file \in [Slot -> Chain]
  BY DEF FInv, TypeOK
<1>3. dir' \in [Slot -> Entry] /\ file' \in [Slot -> Chain]
  BY <1>1, <1>2, NewEntryType DEF CreateEntry
<1>. QED
  BY <1>1, <1>3, ReturnInvariant

LEMMA EntryMisreadInvariant == ASSUME FInv, EntryMisread PROVE FInv'
<1>1. pc = "entry" /\ pc' = "idle" /\ NoLocals /\ fat' = fat /\ data' = data
  BY DEF EntryMisread
<1>2. file \in [Slot -> Chain]
  BY DEF FInv, TypeOK
<1>3. PICK junk \in JunkDirs, into \in SUBSET Slot :
        /\ dir' = [s \in Slot |-> IF s \in into THEN NewEntry ELSE junk[s]]
        /\ file' = [s \in Slot |-> IF s \in into THEN [clusters |-> clusters, payload |-> request.payload]
                                                 ELSE file[s]]
  <2>1. PICK junk \in JunkDirs :
          LET free == {s \in Slot : SlotFree(junk[s])}
              into == {s \in free : \A t \in free : s <= t}
          IN  /\ dir' = [s \in Slot |-> IF s \in into THEN NewEntry ELSE junk[s]]
              /\ file' = [s \in Slot |-> IF s \in into THEN [clusters |-> clusters, payload |-> request.payload]
                                                       ELSE file[s]]
    BY DEF EntryMisread
  <2>. DEFINE free == {s \in Slot : SlotFree(junk[s])}
              into == {s \in free : \A t \in free : s <= t}
  <2>2. into \in SUBSET Slot
    OBVIOUS
  <2>. QED
    BY <2>1, <2>2
<1>4. dir' \in [Slot -> Entry] /\ file' \in [Slot -> Chain]
  BY <1>1, <1>2, <1>3, NewEntryType, FaultAssumption
<1>. QED
  BY <1>1, <1>4, ReturnInvariant

(***************************************************************************)
(* The invariant.                                                          *)
(***************************************************************************)
LEMMA LinkMisreadInvariant == ASSUME FInv, LinkMisread PROVE FInv'
<1>1. /\ pc \in Busy \ {"scan"} /\ ~Clean' /\ NextRound("chain")
      /\ UNCHANGED <<dir, data, file, request, clusters, cursor>>
  BY FaultFacts DEF LinkMisread, Busy
<1>2. fat \in [0 .. FatLen - 1 -> FatValue] /\ data' \in [Cluster -> Content]
  BY <1>1 DEF FInv, TypeOK
<1>3. fat' \in [0 .. FatLen - 1 -> FatValue]
  <2>1. PICK junk \in [SameSector(clusters[k]) -> JunkValues] :
          fat' = [c \in DOMAIN fat |-> IF c = clusters[k] THEN Link(k)
                                       ELSE IF c \in DOMAIN junk THEN junk[c] ELSE fat[c]]
    BY DEF LinkMisread
  <2>2. Link(k) \in FatValue
    BY <1>1, LinkType
  <2>3. \A c \in DOMAIN junk : junk[c] \in FatValue
    BY FaultAssumption
  <2>. QED
    BY <1>2, <2>1, <2>2, <2>3
<1>. QED
  BY <1>1, <1>2, <1>3, FailedRound

LEMMA UnwrittenInvariant == ASSUME FInv, LinkUnwritten \/ StoreUnwritten PROVE FInv'
<1>1. /\ pc \in Busy \ {"scan"} /\ ~Clean'
      /\ UNCHANGED <<fat, dir, data, file, request, clusters, cursor>>
  BY FaultFacts DEF LinkUnwritten, StoreUnwritten, Busy, disk
<1>2. NextRound("chain") \/ NextRound("data")
  BY DEF LinkUnwritten, StoreUnwritten
<1>3. fat' \in [0 .. FatLen - 1 -> FatValue] /\ data' \in [Cluster -> Content]
  BY <1>1 DEF FInv, TypeOK
<1>4. CASE NextRound("chain")
  BY <1>1, <1>3, <1>4, FailedRound
<1>5. CASE NextRound("data")
  BY <1>1, <1>3, <1>5, FailedRound
<1>. QED
  BY <1>2, <1>4, <1>5

LEMMA DiskKeptInvariant ==
  ASSUME FInv, NoLocals, pc' \in {"off", "idle"}, UNCHANGED disk
  PROVE  FInv'
BY ReturnInvariant DEF FInv, TypeOK, disk

LEMMA StillInvariant ==
  ASSUME FInv, pc' \notin Busy, pc \notin Busy, pc' \in {"off", "idle"}, UNCHANGED <<disk, local>>
  PROVE  FInv'
<1>1. UNCHANGED <<fat, dir, data, file, request, clusters, cursor, k>>
  BY DEF disk, local
<1>2. clusters = << >> /\ k = 1
  BY DEF FInv, Bookkeeping
<1>3. TypeOK'
  BY <1>1 DEF FInv, TypeOK
<1>4. PendingDistinct' /\ PendingStored'
  BY <1>1, <1>2 DEF PendingDistinct, PendingStored
<1>. QED
  BY <1>1, <1>2, <1>3, <1>4 DEF FInv, Bookkeeping, LinkedSoFar, StoredSoFar, Busy

LEMMA SoundInvariant == ASSUME FInv, SoundStep PROVE FInv'
<1>1. ASSUME NEW r \in Request, WriteFile(r) PROVE FInv'
  BY <1>1, CallInvariant
<1>2. CASE ScanCluster
  BY <1>2, SearchInvariant DEF ScanCluster, NextCluster
<1>3. CASE ScanFails
  BY <1>3, DiskKeptInvariant DEF ScanFails
<1>4. CASE LinkCluster /\ UNCHANGED faultVars
  BY <1>4, LinkInvariant
<1>5. CASE StoreCluster /\ UNCHANGED faultVars
  BY <1>5, StoreClusterInvariant
<1>6. CASE StoreRest /\ UNCHANGED faultVars
  BY <1>6, StoreRestInvariant
<1>7. CASE CreateEntry
  BY <1>7, EntryInvariant
<1>8. CASE PowerFail
  BY <1>8, DiskKeptInvariant DEF PowerFail
<1>9. CASE Boot
  BY <1>9, StillInvariant DEF Boot, Busy
<1>. QED
  BY <1>1, <1>2, <1>3, <1>4, <1>5, <1>6, <1>7, <1>8, <1>9 DEF SoundStep, KernelStep

LEMMA FaultyInvariant == ASSUME FInv, FaultyStep PROVE FInv'
<1>1. CASE ScanMisread
  BY <1>1, SearchInvariant DEF ScanMisread, NextCluster
<1>2. CASE LinkMisread
  BY <1>2, LinkMisreadInvariant
<1>3. CASE LinkUnwritten \/ StoreUnwritten
  BY <1>3, UnwrittenInvariant
<1>4. CASE EntryMisread
  BY <1>4, EntryMisreadInvariant
<1>5. CASE EntryUnwritten
  BY <1>5, DiskKeptInvariant DEF EntryUnwritten
<1>. QED
  BY <1>1, <1>2, <1>3, <1>4, <1>5 DEF FaultyStep

LEMMA StutterInvariant == ASSUME FInv, UNCHANGED allVars PROVE FInv'
<1>1. UNCHANGED <<fat, dir, data, file, pc, request, clusters, cursor, k>> /\ UNCHANGED faultVars
  BY DEF allVars, vars
<1>2. TypeOK' /\ Bookkeeping'
  BY <1>1 DEF FInv, TypeOK, Bookkeeping, PendingDistinct
<1>3. LinkedSoFar'
  <2>1. \A i \in 1 .. Len(clusters) : Link(i)' = Link(i)
    BY <1>1 DEF Link
  <2>. QED
    BY <1>1, <2>1, FaultFacts DEF FInv, LinkedSoFar
<1>4. StoredSoFar'
  BY <1>1, FaultFacts DEF FInv, StoredSoFar, PendingStored
<1>. QED
  BY <1>2, <1>3, <1>4 DEF FInv

(* What is left of the invariant of Fat16 when transfers fail.             *)
THEOREM FaultInvariance == FSpec => []FInv
<1>1. FInv /\ [FNext]_allVars => FInv'
  BY SoundInvariant, FaultyInvariant, StutterInvariant DEF FNext
<1>. QED
  BY <1>1, FInitInvariant, PTL DEF FSpec

LEMMA FlagsStep ==
  ASSUME misread \in BOOLEAN, unwritten \in BOOLEAN, [FNext]_allVars
  PROVE  misread' \in BOOLEAN /\ unwritten' \in BOOLEAN
<1>1. CASE FaultyStep
  BY Zenon, <1>1 DEF FaultyStep, ScanMisread, LinkMisread, LinkUnwritten, StoreUnwritten, EntryMisread,
     EntryUnwritten, ReadFails, WriteFails
<1>2. CASE SoundStep
  BY Zenon, <1>2 DEF SoundStep, faultVars
<1>3. CASE UNCHANGED allVars
  BY Zenon, <1>3 DEF allVars, faultVars
<1>. QED
  BY <1>1, <1>2, <1>3 DEF FNext

LEMMA CountStep ==
  ASSUME faults \in 0 .. MaxFaults, faults = 0 => ~misread /\ ~unwritten, [FNext]_allVars
  PROVE  faults' \in 0 .. MaxFaults /\ (faults' = 0 => ~misread' /\ ~unwritten')
<1>1. CASE FaultyStep
  <2>1. faults < MaxFaults /\ faults' = faults + 1
    BY <1>1 DEF FaultyStep, ScanMisread, LinkMisread, LinkUnwritten, StoreUnwritten, EntryMisread,
       EntryUnwritten, ReadFails, WriteFails
  <2>. QED
    BY <2>1, FaultAssumption
<1>2. CASE ~FaultyStep
  <2>1. faults' = faults
    BY <1>2 DEF FNext, SoundStep, faultVars, allVars
  <2>2. Clean => Clean'
    <3>1. UNCHANGED faultVars \/ (misread' = FALSE /\ unwritten' = FALSE)
      BY <1>2 DEF FNext, SoundStep, allVars
    <3>2. misread' = FALSE /\ unwritten' = FALSE => Clean'
      BY Zenon DEF Clean
    <3>. QED
      BY Zenon, <3>1, <3>2, FaultFacts
  <2>3. CASE faults # 0
    BY <2>1, <2>3
  <2>4. CASE faults = 0
    <3>1. Clean
      BY Zenon, <2>4 DEF Clean
    <3>2. ~misread' /\ ~unwritten'
      BY Zenon, <2>2, <3>1 DEF Clean
    <3>. QED
      BY Zenon, <2>1, <3>2
  <2>. QED
    BY <2>3, <2>4
<1>. QED
  BY <1>1, <1>2

(* The types, and that a failure noted is a failure counted.               *)
THEOREM FaultTypes == FSpec => []FTypeOK
<1>1. FInv /\ FTypeOK /\ FInv' /\ [FNext]_allVars => FTypeOK'
  <2>1. FInv' => TypeOK'
    BY DEF FInv
  <2>. QED
    BY <2>1, FlagsStep, CountStep DEF FTypeOK
<1>2. FInit => FTypeOK
  <2>1. FInit => TypeOK
    BY FInitInvariant DEF FInv
  <2>2. FInit => misread = FALSE /\ unwritten = FALSE /\ faults \in 0 .. MaxFaults
    BY FaultAssumption DEF FInit
  <2>3. FInit => misread \in BOOLEAN /\ unwritten \in BOOLEAN /\ ~misread /\ ~unwritten
    BY Zenon, <2>2
  <2>. QED
    BY <2>1, <2>2, <2>3 DEF FTypeOK
<1>. QED
  BY <1>1, <1>2, FaultInvariance, PTL DEF FSpec

(***************************************************************************)
(* A safe file stays safe unless a read fails.                             *)
(***************************************************************************)
LEMMA SafeKept ==
  ASSUME NEW s \in Slot, Safe(s), FInv,
         dir'[s] = dir[s], file'[s] = file[s],
         \A c \in ElementsOf(file[s].clusters) : c \in Cluster => fat'[c] = fat[c] /\ data'[c] = data[c],
         ElementsOf(file[s].clusters) \cap Pending' = {}
  PROVE  Safe(s)'
<1>1. file[s].clusters \in Seq(Cluster)
  BY DEF FInv, TypeOK, Chain
<1>2. \A i \in 1 .. Len(file[s].clusters) :
        /\ fat'[file[s].clusters[i]] = fat[file[s].clusters[i]]
        /\ data'[file[s].clusters[i]] = data[file[s].clusters[i]]
  BY <1>1 DEF ElementsOf
<1>3. Whole(s)
  BY DEF Safe
<1>4. IsFile(fat', data', dir[s], file[s])
  BY <1>2, <1>3 DEF Whole, IsFile
<1>5. Whole(s)'
  BY <1>3, <1>4 DEF Whole
<1>. QED
  BY <1>5 DEF Safe

LEMMA NothingPendingSafe == ASSUME NoLocals PROVE Pending' = {}
BY DEF NoLocals, Pending, ElementsOf

(* No cluster of a whole file is free. *)
LEMMA WholeNotFree ==
  ASSUME FInv, NEW s \in Slot, Safe(s), NEW c \in ElementsOf(file[s].clusters)
  PROVE  fat[c] # 0
<1>1. file[s].clusters \in Seq(Cluster)
  BY DEF FInv, TypeOK, Chain
<1>2. PICK i \in 1 .. Len(file[s].clusters) : c = file[s].clusters[i]
  BY <1>1 DEF ElementsOf
<1>3. IF i < Len(file[s].clusters) THEN fat[c] = file[s].clusters[i + 1] ELSE IsEnd(fat[c])
  BY <1>2 DEF Safe, Whole, IsFile
<1>4. CASE i < Len(file[s].clusters)
  <2>1. file[s].clusters[i + 1] \in Cluster
    BY <1>1, <1>4
  <2>. QED
    BY <1>3, <1>4, <2>1 DEF Cluster
<1>5. CASE ~(i < Len(file[s].clusters))
  BY <1>3, <1>5 DEF IsEnd, Word16
<1>. QED
  BY <1>4, <1>5

LEMMA LoopSafe ==
  ASSUME FInv, NEW s \in Slot, Safe(s), pc \in Busy \ {"scan"},
         LinkCluster \/ StoreCluster \/ StoreRest
  PROVE  Safe(s)'
<1>1. clusters[k] \in Pending
  BY LoopFacts DEF Pending, ElementsOf
<1>2. fat \in [0 .. FatLen - 1 -> FatValue] /\ data \in [Cluster -> Content]
  BY DEF FInv, TypeOK
<1>3. \A c \in Cluster : c # clusters[k] => fat'[c] = fat[c] /\ data'[c] = data[c]
  <2>1. CASE LinkCluster
    BY <1>2, <2>1 DEF LinkCluster, Cluster
  <2>2. CASE StoreCluster
    <3>1. data' = [data EXCEPT ![clusters[k]] = Torn] /\ fat' = fat
      BY <2>2 DEF StoreCluster
    <3>. QED
      BY <1>2, <3>1
  <2>3. CASE StoreRest
    <3>1. data' = [data EXCEPT ![clusters[k]] = <<request.payload, k>>] /\ fat' = fat
      BY <2>3 DEF StoreRest
    <3>. QED
      BY <1>2, <3>1
  <2>. QED
    BY <2>1, <2>2, <2>3
<1>4. UNCHANGED <<dir, file, clusters>>
  BY DEF LinkCluster, StoreCluster, StoreRest, local
<1>5. \A c \in ElementsOf(file[s].clusters) : c # clusters[k]
  BY <1>1 DEF Safe
<1>6. ElementsOf(file[s].clusters) \cap Pending' = {}
  BY <1>4 DEF Safe, Pending
<1>. QED
  BY <1>3, <1>4, <1>5, <1>6, SafeKept

LEMMA SearchSafe ==
  ASSUME FInv, NEW s \in Slot, Safe(s), ScanCluster
  PROVE  Safe(s)'
<1>1. UNCHANGED <<fat, dir, data, file>>
  BY DEF ScanCluster, disk
<1>2. \/ clusters' = clusters
      \/ clusters' = Append(clusters, cursor) /\ fat[cursor] = 0
  BY DEF ScanCluster, ClusterFree
<1>3. \A c \in Pending' : c \in Pending \/ fat[c] = 0
  <2>1. CASE clusters' = clusters
    BY <2>1 DEF Pending
  <2>2. CASE clusters' = Append(clusters, cursor) /\ fat[cursor] = 0
    <3>1. clusters \in Seq(Cluster)
      BY DEF FInv, TypeOK
    <3>2. \A i \in DOMAIN clusters' : clusters'[i] = cursor \/ (i \in DOMAIN clusters /\ clusters'[i] = clusters[i])
      BY <2>2, <3>1
    <3>. QED
      BY <2>2, <3>2 DEF Pending, ElementsOf
  <2>. QED
    BY <1>2, <2>1, <2>2
<1>4. ElementsOf(file[s].clusters) \cap Pending' = {}
  BY <1>3, WholeNotFree DEF Safe
<1>. QED
  BY <1>1, <1>4, SafeKept

LEMMA EntrySafe ==
  ASSUME FInv, NEW s \in Slot, Safe(s), CreateEntry
  PROVE  Safe(s)'
<1>1. NoLocals /\ fat' = fat /\ data' = data
  BY DEF CreateEntry
<1>2. dir \in [Slot -> Entry] /\ file \in [Slot -> Chain]
  BY DEF FInv, TypeOK
<1>3. ~SlotFree(dir[s])
  BY DEF Safe, Whole, Holds, SlotFree
<1>4. dir'[s] = dir[s] /\ file'[s] = file[s]
  BY <1>2, <1>3 DEF CreateEntry, FirstFree
<1>. QED
  BY <1>1, <1>4, NothingPendingSafe, SafeKept

LEMMA DiskKeptSafe ==
  ASSUME FInv, NEW s \in Slot, Safe(s), UNCHANGED disk, clusters' = clusters \/ NoLocals
  PROVE  Safe(s)'
<1>1. ElementsOf(file[s].clusters) \cap Pending' = {}
  BY NothingPendingSafe DEF Safe, Pending
<1>. QED
  BY <1>1, SafeKept DEF disk

LEMMA MisreadSteps == ScanMisread \/ LinkMisread \/ EntryMisread => misread'
BY Zenon DEF ScanMisread, LinkMisread, EntryMisread, ReadFails

LEMMA SafeStep ==
  ASSUME FInv, [FNext]_allVars, NEW s \in Slot, Safe(s)
  PROVE  Safe(s)' \/ misread'
<1>1. CASE ScanCluster
  BY <1>1, SearchSafe
<1>2. CASE LinkCluster \/ StoreCluster \/ StoreRest
  BY <1>2, LoopSafe DEF LinkCluster, StoreCluster, StoreRest, Busy
<1>3. CASE CreateEntry
  BY <1>3, EntrySafe
<1>4. CASE ScanFails \/ PowerFail \/ EntryUnwritten
  BY <1>4, DiskKeptSafe DEF ScanFails, PowerFail, EntryUnwritten
<1>5. CASE Boot \/ LinkUnwritten \/ StoreUnwritten \/ \E r \in Request : WriteFile(r)
  BY <1>5, DiskKeptSafe DEF Boot, LinkUnwritten, StoreUnwritten, WriteFile, disk, local
<1>6. CASE UNCHANGED allVars
  BY <1>6, DiskKeptSafe DEF allVars, vars, disk
<1>7. CASE ScanMisread \/ LinkMisread \/ EntryMisread
  BY <1>7, MisreadSteps
<1>. QED
  BY <1>1, <1>2, <1>3, <1>4, <1>5, <1>6, <1>7 DEF FNext, SoundStep, FaultyStep, KernelStep

(* A whole file that no call is writing over is spoilt by nothing but a    *)
(* read that fails unnoticed: not by lost writes, power failures or damage *)
(* done to the FAT and the directory before.                               *)
THEOREM MisreadsAlone == FSpec => SpoiltOnlyByMisread
<1>1. FInv /\ [FNext]_allVars => (\A s \in Slot : Safe(s) /\ ~Safe(s)' => misread')
  BY SafeStep
<1>. QED
  BY <1>1, FaultInvariance, PTL DEF FSpec, SpoiltOnlyByMisread

LEMMA NewFileStep ==
  ASSUME FInv, [FNext]_allVars, NEW s \in Slot, pc = "entry", dir'[s] # dir[s],
         ~misread', ~unwritten'
  PROVE  Holds(dir'[s]) => Whole(s)'
<1>1. CreateEntry /\ UNCHANGED faultVars
  <2>1. ~EntryMisread /\ ~EntryUnwritten
    BY Zenon, MisreadSteps DEF EntryUnwritten, WriteFails
  <2>2. ~UNCHANGED dir
    OBVIOUS
  <2>. QED
    BY <2>1, <2>2 DEF FNext, SoundStep, FaultyStep, KernelStep, WriteFile, ScanCluster, ScanFails,
       LinkCluster, StoreCluster, StoreRest, PowerFail, Boot, ScanMisread, LinkMisread,
       LinkUnwritten, StoreUnwritten, allVars, vars, disk
<1>2. Clean
  <2>1. Clean'
    BY Zenon DEF Clean
  <2>. QED
    BY <1>1, <2>1, FaultFacts
<1>3. /\ request \in Request /\ clusters \in Seq(Cluster)
      /\ 1 \in 1 .. Len(clusters) /\ Len(clusters) = Needed(request.size)
  BY LoopFacts DEF Busy
<1>4. \A i \in 1 .. Len(clusters) : fat[clusters[i]] = Link(i) /\ data[clusters[i]] = <<request.payload, i>>
  BY <1>2 DEF FInv, LinkedSoFar, StoredSoFar, PendingStored, Busy
<1>5. IsFile(fat, data, NewEntry, [clusters |-> clusters, payload |-> request.payload])
  <2>1. Extent(NewEntry) = Needed(request.size)
    BY <1>3, NewEntryIsFile
  <2>. QED
    BY <1>3, <1>4, <2>1 DEF IsFile, NewEntry, Link, EndOfChain, IsEnd, Word16
<1>6. /\ fat' = fat /\ data' = data
      /\ dir'[s] = NewEntry /\ file'[s] = [clusters |-> clusters, payload |-> request.payload]
  <2>1. dir \in [Slot -> Entry] /\ file \in [Slot -> Chain]
    BY DEF FInv, TypeOK
  <2>. QED
    BY <1>1, <2>1 DEF CreateEntry
<1>. QED
  BY <1>5, <1>6 DEF Whole

(* A call in which no transfer fails puts a whole file into the directory, *)
(* whatever it finds on the disk.                                          *)
THEOREM SoundCallsWriteWholeFiles == FSpec => NewFileWhole
<1>1. FInv /\ [FNext]_allVars =>
        (\A s \in Slot : pc = "entry" /\ dir'[s] # dir[s] /\ Holds(dir'[s]) =>
           Whole(s)' \/ misread' \/ unwritten')
  BY NewFileStep
<1>. QED
  BY <1>1, FaultInvariance, PTL DEF FSpec, NewFileWhole
=============================================================================
