------------------------- MODULE FileCommandsProofs -------------------------
(***************************************************************************)
(* Proofs about the shell's file commands (FileCommands) for volumes of    *)
(* every size: what the table of names holds, that every file can be read  *)
(* under its name, and that what a name reads as changes only by a write   *)
(* of that name.                                                           *)
(***************************************************************************)
EXTENDS FileCommands, Fat16Proofs, Recursion

(***************************************************************************)
(* The loop over the directory.                                            *)
(***************************************************************************)
LEMMA SeenEquation ==
  /\ SeenUpTo[0] = << >>
  /\ \A s \in 1 .. NSlots :
       SeenUpTo[s] = IF Shows(s) THEN Append(SeenUpTo[s - 1], s) ELSE SeenUpTo[s - 1]
<1>. DEFINE g == [x \in (1 .. NSlots) \X Seq(Slot) |->
                    IF Shows(x[1]) THEN Append(x[2], x[1]) ELSE x[2]]
            Round(f, s) == IF s = 0 THEN << >>
                           ELSE IF Shows(s) THEN Append(f[s - 1], s) ELSE f[s - 1]
            Table(f) == [s \in 0 .. NSlots |-> Round(f, s)]
<1>1. NSlots \in Nat /\ << >> \in Seq(Slot)
  BY SizeAssumption
<1>2. ASSUME NEW s \in 1 .. NSlots, NEW v \in Seq(Slot)
      PROVE  g[<<s, v>>] = (IF Shows(s) THEN Append(v, s) ELSE v) /\ g[<<s, v>>] \in Seq(Slot)
  <2>1. s \in Slot /\ Append(v, s) \in Seq(Slot)
    BY DEF Slot
  <2>2. g[<<s, v>>] = IF Shows(s) THEN Append(v, s) ELSE v
    OBVIOUS
  <2>. QED
    BY <2>1, <2>2
<1>3. g \in LoopBodies(NSlots, Seq(Slot))
  <2>1. \A x \in (1 .. NSlots) \X Seq(Slot) : g[x] \in Seq(Slot)
    BY <1>2
  <2>. QED
    BY <2>1 DEF LoopBodies
<1>. HIDE DEF g
<1>4. PICK f : LoopValues(f, NSlots, Seq(Slot), << >>, g)
  BY <1>1, <1>3, LoopFunction
<1>5. \A s \in 0 .. NSlots : f[s] = Round(f, s)
  <2>1. ASSUME NEW s \in 1 .. NSlots
        PROVE  f[s] = Round(f, s)
    <3>1. f[s - 1] \in Seq(Slot)
      BY <1>1, <1>4 DEF LoopValues
    <3>2. g[<<s, f[s - 1]>>] = IF Shows(s) THEN Append(f[s - 1], s) ELSE f[s - 1]
      BY <1>2, <3>1
    <3>3. f[s] = IF Shows(s) THEN Append(f[s - 1], s) ELSE f[s - 1]
      BY <1>4, <3>2 DEF LoopValues
    <3>. QED
      BY <1>1, <3>3
  <2>2. f[0] = Round(f, 0)
    BY <1>4 DEF LoopValues
  <2>3. \A s \in 0 .. NSlots : s = 0 \/ s \in 1 .. NSlots
    BY <1>1
  <2>. HIDE DEF Round
  <2>. QED
    BY <2>1, <2>2, <2>3
<1>6. f = Table(f)
  BY <1>4, <1>5 DEF LoopValues
<1>7. SeenUpTo = Table(SeenUpTo)
  BY <1>6, Zenon DEF SeenUpTo
<1>. HIDE DEF Round
<1>8. \A s \in 0 .. NSlots : SeenUpTo[s] = Round(SeenUpTo, s)
  BY <1>7
<1>9. SeenUpTo[0] = << >>
  BY <1>1, <1>8 DEF Round
<1>10. ASSUME NEW s \in 1 .. NSlots
       PROVE  SeenUpTo[s] = IF Shows(s) THEN Append(SeenUpTo[s - 1], s) ELSE SeenUpTo[s - 1]
  <2>1. s \in 0 .. NSlots /\ s # 0
    BY <1>1
  <2>. QED
    BY <1>8, <2>1 DEF Round
<1>. QED
  BY <1>9, <1>10

(* The slots found when slot s has been looked at: those that show, in     *)
(* their order in the sector.                                              *)
InOrder(q, s) ==
  /\ q \in Seq(1 .. s)
  /\ Len(q) <= s
  /\ \A i \in 1 .. Len(q) : Shows(q[i])
  /\ \A i, j \in 1 .. Len(q) : i < j => q[i] < q[j]
  /\ \A t \in 1 .. s : Shows(t) => \E i \in 1 .. Len(q) : q[i] = t

LEMMA SlotAppended ==
  ASSUME NEW s \in Nat \ {0}, NEW q, InOrder(q, s - 1), Shows(s)
  PROVE  InOrder(Append(q, s), s)
<1>. DEFINE r == Append(q, s)
<1>1. q \in Seq(1 .. s - 1) /\ Len(q) \in Nat /\ Len(q) <= s - 1
  BY DEF InOrder
<1>2. \A i \in 1 .. Len(q) : q[i] \in 1 .. s - 1
  BY <1>1
<1>3. /\ r \in Seq(1 .. s)
      /\ Len(r) = Len(q) + 1
      /\ r[Len(q) + 1] = s
      /\ \A i \in 1 .. Len(q) : r[i] = q[i]
  <2>1. q \in Seq(1 .. s) /\ s \in 1 .. s
    BY <1>1, <1>2
  <2>. QED
    BY <1>1, <2>1
<1>. HIDE DEF r
<1>4. \A i \in 1 .. Len(r) : i = Len(q) + 1 \/ i \in 1 .. Len(q)
  BY <1>1, <1>3
<1>5. \A i \in 1 .. Len(r) : Shows(r[i])
  BY <1>3, <1>4 DEF InOrder
<1>6. ASSUME NEW i \in 1 .. Len(r), NEW j \in 1 .. Len(r), i < j
      PROVE  r[i] < r[j]
  <2>1. i \in 1 .. Len(q)
    BY <1>1, <1>3, <1>6
  <2>2. CASE j \in 1 .. Len(q)
    BY <1>3, <1>6, <2>1, <2>2 DEF InOrder
  <2>3. CASE j = Len(q) + 1
    BY <1>2, <1>3, <2>1, <2>3
  <2>. QED
    BY <1>4, <2>2, <2>3
<1>7. ASSUME NEW t \in 1 .. s, Shows(t)
      PROVE  \E i \in 1 .. Len(r) : r[i] = t
  <2>1. CASE t = s
    <3>1. Len(q) + 1 \in 1 .. Len(r)
      BY <1>1, <1>3
    <3>. QED
      BY <1>3, <2>1, <3>1
  <2>2. CASE t # s
    <3>1. t \in 1 .. s - 1
      BY <2>2
    <3>2. PICK i \in 1 .. Len(q) : q[i] = t
      BY <1>7, <3>1 DEF InOrder
    <3>3. i \in 1 .. Len(r) /\ r[i] = t
      BY <1>1, <1>3, <3>2
    <3>. QED
      BY <3>3
  <2>. QED
    BY <2>1, <2>2
<1>8. Len(r) <= s
  BY <1>1, <1>3
<1>9. InOrder(r, s)
  BY <1>3, <1>5, <1>6, <1>7, <1>8 DEF InOrder
<1>. QED
  BY <1>9 DEF r

LEMMA SlotPassed ==
  ASSUME NEW s \in Nat \ {0}, NEW q, InOrder(q, s - 1), ~Shows(s)
  PROVE  InOrder(q, s)
<1>1. q \in Seq(1 .. s - 1) /\ Len(q) \in Nat /\ Len(q) <= s - 1
  BY DEF InOrder
<1>2. q \in Seq(1 .. s) /\ Len(q) <= s
  <2>1. \A i \in 1 .. Len(q) : q[i] \in 1 .. s - 1
    BY <1>1
  <2>. QED
    BY <1>1, <2>1
<1>3. ASSUME NEW t \in 1 .. s, Shows(t)
      PROVE  \E i \in 1 .. Len(q) : q[i] = t
  <2>1. t \in 1 .. s - 1
    BY <1>3
  <2>. QED
    BY <1>3, <2>1 DEF InOrder
<1>. QED
  BY <1>2, <1>3 DEF InOrder

(* When the loop has ended it has found every slot that shows, in order.   *)
LEMMA SeenInOrder == InOrder(SeenUpTo[NSlots], NSlots)
<1>. DEFINE T == {s \in 0 .. NSlots : InOrder(SeenUpTo[s], s)}
<1>0. NSlots \in Nat
  BY SizeAssumption
<1>1. 0 \in T
  <2>1. InOrder(<< >>, 0)
    BY DEF InOrder
  <2>. QED
    BY <1>0, <2>1, SeenEquation
<1>2. ASSUME NEW s \in 0 .. NSlots - 1, s \in T
      PROVE  s + 1 \in T
  <2>1. s + 1 \in Nat \ {0} /\ s + 1 \in 1 .. NSlots /\ s + 1 \in 0 .. NSlots /\ (s + 1) - 1 = s
    BY <1>0
  <2>2. InOrder(SeenUpTo[s], (s + 1) - 1)
    BY <1>2, <2>1
  <2>3. SeenUpTo[s + 1] = IF Shows(s + 1) THEN Append(SeenUpTo[s], s + 1) ELSE SeenUpTo[s]
    BY <2>1, SeenEquation
  <2>4. InOrder(SeenUpTo[s + 1], s + 1)
    BY <2>1, <2>2, <2>3, SlotAppended, SlotPassed
  <2>. QED
    BY <2>1, <2>4
<1>. HIDE DEF T
<1>3. \A s \in 0 .. NSlots : s \in T
  BY <1>0, <1>1, <1>2, RoundInduction
<1>4. NSlots \in T
  BY <1>0, <1>3
<1>. QED
  BY <1>4 DEF T

(***************************************************************************)
(* Read_File's walk along the FAT.                                         *)
(***************************************************************************)
(* One round: stay at an end once it is reached.                           *)
After(c) == IF IsEnd(c) THEN c ELSE fat[c]

(* w is the sequence of the clusters that the rounds of the loop visit. *)
Visits(w, first, size) ==
  w = [i \in 1 .. Needed(size) |-> IF i = 1 THEN first ELSE After(w[i - 1])]
TextAlong(w, size) == [i \in {j \in 1 .. Needed(size) : ~IsEnd(w[j])} |-> Cell(w[i])]

(* There is only one such sequence, and Contents is the text along it.     *)
LEMMA Walk ==
  ASSUME NEW first, NEW size, NEW w, Needed(size) \in Nat, Visits(w, first, size)
  PROVE  Contents(first, size) = TextAlong(w, size)
<1>. DEFINE n == Needed(size)
            Rounds(f) == [i \in 1 .. n |->
                            IF i = 1 THEN first
                            ELSE IF IsEnd(f[i - 1]) THEN f[i - 1] ELSE fat[f[i - 1]]]
            cluster[i \in 1 .. n] ==
              IF i = 1 THEN first
              ELSE IF IsEnd(cluster[i - 1]) THEN cluster[i - 1] ELSE fat[cluster[i - 1]]
<1>1. Contents(first, size) = [i \in {j \in 1 .. n : ~IsEnd(cluster[j])} |-> Cell(cluster[i])]
  BY Zenon DEF Contents
<1>2. w = Rounds(w)
  BY DEF After, Visits
<1>. HIDE DEF n
<1>3. cluster = Rounds(cluster)
  BY <1>2, Zenon
<1>. HIDE DEF cluster
<1>4. /\ n >= 1 => cluster[1] = first /\ w[1] = first
      /\ \A i \in 1 .. n : i > 1 => cluster[i] = After(cluster[i - 1]) /\ w[i] = After(w[i - 1])
  <2>1. n \in Nat
    BY DEF n
  <2>2. ASSUME NEW f, f = Rounds(f)
        PROVE  /\ n >= 1 => f[1] = first
               /\ \A i \in 1 .. n : i > 1 => f[i] = After(f[i - 1])
    BY <2>1, <2>2 DEF After
  <2>. QED
    BY <1>2, <1>3, <2>2
<1>5. \A i \in 1 .. n : cluster[i] = w[i]
  <2>. DEFINE T == {i \in 0 .. n : i = 0 \/ cluster[i] = w[i]}
  <2>0. n \in Nat
    BY DEF n
  <2>1. 0 \in T
    BY <2>0
  <2>2. ASSUME NEW i \in 0 .. n - 1, i \in T
        PROVE  i + 1 \in T
    <3>1. CASE i = 0
      BY <1>4, <2>0, <3>1
    <3>2. CASE i # 0
      <4>1. i + 1 \in 1 .. n /\ i + 1 > 1 /\ (i + 1) - 1 = i /\ i + 1 \in 0 .. n
        BY <2>0, <3>2
      <4>2. cluster[i + 1] = After(cluster[i]) /\ w[i + 1] = After(w[i])
        BY <1>4, <4>1
      <4>3. cluster[i] = w[i]
        BY <2>2, <3>2
      <4>. QED
        BY <4>1, <4>2, <4>3
    <3>. QED
      BY <3>1, <3>2
  <2>. HIDE DEF T
  <2>3. \A i \in 0 .. n : i \in T
    BY <2>0, <2>1, <2>2, RoundInduction
  <2>. QED
    BY <2>0, <2>3 DEF T
<1>6. {j \in 1 .. n : ~IsEnd(cluster[j])} = {j \in 1 .. n : ~IsEnd(w[j])}
  BY <1>5
<1>7. \A i \in {j \in 1 .. n : ~IsEnd(w[j])} : Cell(cluster[i]) = Cell(w[i])
  BY <1>5
<1>. QED
  BY <1>1, <1>6, <1>7 DEF n, TextAlong

LEMMA NoEnd == \A c \in Cluster \cup {0} : ~IsEnd(c)
<1>1. Word16 \in Int /\ Word16 > 8
  BY DEF Word16
<1>. QED
  BY <1>1, SizeAssumption DEF IsEnd, Cluster

(* A whole file is read as it was written. *)
LEMMA ContentsOfFile ==
  ASSUME IInv, NEW s \in Slot, HoldsFile(dir[s])
  PROVE  Contents(dir[s].first, dir[s].size) = WholeContents(s)
<1>. DEFINE c == file[s].clusters
            n == Needed(dir[s].size)
            first == dir[s].first
<1>1. /\ c \in Seq(Cluster) /\ Len(c) = n /\ n \in Nat
      /\ c # << >> => first = c[1]
      /\ \A i \in 1 .. n : i < n => fat[c[i]] = c[i + 1]
      /\ \A i \in 1 .. n : data[c[i]] = <<file[s].payload, i>>
  <2>1. c \in Seq(Cluster) /\ IsFile(fat, data, dir[s], file[s])
    BY OwnedClusters DEF HoldsFile
  <2>2. Len(c) = n /\ n \in Nat
    BY <2>1 DEF IsFile, Extent, HoldsFile
  <2>3. c # << >> => first = c[1]
    BY <2>1 DEF IsFile
  <2>4. ASSUME NEW i \in 1 .. n
        PROVE  (i < n => fat[c[i]] = c[i + 1]) /\ data[c[i]] = <<file[s].payload, i>>
    BY <2>1, <2>2 DEF IsFile
  <2>. HIDE DEF c, n
  <2>. QED
    BY <2>1, <2>2, <2>3, <2>4
<1>. HIDE DEF c, n, first
<1>2. \A i \in 1 .. n : c[i] \in Cluster /\ ~IsEnd(c[i]) /\ Cell(c[i]) = <<file[s].payload, i>>
  <2>1. \A i \in 1 .. n : c[i] \in Cluster
    BY <1>1
  <2>. QED
    BY <1>1, <2>1, NoEnd DEF Cell
<1>3. c = [i \in 1 .. n |-> IF i = 1 THEN first ELSE After(c[i - 1])]
  <2>1. ASSUME NEW i \in 1 .. n
        PROVE  c[i] = IF i = 1 THEN first ELSE After(c[i - 1])
    <3>1. CASE i = 1
      BY <1>1, <3>1
    <3>2. CASE i # 1
      <4>1. i - 1 \in 1 .. n /\ i - 1 < n /\ (i - 1) + 1 = i
        BY <1>1, <3>2
      <4>2. fat[c[i - 1]] = c[i] /\ ~IsEnd(c[i - 1])
        BY <1>1, <1>2, <4>1
      <4>. QED
        BY <3>2, <4>2 DEF After
    <3>. QED
      BY <3>1, <3>2
  <2>2. c = [i \in 1 .. n |-> c[i]]
    BY <1>1
  <2>. QED
    BY <2>1, <2>2
<1>4. Contents(first, dir[s].size) = TextAlong(c, dir[s].size)
  BY <1>1, <1>3, Walk DEF n, Visits
<1>5. {j \in 1 .. n : ~IsEnd(c[j])} = 1 .. n
  BY <1>2
<1>. QED
  BY <1>2, <1>4, <1>5 DEF WholeContents, TextAlong, n, first

(* What a long name's entry is read as: the place cluster 0 would have,    *)
(* after which the media byte in the FAT's first entry ends the walk.      *)
Elsewhere == [i \in {1} |-> Torn]

LEMMA ContentsOfLongName ==
  ASSUME IsEnd(fat[0]), NEW s \in Slot, dir[s].size \in Nat, LongName(dir[s])
  PROVE  Contents(dir[s].first, dir[s].size) = Elsewhere
<1>. DEFINE n == Needed(dir[s].size)
            w == [i \in 1 .. n |-> IF i = 1 THEN 0 ELSE fat[0]]
<1>1. n \in Nat \ {0} /\ dir[s].first = 0
  BY NeededPositive DEF LongName
<1>2. ~IsEnd(0)
  BY NoEnd
<1>. HIDE DEF n
<1>3. w = [i \in 1 .. n |-> IF i = 1 THEN 0 ELSE After(w[i - 1])]
  <2>1. ASSUME NEW i \in 1 .. n
        PROVE  w[i] = IF i = 1 THEN 0 ELSE After(w[i - 1])
    <3>1. CASE i = 1
      BY <3>1
    <3>2. CASE i # 1
      <4>1. i - 1 \in 1 .. n
        BY <1>1, <3>2
      <4>2. w[i - 1] = 0 \/ w[i - 1] = fat[0]
        BY <4>1
      <4>3. After(w[i - 1]) = fat[0]
        BY <1>2, <4>2 DEF After
      <4>. QED
        BY <3>2, <4>3
    <3>. QED
      BY <3>1, <3>2
  <2>. QED
    BY <2>1
<1>4. /\ w[1] = 0
      /\ \A i \in 1 .. n : i # 1 => IsEnd(w[i])
  BY <1>1
<1>. HIDE DEF w
<1>5. Contents(0, dir[s].size) = TextAlong(w, dir[s].size)
  BY <1>1, <1>3, Walk DEF n, Visits
<1>6. {j \in 1 .. n : ~IsEnd(w[j])} = {1}
  BY <1>1, <1>2, <1>4
<1>7. Cell(0) = Torn
  BY DEF Cell, Cluster
<1>. QED
  BY <1>1, <1>4, <1>5, <1>6, <1>7 DEF Elsewhere, TextAlong, n

(* The text that an entry is read as. *)
TextOf(s) == IF LongName(dir[s]) THEN Elsewhere ELSE WholeContents(s)

LEMMA ContentsOfEntry ==
  ASSUME IInv, IsEnd(fat[0]), NEW s \in Slot, Holds(dir[s])
  PROVE  Contents(dir[s].first, dir[s].size) = TextOf(s)
<1>1. dir[s].size \in Nat
  BY DEF IInv, TypeOK, Entry
<1>. QED
  BY <1>1, ContentsOfFile, ContentsOfLongName DEF TextOf, HoldsFile

(***************************************************************************)
(* The table of names.                                                     *)
(***************************************************************************)
Line == [name : {ListedName(n) : n \in DirName}, first : FatValue, size : Nat]
Listed(e) == [name |-> ListedName(e.name), first |-> e.first, size |-> e.size]

LEMMA RefreshedValue ==
  ASSUME dir \in [Slot -> Entry]
  PROVE  \A i \in Slot :
           Refreshed[i] = IF i <= Len(SeenUpTo[NSlots])
                          THEN Listed(dir[SeenUpTo[NSlots][i]]) ELSE filenames[i]
<1>. DEFINE q == SeenUpTo[NSlots]
<1>1. q \in Seq(Slot) /\ Len(q) \in Nat
  BY SeenInOrder DEF InOrder, Slot
<1>. HIDE DEF q
<1>2. Seen = [i \in 1 .. Len(q) |-> dir[q[i]]]
  BY DEF Seen, q
<1>3. Len(Seen) = Len(q) /\ \A i \in 1 .. Len(q) : Seen[i] = dir[q[i]]
  BY <1>1, <1>2
<1>. SUFFICES ASSUME NEW i \in Slot
              PROVE  Refreshed[i] = IF i <= Len(q) THEN Listed(dir[q[i]]) ELSE filenames[i]
  BY DEF q
<1>4. Refreshed[i] = IF i <= Len(q) THEN [Seen[i] EXCEPT !.name = ListedName(@)] ELSE filenames[i]
  BY <1>3 DEF Refreshed
<1>5. ASSUME i <= Len(q)
      PROVE  [Seen[i] EXCEPT !.name = ListedName(@)] = Listed(dir[q[i]])
  <2>1. i \in 1 .. Len(q)
    BY <1>1, <1>5 DEF Slot
  <2>2. q[i] \in Slot
    BY <1>1, <2>1
  <2>3. dir[q[i]] \in Entry /\ Seen[i] = dir[q[i]]
    BY <1>3, <2>1, <2>2
  <2>. QED
    BY <2>3 DEF Entry, Listed
<1>. QED
  BY <1>4, <1>5

(* What the table says after a refresh is the line of an entry that shows, *)
(* or was there before.                                                    *)
LEMMA RefreshedFrom ==
  ASSUME dir \in [Slot -> Entry]
  PROVE  \A i \in Slot :
           \/ \E s \in Slot : Holds(dir[s]) /\ Refreshed[i] = Listed(dir[s])
           \/ Refreshed[i] = filenames[i]
<1>. DEFINE q == SeenUpTo[NSlots]
<1>1. q \in Seq(Slot) /\ \A i \in 1 .. Len(q) : Shows(q[i])
  BY SeenInOrder DEF InOrder, Slot
<1>. TAKE i \in Slot
<1>2. CASE i <= Len(q)
  <2>1. i \in 1 .. Len(q)
    BY <1>1, <1>2 DEF Slot
  <2>2. q[i] \in Slot /\ Holds(dir[q[i]])
    BY <1>1, <2>1 DEF Shows
  <2>. QED
    BY <1>2, <2>2, RefreshedValue
<1>3. CASE ~(i <= Len(q))
  BY <1>3, RefreshedValue
<1>. QED
  BY <1>2, <1>3

LEMMA RefreshedType ==
  ASSUME dir \in [Slot -> Entry], filenames \in [Slot -> Line]
  PROVE  Refreshed \in [Slot -> Line]
<1>1. Refreshed = [i \in Slot |-> Refreshed[i]]
  BY DEF Refreshed
<1>2. ASSUME NEW s \in Slot
      PROVE  Listed(dir[s]) \in Line
  <2>1. dir[s] \in Entry
    OBVIOUS
  <2>. QED
    BY <2>1 DEF Listed, Line, Entry
<1>3. ASSUME NEW i \in Slot
      PROVE  Refreshed[i] \in Line
  BY <1>2, RefreshedFrom
<1>. QED
  BY <1>1, <1>3

(* A file stays in its slot as it is, whatever step is taken.              *)
LEMMA FilesStay ==
  ASSUME IInv, [Next]_vars
  PROVE  \A s \in Slot : Holds(dir[s]) => dir'[s] = dir[s] /\ file'[s] = file[s]
<1>1. CASE UNCHANGED <<dir, file>>
  BY <1>1
<1>2. ASSUME NEW t \in Slot, FirstFree(t),
             dir' = [dir EXCEPT ![t] = NewEntry],
             file' = [file EXCEPT ![t] = [clusters |-> clusters, payload |-> request.payload]]
      PROVE  \A s \in Slot : Holds(dir[s]) => dir'[s] = dir[s] /\ file'[s] = file[s]
  <2>1. ~Holds(dir[t])
    BY <1>2 DEF FirstFree, SlotFree, Holds
  <2>2. \A s \in Slot : s # t => dir'[s] = dir[s] /\ file'[s] = file[s]
    BY <1>2 DEF IInv, TypeOK
  <2>. QED
    BY <2>1, <2>2
<1>. QED
  BY <1>1, <1>2 DEF Next, KernelStep, WriteFile, ScanCluster, ScanFails, LinkCluster,
     StoreCluster, StoreRest, CreateEntry, PowerFail, Boot, vars, disk

(***************************************************************************)
(* The invariant of the commands.                                          *)
(***************************************************************************)
(* The FAT's first entry is the media byte, which reads as an end. *)
MediaByte == IsEnd(fat[0])

CInv == IInv /\ CTypeOK /\ TableNamesFiles /\ MediaByte

LEMMA TableLines ==
  /\ TableNamesFiles <=>
       \A i \in Slot : filenames[i].name # << >> =>
         \E s \in Slot : Holds(dir[s]) /\ filenames[i] = Listed(dir[s])
  /\ CTypeOK <=>
       /\ TypeOK
       /\ filenames \in [Slot -> Line]
       /\ reply.said \in {"nothing", "Error: File not found", "Not enough space", "file", "names"}
BY DEF TableNamesFiles, CTypeOK, Listed, Line

(* The table as the kernel is loaded: no names.                            *)
LEMMA ZeroedTable ==
  Zeroed \in [Slot -> Line] /\ \A i \in Slot : Zeroed[i].name = << >>
<1>1. ListedName(EndMark) = << >>
  <2>. DEFINE Stops(n) == (\A i \in 1 .. n : << >>[i] # Blank) /\ (n < 0 => << >>[n + 1] = Blank)
              m == CHOOSE n \in 0 .. Len(<< >>) :
                     /\ \A i \in 1 .. n : << >>[i] # Blank
                     /\ n < Len(<< >>) => << >>[n + 1] = Blank
  <2>1. Len(<< >>) = 0
    OBVIOUS
  <2>2. m \in 0 .. 0
    <3>1. \E n \in 0 .. Len(<< >>) :
            /\ \A i \in 1 .. n : << >>[i] # Blank
            /\ n < Len(<< >>) => << >>[n + 1] = Blank
      BY <2>1
    <3>2. m \in 0 .. Len(<< >>)
      BY <3>1, Zenon
    <3>. QED
      BY <2>1, <3>2
  <2>3. ListedName(EndMark) = SubSeq(<< >>, 1, m)
    BY DEF ListedName, EndMark, Before
  <2>. HIDE DEF m
  <2>. QED
    BY <2>2, <2>3
<1>2. EndMark \in DirName
  BY DEF DirName
<1>3. 0 \in FatValue
  BY DEF FatValue, Word16
<1>4. [name |-> << >>, first |-> 0, size |-> 0] \in Line
  BY <1>1, <1>2, <1>3 DEF Line
<1>. QED
  BY <1>4 DEF Zeroed

(* The commands do nothing to the volume but what Fat16 says.              *)
LEMMA CommandsOnVolume == [CNext]_cvars => [Next]_vars
BY DEF CNext, Read, Ls, Write, Writing, SwitchOff, SwitchOn, Next, cvars, vars

(* So what is proved of every behaviour of the volume holds under the      *)
(* shell: files stay whole, share no cluster, appear in one step.          *)
THEOREM ShellOnVolume == CSpec => Spec
<1>1. CInit => Init
  BY DEF CInit
<1>. QED
  BY <1>1, CommandsOnVolume, PTL DEF CSpec, Spec

LEMMA CInitInvariant == CInit => CInv
<1>. SUFFICES ASSUME CInit PROVE CInv
  OBVIOUS
<1>1. IInv
  BY InitInvariant DEF CInit
<1>2. filenames \in [Slot -> Line] /\ \A i \in Slot : filenames[i].name = << >>
  BY ZeroedTable DEF CInit
<1>3. CTypeOK
  BY <1>1, <1>2, TableLines DEF IInv, CInit, Silent
<1>4. TableNamesFiles
  BY <1>2, TableLines
<1>5. MediaByte
  BY DiskAssumption DEF CInit, Init, WellFormed, MediaByte
<1>. QED
  BY <1>1, <1>3, <1>4, <1>5 DEF CInv

(* No step writes the FAT's first entry.                                   *)
LEMMA MediaByteStays ==
  ASSUME IInv, [Next]_vars
  PROVE  fat'[0] = fat[0]
<1>1. CASE LinkCluster
  <2>1. clusters[k] \in Cluster /\ fat' = [fat EXCEPT ![clusters[k]] = Link(k)]
    BY <1>1, WritingFacts DEF LinkCluster, Busy
  <2>2. clusters[k] # 0
    BY <2>1 DEF Cluster
  <2>3. DOMAIN fat = 0 .. FatLen - 1 /\ 0 \in 0 .. FatLen - 1
    BY SizeAssumption DEF IInv, TypeOK
  <2>. QED
    BY <2>1, <2>2, <2>3
<1>2. CASE UNCHANGED fat
  BY <1>2
<1>. QED
  BY <1>1, <1>2 DEF Next, KernelStep, WriteFile, ScanCluster, ScanFails, StoreCluster,
     StoreRest, CreateEntry, PowerFail, Boot, vars, disk

(* A step that refreshes the table, forgets it or leaves it alone.         *)
LEMMA TableKept ==
  ASSUME CInv, [Next]_vars, filenames' \in {filenames, Refreshed, Zeroed}
  PROVE  TableNamesFiles' /\ filenames' \in [Slot -> Line]
<1>1. dir \in [Slot -> Entry] /\ filenames \in [Slot -> Line]
  BY TableLines DEF CInv, IInv, TypeOK
<1>2. filenames' \in [Slot -> Line]
  BY <1>1, RefreshedType, ZeroedTable
<1>3. ASSUME NEW i \in Slot, filenames'[i].name # << >>
      PROVE  \E s \in Slot : Holds(dir[s]) /\ filenames'[i] = Listed(dir[s])
  <2>1. CASE filenames' = filenames
    BY <1>3, <2>1, TableLines DEF CInv
  <2>2. CASE filenames' = Refreshed
    BY <1>1, <1>3, <2>2, RefreshedFrom, TableLines DEF CInv
  <2>3. CASE filenames' = Zeroed
    BY <1>3, <2>3, ZeroedTable
  <2>. QED
    BY <2>1, <2>2, <2>3
<1>4. ASSUME NEW i \in Slot, filenames'[i].name # << >>
      PROVE  \E s \in Slot : Holds(dir'[s]) /\ filenames'[i] = Listed(dir'[s])
  <2>1. PICK s \in Slot : Holds(dir[s]) /\ filenames'[i] = Listed(dir[s])
    BY <1>3, <1>4
  <2>2. dir'[s] = dir[s]
    BY <2>1, FilesStay DEF CInv
  <2>. QED
    BY <2>1, <2>2
<1>. QED
  BY <1>2, <1>4 DEF TableNamesFiles, Listed

LEMMA CNextInvariant == CInv /\ [CNext]_cvars => CInv'
<1>. SUFFICES ASSUME CInv, [CNext]_cvars PROVE CInv'
  OBVIOUS
<1>1. [Next]_vars
  BY CommandsOnVolume
<1>2. IInv'
  BY <1>1, NextInvariant DEF CInv
<1>3. filenames' \in {filenames, Refreshed, Zeroed}
  BY DEF CNext, Read, Ls, Write, Writing, SwitchOff, SwitchOn, cvars
<1>4. reply'.said \in {"nothing", "Error: File not found", "Not enough space", "file", "names"}
  <2>1. reply.said \in {"nothing", "Error: File not found", "Not enough space", "file", "names"}
    BY TableLines DEF CInv
  <2>2. CASE reply' = reply
    BY <2>1, <2>2
  <2>3. ASSUME NEW n, Read(n) PROVE reply'.said \in {"Error: File not found", "file"}
    BY <2>3 DEF Read, Answer, NotFound, Printed
  <2>4. CASE Ls
    BY <2>4 DEF Ls, Names
  <2>5. CASE reply' \in {Silent, NoSpace}
    <3>1. Silent.said = "nothing" /\ NoSpace.said = "Not enough space"
      BY DEF Silent, NoSpace
    <3>2. reply'.said \in {"nothing", "Not enough space"}
      BY <2>5, <3>1, Zenon
    <3>. QED
      BY <3>2
  <2>6. \/ reply' = reply \/ reply' \in {Silent, NoSpace} \/ Ls \/ \E n \in Askable : Read(n)
    BY DEF CNext, Write, Writing, SwitchOff, SwitchOn, cvars
  <2>. QED
    BY <2>2, <2>3, <2>4, <2>5, <2>6
<1>5. TableNamesFiles' /\ filenames' \in [Slot -> Line]
  BY <1>1, <1>3, TableKept
<1>6. MediaByte'
  BY <1>1, MediaByteStays DEF CInv, MediaByte
<1>. QED
  BY <1>2, <1>4, <1>5, <1>6 DEF CInv, IInv, CTypeOK, Line

(* The invariant of the volume and the table holds at every prompt and in  *)
(* every call.                                                             *)
THEOREM CommandInvariance == CSpec => []CInv
<1>. QED
  BY CInitInvariant, CNextInvariant, PTL DEF CSpec

(* The types of the table and of the replies.                              *)
THEOREM CommandTypes == CSpec => []CTypeOK
<1>1. CInv => CTypeOK
  BY DEF CInv
<1>. QED
  BY <1>1, CommandInvariance, PTL

(* The table may be out of date but never names what is not on the disk.   *)
THEOREM TableNeverWrong == CSpec => []TableNamesFiles
<1>1. CInv => TableNamesFiles
  BY DEF CInv
<1>. QED
  BY <1>1, CommandInvariance, PTL

(***************************************************************************)
(* What a name reads as.                                                   *)
(***************************************************************************)
(* The first slot whose file is listed under n.                            *)
FirstNamed(s, n) ==
  /\ Holds(dir[s]) /\ ListedName(dir[s].name) = n
  /\ \A t \in 1 .. s - 1 : Holds(dir[t]) => ListedName(dir[t].name) # n

LEMMA FirstNamedExists ==
  ASSUME NEW n, NEW s \in Slot, Holds(dir[s]), ListedName(dir[s].name) = n
  PROVE  \E t \in Slot : FirstNamed(t, n)
<1>. DEFINE T == {t \in Slot : Holds(dir[t]) /\ ListedName(dir[t].name) = n}
<1>1. T \subseteq Nat /\ T # {}
  BY DEF Slot
<1>. HIDE DEF T
<1>2. PICK m \in T : \A t \in T : m <= t
  BY <1>1, LeastNumber
<1>. USE DEF T
<1>3. m \in Slot /\ Holds(dir[m]) /\ ListedName(dir[m].name) = n
  BY <1>2
<1>4. ASSUME NEW t \in 1 .. m - 1, Holds(dir[t])
      PROVE  ListedName(dir[t].name) # n
  <2>1. t \in Slot /\ ~(m <= t)
    BY <1>3, SizeAssumption DEF Slot
  <2>. QED
    BY <1>2, <1>4, <2>1
<1>. QED
  BY <1>3, <1>4 DEF FirstNamed

(* The refreshed table has the line of the first file listed under n in    *)
(* front of all others of that name, those left over from earlier included. *)
LEMMA FirstLine ==
  ASSUME IInv, NEW n, NEW s \in Slot, FirstNamed(s, n), Shows(s)
  PROVE  \E i \in Slot :
           /\ FirstMatch(Refreshed, n) = i
           /\ Refreshed[i] = Listed(dir[s])
<1>. DEFINE q == SeenUpTo[NSlots]
<1>0. dir \in [Slot -> Entry] /\ NSlots \in Nat
  BY SizeAssumption DEF IInv, TypeOK
<1>1. InOrder(q, NSlots)
  BY SeenInOrder
<1>. HIDE DEF q
<1>2. q \in Seq(1 .. NSlots) /\ Len(q) \in Nat /\ Len(q) <= NSlots
  BY <1>0, <1>1 DEF InOrder
<1>3. Shows(s) /\ s \in 1 .. NSlots
  BY DEF Slot
<1>4. PICK i \in 1 .. Len(q) : q[i] = s
  BY <1>1, <1>3 DEF InOrder
<1>5. i \in Slot
  BY <1>0, <1>2 DEF Slot
<1>6. \A j \in 1 .. Len(q) : j \in Slot /\ Refreshed[j] = Listed(dir[q[j]])
  BY <1>0, <1>2, RefreshedValue DEF Slot, q
<1>7. Refreshed[i] = Listed(dir[s]) /\ Refreshed[i].name = n
  BY <1>4, <1>6 DEF Listed, FirstNamed
<1>8. ASSUME NEW j \in 1 .. i - 1
      PROVE  Refreshed[j].name # n
  <2>1. j \in 1 .. Len(q) /\ j < i
    BY <1>2, <1>4
  <2>2. q[j] < q[i] /\ Shows(q[j]) /\ q[j] \in 1 .. NSlots
    <3>1. q[j] \in 1 .. NSlots
      BY <1>2, <2>1, ElementOfSeq
    <3>2. q[j] < q[i] /\ Shows(q[j])
      BY <1>1, <1>4, <2>1 DEF InOrder
    <3>. QED
      BY <3>1, <3>2
  <2>3. q[j] \in 1 .. s - 1 /\ Holds(dir[q[j]])
    BY <1>0, <1>3, <1>4, <2>2 DEF Shows
  <2>4. ListedName(dir[q[j]].name) # n
    BY <2>3 DEF FirstNamed
  <2>5. Refreshed[j] = Listed(dir[q[j]])
    BY <1>6, <2>1
  <2>. QED
    BY <2>4, <2>5 DEF Listed
<1>. DEFINE First(j) == Refreshed[j].name = n /\ \A l \in 1 .. j - 1 : Refreshed[l].name # n
<1>9. First(i)
  BY <1>7, <1>8
<1>10. \A j \in Slot : First(j) => j = i
  <2>. SUFFICES ASSUME NEW j \in Slot, First(j), j # i PROVE FALSE
    OBVIOUS
  <2>1. j \in 1 .. i - 1 \/ i \in 1 .. j - 1
    BY <1>0, <1>5 DEF Slot
  <2>. QED
    BY <1>9, <2>1
<1>11. FirstMatch(Refreshed, n) = CHOOSE j \in Slot : First(j)
  BY Zenon DEF FirstMatch
<1>. HIDE DEF First
<1>12. FirstMatch(Refreshed, n) = i
  BY <1>5, <1>9, <1>10, <1>11
<1>. QED
  BY <1>5, <1>7, <1>12

(* A name some file is listed under reads as the first such file.          *)
LEMMA KnownName ==
  ASSUME CInv, NEW n, NEW s \in Slot, FirstNamed(s, n), Shows(s)
  PROVE  AnswerNow(n) = Printed(TextOf(s), RunsOn(dir[s].size))
<1>1. PICK i \in Slot : FirstMatch(Refreshed, n) = i /\ Refreshed[i] = Listed(dir[s])
  BY FirstLine DEF CInv
<1>2. Refreshed[i].name = n /\ Refreshed[i].first = dir[s].first /\ Refreshed[i].size = dir[s].size
  BY <1>1 DEF Listed, FirstNamed
<1>3. Answer(Refreshed, n)
        = Printed(Contents(Refreshed[i].first, Refreshed[i].size), RunsOn(Refreshed[i].size))
  BY <1>1, <1>2, Zenon DEF Answer
<1>4. Contents(dir[s].first, dir[s].size) = TextOf(s)
  BY ContentsOfEntry DEF FirstNamed, CInv, MediaByte
<1>. QED
  BY <1>2, <1>3, <1>4 DEF AnswerNow

(* A name no file is listed under is not found, whatever the table holds.  *)
LEMMA UnknownName ==
  ASSUME CInv, NEW n, n # << >>,
         \A s \in Slot : Holds(dir[s]) => ListedName(dir[s].name) # n
  PROVE  AnswerNow(n) = NotFound
<1>1. dir \in [Slot -> Entry]
  BY DEF CInv, IInv, TypeOK
<1>2. ASSUME NEW i \in Slot, Refreshed[i].name = n
      PROVE  FALSE
  <2>1. PICK s \in Slot : Holds(dir[s]) /\ Refreshed[i] = Listed(dir[s])
    BY <1>1, <1>2, RefreshedFrom, TableLines DEF CInv
  <2>. QED
    BY <1>2, <2>1 DEF Listed
<1>. QED
  BY <1>2, Zenon DEF AnswerNow, Answer

(* Every name reads as the first entry that the loops show under it: all   *)
(* of them, the entries of long names included.  The table is a parameter  *)
(* so that the next state can be spoken of.                                *)
FirstNamesAnswered ==
  \A n, table : \A s \in Slot :
    FirstNamed(s, n) /\ Shows(s) /\ table = Refreshed
      => Answer(table, n) = Printed(TextOf(s), RunsOn(dir[s].size))

LEMMA NamesReadable == CInv => FirstNamesAnswered /\ EveryFirstNameReadable
<1>. SUFFICES ASSUME CInv PROVE FirstNamesAnswered /\ EveryFirstNameReadable
  OBVIOUS
<1>1. FirstNamesAnswered
  BY KnownName DEF FirstNamesAnswered, AnswerNow
<1>2. ASSUME NEW s \in Slot, Shows(s), ~LongName(dir[s]),
             \A t \in 1 .. s - 1 :
               Holds(dir[t]) => ListedName(dir[t].name) # ListedName(dir[s].name)
      PROVE  AnswerNow(ListedName(dir[s].name)) = Printed(WholeContents(s), RunsOn(dir[s].size))
  <2>1. FirstNamed(s, ListedName(dir[s].name))
    BY <1>2 DEF FirstNamed, Shows
  <2>. QED
    BY <1>2, <2>1, KnownName DEF TextOf
<1>. QED
  BY <1>1, <1>2 DEF EveryFirstNameReadable

LEMMA CSpecInvariants == CSpec => [](CInv /\ FirstNamesAnswered /\ EveryFirstNameReadable)
<1>. QED
  BY NamesReadable, CommandInvariance, PTL

(* Every file the directory loops come to can be read whole under the name *)
(* it is listed under, through a table left over from any earlier commands *)
(* (the lines of files that an empty name now hides included), if no file  *)
(* in front has the same name.                                             *)
THEOREM FilesReadable == CSpec => []EveryFirstNameReadable
<1>. QED
  BY CSpecInvariants, PTL

(* What an entry that is new in the directory is.                          *)
LEMMA NewEntries ==
  ASSUME IInv, [Next]_vars, NEW s \in Slot, dir'[s] # dir[s]
  PROVE  pc = "entry" /\ dir'[s].name = Stem(request.name)
<1>1. ASSUME NEW t \in Slot, dir' = [dir EXCEPT ![t] = NewEntry]
      PROVE  dir'[s] = NewEntry
  BY <1>1 DEF IInv, TypeOK
<1>. QED
  BY <1>1 DEF Next, KernelStep, WriteFile, ScanCluster, ScanFails, LinkCluster,
     StoreCluster, StoreRest, CreateEntry, PowerFail, Boot, vars, disk, NewEntry

LEMMA StableStep ==
  ASSUME CInv, NothingBehindEndMark, NothingBehindEndMark', FirstNamesAnswered',
         [CNext]_cvars, NEW n \in Askable, NEW table, table = Refreshed'
  PROVE  \/ pc = "entry" /\ ListedName(Stem(request.name)) = n
         \/ AnswerNow(n) \in {NotFound, Answer(table, n)'}
<1>1. n # << >>
  BY DEF Askable
<1>2. IInv /\ [Next]_vars
  BY CommandsOnVolume DEF CInv
<1>3. CASE \A s \in Slot : Holds(dir[s]) => ListedName(dir[s].name) # n
  BY <1>1, <1>3, UnknownName
<1>4. ASSUME NEW t \in Slot, Holds(dir[t]), ListedName(dir[t].name) = n
      PROVE  \/ Answer(table, n)' = AnswerNow(n)
             \/ pc = "entry" /\ ListedName(Stem(request.name)) = n
  <2>1. PICK s \in Slot : FirstNamed(s, n)
    BY <1>4, FirstNamedExists
  <2>2. Holds(dir[s]) /\ ListedName(dir[s].name) = n
    BY <2>1 DEF FirstNamed
  <2>3. \A r \in 1 .. s - 1 : r \in Slot /\ r < s
    BY SizeAssumption DEF Slot
  <2>4. AnswerNow(n) = Printed(TextOf(s), RunsOn(dir[s].size))
    <3>1. Shows(s)
      BY <2>2, <2>3 DEF Shows, NothingBehindEndMark
    <3>. QED
      BY <2>1, <3>1, KnownName
  <2>5. dir'[s] = dir[s] /\ file'[s] = file[s]
    BY <1>2, <2>2, FilesStay
  <2>6. TextOf(s)' = TextOf(s)
    BY <2>5 DEF TextOf, WholeContents
  <2>7. CASE \A r \in 1 .. s - 1 : Holds(dir'[r]) => ListedName(dir'[r].name) # n
    <3>1. Holds(dir'[s]) /\ ListedName(dir'[s].name) = n
      BY <2>2, <2>5
    <3>2. FirstNamed(s, n)'
      BY <2>7, <3>1 DEF FirstNamed
    <3>3. Shows(s)'
      BY <2>3, <3>1 DEF Shows, NothingBehindEndMark
    <3>4. Answer(table, n)' = Printed(TextOf(s), RunsOn(dir[s].size))'
      BY <3>2, <3>3 DEF FirstNamesAnswered
    <3>. QED
      BY <2>4, <2>5, <2>6, <3>4
  <2>8. ASSUME NEW r \in 1 .. s - 1, Holds(dir'[r]), ListedName(dir'[r].name) = n
        PROVE  pc = "entry" /\ ListedName(Stem(request.name)) = n
    <3>1. dir'[r] # dir[r]
      BY <2>1, <2>8 DEF FirstNamed
    <3>. QED
      BY <1>2, <2>3, <2>8, <3>1, NewEntries
  <2>. QED
    BY <2>7, <2>8
<1>. QED
  BY <1>3, <1>4

(* What a name reads as changes only when a file of that name is entered,  *)
(* as long as no file lies behind an entry with an empty name.             *)
THEOREM ReadingStable == CSpec => ReadIsStable
<1>. DEFINE Stable ==
       NothingBehindEndMark /\ NothingBehindEndMark' /\ <<disk, filenames>>' # <<disk, filenames>> =>
         \E table \in {Refreshed'} : \A n \in Askable :
           \/ pc = "entry" /\ ListedName(Stem(request.name)) = n
           \/ AnswerNow(n) \in {NotFound, Answer(table, n)'}
<1>1. CInv /\ FirstNamesAnswered' /\ [CNext]_cvars => [Stable]_cvars
  BY StableStep
<1>. HIDE DEF Stable
<1>2. CSpec => [][Stable]_cvars
  BY <1>1, CSpecInvariants, PTL DEF CSpec
<1>. QED
  BY <1>2 DEF ReadIsStable, Stable
=============================================================================
