---------------------------- MODULE FileCommands ---------------------------
(***************************************************************************)
(* The file commands of the shell, on top of the volume: "read NAME",      *)
(* "ls" and "write NAME" (src/commands.cpp), with the table of names that  *)
(* file_names() keeps in a static array and only ever overwrites from the  *)
(* front.  A command runs to its end before the next key is looked at, so  *)
(* read and ls, which leave the disk alone, are one step each.             *)
(***************************************************************************)
EXTENDS Fat16

VARIABLES
  filenames,    (* file_names()'s static array; 16 of its 256 are searched *)
  reply         (* what the last command printed *)

cvars == <<vars, filenames, reply>>

Silent   == [said |-> "nothing"]
NotFound == [said |-> "Error: File not found"]
NoSpace  == [said |-> "Not enough space"]
Printed(text, past) == [said |-> "file", text |-> text, past |-> past]
Names(list)   == [said |-> "names", list |-> list]

Zeroed == [s \in Slot |-> [name |-> << >>, first |-> 0, size |-> 0]]

CTypeOK ==
  /\ TypeOK
  /\ filenames \in [Slot -> [name : {ListedName(n) : n \in DirName}, first : FatValue, size : Nat]]
  /\ reply.said \in {"nothing", "Error: File not found", "Not enough space", "file", "names"}

CInit == Init /\ filenames = Zeroed /\ reply = Silent

(***************************************************************************)
(* Reading the directory.                                                  *)
(***************************************************************************)
(* The entries the two directory loops get to see: they stop at the first  *)
(* entry never used and skip the erased ones.  SeenUpTo[s] is the sequence *)
(* of the slots they have found when they have looked at slot s.           *)
Shows(s) == Holds(dir[s]) /\ \A t \in 1 .. s - 1 : dir[t].name # EndMark

SeenUpTo[s \in 0 .. NSlots] ==
  IF s = 0 THEN << >>
  ELSE IF Shows(s) THEN Append(SeenUpTo[s - 1], s) ELSE SeenUpTo[s - 1]

SeenWithErased == LET InUse(e) == e.name # EndMark IN SelectSeq(dir, InUse)
Seen == [i \in 1 .. Len(SeenUpTo[NSlots]) |-> dir[SeenUpTo[NSlots][i]]]

(* file_names(): the entries seen overwrite the front of the table, and    *)
(* what lies behind them stays as an earlier call left it.                 *)
RefreshedUncut ==
  LET seen == Seen
  IN  [i \in Slot |-> IF i <= Len(seen) THEN seen[i] ELSE filenames[i]]

Refreshed ==
  LET seen == Seen
  IN  [i \in Slot |->
         IF i <= Len(seen)
         THEN [seen[i] EXCEPT !.name = ListedName(@)]
         ELSE filenames[i]]

(* Read_Cluster.  A cluster number of none, which a long name's entry has, *)
(* is a place elsewhere on the disk: Torn stands for whatever is there.    *)
Cell(c) == IF c \in Cluster THEN data[c] ELSE Torn

(* Read_File's loop: follow the FAT from the first cluster until the chain *)
(* ends or enough bytes have been read.                                    *)
Contents(first, size) ==
  LET cluster[i \in 1 .. Needed(size)] ==
        IF i = 1 THEN first
        ELSE IF IsEnd(cluster[i - 1]) THEN cluster[i - 1] ELSE fat[cluster[i - 1]]
      Rounds == {i \in 1 .. Needed(size) : ~IsEnd(cluster[i])}
  IN  [i \in Rounds |-> Cell(cluster[i])]

(* Read_File prints not size bytes but up to a NUL.  The zeros behind a    *)
(* text in its cluster stop it; a text that fills its cluster, or the      *)
(* array that Write_File took it from, has none behind it, and an empty    *)
(* file leaves the blanks in the buffer: what follows may be shown too.    *)
RunsOn(size) == size % ClusterBytes = 0 \/ size = MaxBytes

(* Read(): the first name in the table that equals the one typed counts.   *)
LastMatch(table, n) ==
  CHOOSE i \in Slot : table[i].name = n /\ \A j \in i + 1 .. NSlots : table[j].name # n
FirstMatch(table, n) ==
  CHOOSE i \in Slot : table[i].name = n /\ \A j \in 1 .. i - 1 : table[j].name # n

Answer(table, n) ==
  IF \E i \in Slot : table[i].name = n
  THEN LET e == table[FirstMatch(table, n)] IN Printed(Contents(e.first, e.size), RunsOn(e.size))
  ELSE NotFound

(* What a user may ask for: any name that was typed, and any that is kept. *)
Askable == (TypedNames \cup {ListedName(n) : n \in DirName}) \ {<< >>, ErasedMark}

(***************************************************************************)
(* The commands.                                                           *)
(***************************************************************************)
Read(n) ==
  /\ pc = "idle"
  /\ filenames' = Refreshed
  /\ reply' = Answer(Refreshed, n)
  /\ UNCHANGED vars

(* List_Entries() reads the sector into a local array. *)
Ls ==
  /\ pc = "idle"
  /\ reply' = LET Shown(e) == ShownByLs(e.name) IN Names(SelectSeq(Seen, Shown))
  /\ UNCHANGED <<vars, filenames>>

(* Write(), once the data is entered; reports only the lack of space. *)
Write(r) == WriteFile(r) /\ reply' = Silent /\ UNCHANGED filenames

Writing ==
  /\ KernelStep
  /\ reply' = IF ScanFails THEN NoSpace ELSE reply
  /\ UNCHANGED filenames

(* The static array is zero again when the kernel is loaded again. *)
SwitchOff == PowerFail /\ filenames' = Zeroed /\ reply' = Silent
SwitchOn  == Boot /\ UNCHANGED <<filenames, reply>>

CNext ==
  \/ \E n \in Askable : Read(n)
  \/ Ls
  \/ \E r \in Request : Write(r)
  \/ Writing
  \/ SwitchOff
  \/ SwitchOn

CSpec == CInit /\ [][CNext]_cvars

(***************************************************************************)
(* Properties.                                                             *)
(***************************************************************************)
AnswerNow(n) == Answer(Refreshed, n)
WholeContents(s) == [i \in 1 .. Needed(dir[s].size) |-> <<file[s].payload, i>>]

(* Every file that the directory loops come to can be read under the name *)
(* ls derives from its entry, and all of its content is printed, unless an *)
(* earlier entry has that name.  Read finds it through a table left over   *)
(* from earlier commands, stale rows included, and walks the FAT itself.   *)
EveryFirstNameReadable ==
  \A s \in Slot :
    LET n == ListedName(dir[s].name) IN
    (/\ Shows(s) /\ ~LongName(dir[s]) /\ n # << >>
     /\ \A t \in 1 .. s - 1 : Holds(dir[t]) => ListedName(dir[t].name) # n)
      => AnswerNow(n) = Printed(WholeContents(s), RunsOn(dir[s].size))

(* What a name reads as changes only by a write of that name: not by       *)
(* other writes, finished, failed or cut short, nor by a restart, as long  *)
(* as no entry with an empty name hides files behind it.  (A new file of   *)
(* the same name takes the place of the old one only if an erased slot     *)
(* lies in front; otherwise the old one goes on being read.)  It is the    *)
(* file's text that stays: of what may follow it nothing is said.          *)
ReadIsStable ==
  [][NothingBehindEndMark /\ NothingBehindEndMark' /\ <<disk, filenames>>' # <<disk, filenames>> =>
       \E table \in {Refreshed'} : \A n \in Askable :
         \/ pc = "entry" /\ ListedName(Stem(request.name)) = n
         \/ AnswerNow(n) \in {NotFound, Answer(table, n)'}]_cvars

(* The table in memory may be out of date but never wrong: what it names   *)
(* is on the disk with the same cluster and size.                          *)
TableNamesFiles ==
  \A i \in Slot : filenames[i].name # << >> =>
    \E s \in Slot :
      /\ Holds(dir[s])
      /\ filenames[i] = [name |-> ListedName(dir[s].name), first |-> dir[s].first, size |-> dir[s].size]
=============================================================================
