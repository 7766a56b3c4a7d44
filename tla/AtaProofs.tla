------------------------------ MODULE AtaProofs -----------------------------
(***************************************************************************)
(* For sectors of any even size, any data and any sector numbers: driver   *)
(* and drive stay in step, and what the driver promises is SectorStore.    *)
(*                                                                         *)
(* AInv is about control, how far the driver is and what the drive is at;  *)
(* DInv, which needs it, about data, what is in the sectors, in the drive  *)
(* and in the caller's buffer at each point of a call.                     *)
(***************************************************************************)
EXTENDS Ata, TLAPS, SequenceTheorems

(***************************************************************************)
(* What is transferred.                                                    *)
(***************************************************************************)
LEMMA Halves ==
  ASSUME NEW n \in Nat, NEW s \in Nat, s % 2 = 0, n <= s
  PROVE  /\ (n + 1) \div 2 \in Nat
         /\ (s - (n + (n % 2))) \div 2 \in Nat
         /\ (n + 1) \div 2 + (s - (n + (n % 2))) \div 2 = s \div 2
OBVIOUS

LEMMA IsSequence ==
  ASSUME NEW m \in Nat, NEW S, NEW f \in [1 .. m -> S]
  PROVE  f \in Seq(S) /\ Len(f) = m
OBVIOUS

(* The byte i of a sector is in word (i + 1) \div 2, in front if i is odd. *)
LEMMA WordOfByte ==
  ASSUME NEW i \in Nat \ {0}
  PROVE  /\ (i + 1) \div 2 \in Nat \ {0}
         /\ i % 2 = 1 => 2 * ((i + 1) \div 2) - 1 = i
         /\ i % 2 # 1 => 2 * ((i + 1) \div 2) = i
OBVIOUS

LEMMA WordInSector ==
  ASSUME NEW i \in Nat \ {0}, i <= SectorBytes
  PROVE  (i + 1) \div 2 \in 1 .. Words
<1>1. SectorBytes \in Nat /\ SectorBytes % 2 = 0
  BY SectorAssumption
<1>. QED
  BY <1>1 DEF Words

(* The four registers name a sector number that has 28 bits.               *)
LEMMA RegistersName ==
  ASSUME NEW n \in Nat, n <= LastSector
  PROVE  Address(Registers(n)) = n
<1>. DEFINE a == n \div 256
            b == n \div (256 * 256)
            c == n \div (256 * 256 * 256)
<1>1. /\ a \in Nat /\ n = 256 * a + (n % 256)
      /\ b \in Nat /\ a = 256 * b + (a % 256)
      /\ c \in Nat /\ b = 256 * c + (b % 256)
  BY SMT
<1>2. c % 16 = c
  BY SMT DEF LastSector
<1>3. Address(Registers(n)) = (n % 256) + 256 * ((a % 256) + 256 * ((b % 256) + 256 * (c % 16)))
  BY DEF Address, Registers
<1>. HIDE DEF a, b, c
<1>. QED
  BY SMT, <1>1, <1>2, <1>3

(* The loop of Read28 brings the first bytes of the sector.                *)
LEMMA ReceivedBytes ==
  ASSUME NEW S, NEW b \in [1 .. SectorBytes -> S], NEW n \in 1 .. SectorBytes
  PROVE  Received(InWords(b), n) = SubSeq(b, 1, n)
<1>1. SectorBytes \in Nat
  BY SectorAssumption
<1>2. b \in Seq(S) /\ Len(b) = SectorBytes
  BY <1>1, IsSequence
<1>3. SubSeq(b, 1, n) = [i \in 1 .. n |-> b[i]]
  BY <1>1, <1>2
<1>4. ASSUME NEW i \in 1 .. n
      PROVE  InWords(b)[(i + 1) \div 2][IF i % 2 = 1 THEN 1 ELSE 2] = b[i]
  <2>. DEFINE w == (i + 1) \div 2
  <2>1. w \in 1 .. Words
    BY <1>1, WordInSector
  <2>2. (i % 2 = 1 => 2 * w - 1 = i) /\ (i % 2 # 1 => 2 * w = i)
    BY WordOfByte
  <2>. HIDE DEF w
  <2>3. InWords(b)[w] = <<b[2 * w - 1], b[2 * w]>>
    BY <2>1 DEF InWords
  <2>4. CASE i % 2 = 1
    BY <2>2, <2>3, <2>4 DEF w
  <2>5. CASE i % 2 # 1
    BY <2>2, <2>3, <2>5 DEF w
  <2>. QED
    BY <2>4, <2>5
<1>. QED
  BY <1>3, <1>4 DEF Received

(* From an open bus it brings as many bytes of it.                         *)
LEMMA ReceivedNothing ==
  ASSUME NEW v, NEW n \in 1 .. SectorBytes
  PROVE  Received(Filled(Words, <<v, v>>), n) = Filled(n, v)
<1>1. ASSUME NEW i \in 1 .. n
      PROVE  Filled(Words, <<v, v>>)[(i + 1) \div 2][IF i % 2 = 1 THEN 1 ELSE 2] = v
  <2>1. (i + 1) \div 2 \in 1 .. Words
    BY SectorAssumption, WordInSector
  <2>2. Filled(Words, <<v, v>>)[(i + 1) \div 2] = <<v, v>>
    BY <2>1 DEF Filled
  <2>. QED
    BY <2>2
<1>. QED
  BY <1>1 DEF Received, Filled

(* What Write28 sends is one sector, whatever the length of the data: the  *)
(* data, filled up with zeros.                                             *)
LEMMA OneSector ==
  ASSUME NEW d \in Data, Len(d) <= SectorBytes
  PROVE  LET words == Sent(d) \o Padding(Len(d))
         IN  /\ Len(words) = Words /\ SubSeq(words, 1, Words) # << >>
             /\ InBytes(SubSeq(words, 1, Words)) = Padded(d)
<1>1. Len(d) \in Nat /\ SectorBytes \in Nat \ {0} /\ SectorBytes % 2 = 0
  BY SectorAssumption
<1>. DEFINE n == Len(d)
            a == (n + 1) \div 2
            b == (SectorBytes - (n + (n % 2))) \div 2
            T == {Sent(d)[w] : w \in 1 .. a} \cup {<<0, 0>>}
            words == Sent(d) \o Padding(n)
<1>2. a \in Nat /\ b \in Nat /\ a + b = Words /\ Words \in Nat \ {0}
  BY <1>1, Halves DEF Words
<1>3. \A i \in Nat \ {0} : i % 2 = 1 => ((i + 1) \div 2 <= a <=> i <= n)
  BY <1>1
<1>4. \A i \in Nat \ {0} : i % 2 # 1 /\ i <= n => (i + 1) \div 2 <= a
  BY <1>1
<1>. HIDE DEF a, b
<1>5. Sent(d) \in Seq(T) /\ Len(Sent(d)) = a
  <2>1. Sent(d) \in [1 .. a -> T]
    BY DEF Sent, a
  <2>. HIDE DEF T
  <2>. QED
    BY <1>2, <2>1, IsSequence
<1>6. Padding(n) \in Seq(T) /\ Len(Padding(n)) = b
  <2>1. Padding(n) \in [1 .. b -> T]
    BY DEF Padding, Filled, b
  <2>. HIDE DEF T
  <2>. QED
    BY <1>2, <2>1, IsSequence
<1>7. \A w \in 1 .. a : Sent(d)[w] = <<d[2 * w - 1], IF 2 * w <= n THEN d[2 * w] ELSE 0>>
  BY DEF Sent, a
<1>8. \A w \in 1 .. b : Padding(n)[w] = <<0, 0>>
  BY DEF Padding, Filled, b
<1>. HIDE DEF T, n
<1>9. /\ words \in Seq(T) /\ Len(words) = Words
      /\ \A w \in 1 .. a : words[w] = Sent(d)[w]
      /\ \A w \in a + 1 .. Words : words[w] = Padding(n)[w - a]
  BY <1>2, <1>5, <1>6
<1>. HIDE DEF words
<1>10. \A w \in 1 .. Words : SubSeq(words, 1, Words)[w] = words[w]
  BY <1>2, <1>9
<1>11. ASSUME NEW i \in 1 .. SectorBytes
       PROVE  SubSeq(words, 1, Words)[(i + 1) \div 2][IF i % 2 = 1 THEN 1 ELSE 2]
                = IF i <= n THEN d[i] ELSE 0
  <2>. DEFINE w == (i + 1) \div 2
  <2>0. i \in Nat \ {0} /\ n \in Nat
    BY <1>1 DEF n
  <2>1. w \in 1 .. Words
    BY <1>1, <2>0, WordInSector
  <2>2. (i % 2 = 1 => 2 * w - 1 = i) /\ (i % 2 # 1 => 2 * w = i)
    BY WordOfByte
  <2>3. (i % 2 = 1 => (w <= a <=> i <= n)) /\ (i % 2 # 1 /\ i <= n => w <= a)
    BY <1>3, <1>4, <2>0
  <2>. HIDE DEF w
  <2>4. SubSeq(words, 1, Words)[w] = words[w]
    BY <1>10, <2>1
  <2>5. CASE w <= a
    <3>1. w \in 1 .. a
      BY <1>2, <2>1, <2>5
    <3>2. /\ words[w][1] = d[2 * w - 1]
          /\ words[w][2] = IF 2 * w <= n THEN d[2 * w] ELSE 0
      BY <1>7, <1>9, <3>1
    <3>3. CASE i % 2 = 1
      BY <2>2, <2>3, <2>4, <2>5, <3>2, <3>3 DEF w
    <3>4. CASE i % 2 # 1
      BY <2>2, <2>4, <3>2, <3>4 DEF w
    <3>. QED
      BY <3>3, <3>4
  <2>6. CASE ~(w <= a)
    <3>1. words[w][1] = 0 /\ words[w][2] = 0
      BY <1>2, <1>8, <1>9, <2>1, <2>6
    <3>2. ~(i <= n)
      BY <2>3, <2>6
    <3>. QED
      BY <2>4, <3>1, <3>2 DEF w
  <2>. QED
    BY <2>5, <2>6
<1>12. InBytes(SubSeq(words, 1, Words)) = Padded(d)
  BY <1>11 DEF InBytes, Padded, n
<1>13. SubSeq(words, 1, Words) # << >>
  BY <1>2, <1>9
<1>. QED
  BY <1>9, <1>12, <1>13 DEF words, n

USE SectorAssumption

Operation == {"IDENTIFY", "READ", "WRITE", "FLUSH"}

(* Of the call, only what decides how many words are sent. *)
CallOK ==
  /\ channel \in {"drive", "floating", "empty"}
  /\ pc \in {"idle", "issue", "poll", "data"}
  /\ call \in [op : Operation, sector : DiskSector \cup LargeSector \cup {0},
               count : Nat, data : Data \cup {<< >>}]
  /\ call.op = "WRITE" /\ pc # "idle" =>
       call.data \in Data /\ call.count = Len(call.data) /\ call.count <= SectorBytes

(* What the drive is at follows what the driver is at: it asks for words,  *)
(* or has some to give, only in the call that wants them, and is busy with *)
(* a sector only until the end of Flush.                                   *)
InStep ==
  channel = "drive" =>
    /\ status \in {Idle, Busy, Asks, Failed}
    /\ status = Asks => pc \in {"poll", "data"} /\ call.op # "FLUSH" /\ task = call.op /\ held = << >>
    /\ status \in {Idle, Failed} => held = << >>
    /\ status = Busy =>
         \/ task = "dead" /\ (pc = "poll" \/ (pc = "issue" /\ call.op = "FLUSH"))
         \/ task = call.op /\ pc = "poll" /\ held = << >>
         \/ task = "WRITE" /\ call.op = "FLUSH" /\ pc \in {"issue", "poll"} /\ held # << >>

AInv == CallOK /\ InStep

(* What the bits say of the four states of a drive's status port. *)
LEMMA Bits ==
  /\ "BSY" \notin Idle /\ "DRQ" \notin Idle
  /\ "BSY" \in Busy /\ "DRQ" \notin Busy /\ "ERR" \notin Busy
  /\ "BSY" \notin Asks /\ "DRQ" \in Asks /\ "ERR" \notin Asks
  /\ "BSY" \notin Failed /\ "DRQ" \notin Failed /\ "ERR" \in Failed
BY DEF Idle, Busy, Asks, Failed

LEMMA Distinct ==
  Idle # Busy /\ Idle # Asks /\ Busy # Asks /\ Busy # Failed /\ Asks # Failed
BY Bits

USE DEF NoCall

LEMMA InitInvariant == Init => AInv
<1>. SUFFICES ASSUME Init
              PROVE  AInv
  OBVIOUS
<1>1. CallOK
  BY DEF Init, CallOK, Operation
<1>2. InStep
  <2>. SUFFICES ASSUME channel = "drive"
                PROVE  status = Idle /\ held = << >>
    BY Distinct DEF InStep
  <2>. QED
    BY DEF Init
<1>. QED
  BY <1>1, <1>2 DEF AInv

LEMMA BeginInvariant == ASSUME AInv, NEW c \in Calls, Begin(c) PROVE AInv'
<1>. USE DEF AInv
<1>1. c.count \in Nat /\ c \in [op : Operation, sector : DiskSector \cup LargeSector \cup {0},
                                count : Nat, data : Data \cup {<< >>}]
  BY DEF Calls, ReadCall, WriteCall, Operation
<1>2. /\ c.op \in {"READ", "WRITE"}
      /\ c.op = "WRITE" => c.data \in Data /\ c.count = Len(c.data) /\ c.count \in Nat
  BY <1>1 DEF Calls, ReadCall, WriteCall
<1>3. /\ pc' \in {"idle", "issue"}
      /\ call' = c \/ (call' = FlushCall(c) /\ pc' = "issue")
      /\ call' = c /\ c.op = "WRITE" => ~Refused(c)
  BY <1>1, <1>2 DEF Begin, FlushCall
<1>4. call' \in [op : Operation, sector : DiskSector \cup LargeSector \cup {0},
                 count : Nat, data : Data \cup {<< >>}]
      /\ (call'.op = "WRITE" => call' = c)
  BY <1>1, <1>3 DEF FlushCall, Operation
<1>5. CallOK'
  BY <1>2, <1>3, <1>4 DEF CallOK, Refused, Begin
<1>6. InStep'
  BY <1>3, Distinct DEF InStep, Begin
<1>. QED
  BY <1>5, <1>6

LEMMA IssueInvariant == ASSUME AInv, Issue PROVE AInv'
<1>. USE DEF AInv
<1>1. CallOK'
  BY DEF CallOK, Issue, Taken
<1>2. ASSUME channel' = "drive"
      PROVE  InStep'
  <2>1. CASE status = Busy
    BY <1>2, <2>1, Bits, Distinct DEF InStep, Issue, Taken
  <2>2. CASE status # Busy
    <3>1. status \in {Idle, Failed}
      BY <1>2, <2>2 DEF InStep, Issue
    <3>2. {"BSY", "DRQ"} \cap status = {}
      BY <3>1, Bits
    <3>3. status' = Busy /\ task' = call.op /\ pc' = "poll" /\ held' = << >> /\ call' = call
      BY <1>2, <3>1, <3>2 DEF Issue, Taken, InStep
    <3>. QED
      BY <3>3, Distinct DEF InStep
  <2>. QED
    BY <2>1, <2>2
<1>. QED
  BY <1>1, <1>2 DEF InStep

(* Write28's return is the beginning of Flush. *)
LEMMA ReturnOK ==
  ASSUME CallOK, Return
  PROVE  /\ call' \in [op : Operation, sector : DiskSector \cup LargeSector \cup {0},
                       count : Nat, data : Data \cup {<< >>}]
         /\ call.op = "WRITE" => pc' = "issue" /\ call'.op = "FLUSH"
         /\ call.op # "WRITE" => pc' = "idle" /\ call' = call
BY DEF CallOK, Return, FlushCall, Operation

LEMMA PollInvariant == ASSUME AInv, Poll PROVE AInv'
<1>. USE DEF AInv
<1>1. CASE pc' = "data" /\ UNCHANGED call
  <2>1. call.op # "FLUSH" /\ CallOK'
    BY <1>1, ReturnOK DEF Poll, CallOK
  <2>2. ASSUME channel' = "drive"
        PROVE  status # Busy
    BY <2>2, Bits DEF Poll, Waiting
  <2>. QED
    BY <1>1, <2>1, <2>2, Distinct DEF InStep, Poll, drive
<1>2. CASE Return /\ call.op # "WRITE"
  <2>1. CallOK' /\ pc' = "idle" /\ call' = call
    BY <1>2, ReturnOK DEF CallOK, Poll
  <2>2. ASSUME channel = "drive"
        PROVE  status \in {Idle, Failed}
    <3>1. status # Busy
      BY Bits, <1>2 DEF Poll, Waiting
    <3>2. status # Asks
      BY <2>2, Bits, <1>2, <2>1 DEF Poll, InStep, Silence
    <3>. QED
      BY <2>2, <3>1, <3>2 DEF InStep
  <2>. QED
    BY <2>1, <2>2, Distinct DEF InStep, Poll, drive
<1>. QED
  BY <1>1, <1>2 DEF Poll

LEMMA ReadWordsInvariant == ASSUME AInv, ReadWords PROVE AInv'
<1>. USE DEF AInv
<1>1. CallOK' /\ pc' = "idle" /\ call' = call
  BY ReturnOK DEF CallOK, ReadWords
<1>2. ASSUME channel = "drive"
      PROVE  status' \in {Idle, Failed} /\ held' = << >>
  BY <1>2, Distinct DEF InStep, ReadWords
<1>. QED
  BY <1>1, <1>2, Distinct DEF InStep, ReadWords

LEMMA WriteWordsInvariant == ASSUME AInv, WriteWords PROVE AInv'
<1>. USE DEF AInv
<1>. DEFINE words == Sent(call.data) \o Padding(call.count)
<1>1. CallOK' /\ pc' = "issue" /\ call'.op = "FLUSH"
  BY ReturnOK DEF CallOK, WriteWords
<1>2. Len(words) = Words /\ SubSeq(words, 1, Words) # << >> /\ Words \in Nat
  <2>1. call.data \in Data /\ call.count = Len(call.data) /\ call.count <= SectorBytes
    BY DEF CallOK, WriteWords
  <2>2. Words \in Nat
    BY DEF Words
  <2>. QED
    BY <2>1, <2>2, OneSector
<1>. HIDE DEF words
<1>3. ASSUME channel = "drive"
      PROVE  \/ status' = Busy /\ task' = "WRITE" /\ held' # << >>
             \/ status' \in {Idle, Failed} /\ held' = << >>
  <2>1. CASE status = Asks
    <3>1. held' = SubSeq(words, 1, Words) /\ status' = Busy /\ task' = "WRITE"
      BY <1>2, <1>3, <2>1 DEF WriteWords, InStep, words
    <3>. QED
      BY <1>2, <3>1
  <2>2. CASE status # Asks
    BY <1>3, <2>2 DEF WriteWords, InStep
  <2>. QED
    BY <2>1, <2>2
<1>. QED
  BY <1>1, <1>3, Distinct DEF InStep, WriteWords

LEMMA DriveInvariant == ASSUME AInv, Drive \/ Die PROVE AInv'
<1>. USE DEF AInv
<1>1. CASE Answer
  BY <1>1, Distinct DEF Answer, InStep, CallOK, driver
<1>2. CASE Complete
  BY <1>2, Distinct DEF Complete, InStep, CallOK, driver
<1>3. CASE Fail
  BY <1>3, Distinct DEF Fail, InStep, CallOK, driver
<1>4. CASE Die
  BY <1>4, Distinct DEF Die, InStep, CallOK, driver
<1>. QED
  BY <1>1, <1>2, <1>3, <1>4 DEF Drive

LEMMA NextInvariant == AInv /\ [Next]_vars => AInv'
<1>. SUFFICES ASSUME AInv, [Next]_vars
              PROVE  AInv'
  OBVIOUS
<1>1. CASE \E c \in Calls : Begin(c)
  BY <1>1, BeginInvariant
<1>2. CASE Issue
  BY <1>2, IssueInvariant
<1>3. CASE Poll
  BY <1>3, PollInvariant
<1>4. CASE ReadWords
  BY <1>4, ReadWordsInvariant
<1>5. CASE WriteWords
  BY <1>5, WriteWordsInvariant
<1>6. CASE Drive \/ Die
  BY <1>6, DriveInvariant
<1>7. CASE UNCHANGED vars
  BY <1>7 DEF AInv, CallOK, InStep, vars, drive, driver
<1>. QED
  BY <1>1, <1>2, <1>3, <1>4, <1>5, <1>6, <1>7 DEF Next, Driver

(* Driver and drive stay in step, for every size of the sectors and every  *)
(* length of the data: Identify, Read28, Write28 and Flush.                *)
THEOREM Invariance == Spec => []AInv
BY InitInvariant, NextInvariant, PTL DEF Spec

(* No call leaves the drive busy or with words to give or to get, however  *)
(* early Flush writes its command and whatever fails on the way.           *)
THEOREM AlwaysQuiet == Spec => []DriveQuiet
<1>1. AInv => DriveQuiet
  <2>. SUFFICES ASSUME AInv, channel = "drive",
                       pc = "idle" \/ (pc = "issue" /\ call.op # "FLUSH")
                PROVE  {"BSY", "DRQ"} \cap status = {}
    BY DEF DriveQuiet
  <2>1. status \in {Idle, Failed}
    BY DEF AInv, InStep
  <2>. QED
    BY <2>1, Bits
<1>. QED
  BY <1>1, Invariance, PTL

(***************************************************************************)
(* The rest of the invariant.                                              *)
(***************************************************************************)
Written == {Filled(SectorBytes, Blank)} \cup {Padded(d) : d \in {e \in Data : Whole(e)}}

(* The channel decides what the status port can show.                      *)
ChannelOK ==
  /\ channel = "floating" => status = Floating /\ task = "none"
  /\ channel = "empty" => status = Silence /\ task = "none"
  /\ task \in Operation \cup {"none", "dead"}
  /\ spoiled \in BOOLEAN

(* The rest of the call: its sector fits the registers, and the buffer of  *)
(* a read is as the caller left it until the words are read.               *)
CallKept ==
  /\ buffer \in Seq(Bytes)
  /\ call.op = "READ" => Len(buffer) = call.count
  /\ call.op = "READ" /\ pc # "idle" =>
       /\ call.sector \in DiskSector /\ call.count \in Count /\ ~Refused(call)
       /\ buffer = Filled(call.count, Untouched)
  /\ call.op \in {"WRITE", "FLUSH"} =>
       /\ call.sector \in DiskSector \cup LargeSector
       /\ call.data \in Data /\ call.count = Len(call.data)
  /\ call.op = "WRITE" /\ pc # "idle" => ~Refused(call)

(* The drive works at the sector it was given, until it has failed.        *)
AtSector ==
  channel = "drive" =>
    /\ status \in {Busy, Asks} /\ task \in {"READ", "WRITE"} => lba = call.sector
    /\ status = Asks /\ task \in {"READ", "WRITE"} => lba \in DiskSector
    /\ status = Busy /\ held # << >> => lba \in DiskSector
    /\ pc \in {"poll", "data"} /\ call.op # "FLUSH" =>
         status \in {Busy, Asks} \/ (status = Failed /\ spoiled)
    /\ pc = "data" /\ call.op \in {"READ", "IDENTIFY"} => status = Asks

(* What it has taken in is the sector as it is to be, and is on the medium *)
(* when it is done.                                                        *)
SectorKept ==
  /\ medium \in [DiskSector -> Written]
  /\ channel = "drive" /\ status = Busy /\ held # << >> =>
       InBytes(held) = Padded(call.data) /\ ~Refused(AsWritten(call))
  /\ channel = "drive" /\ call.op = "FLUSH" /\ pc \in {"issue", "poll"}
       /\ ~spoiled /\ ~Refused(AsWritten(call)) =>
       \/ status = Busy /\ (task = "dead" \/ held # << >>)
       \/ medium[call.sector] = Padded(call.data)

DInv == ChannelOK /\ CallKept /\ AtSector /\ SectorKept

(* Read28 and Write28 let through the sectors of the drive and no other.   *)
LEMMA Named ==
  ASSUME NEW c, c.sector \in DiskSector \cup LargeSector, ~Refused(c)
  PROVE  c.sector \in DiskSector /\ Address(Registers(c.sector)) = c.sector
<1>1. LastSector \in Nat
  BY SMT DEF LastSector
<1>2. ~(c.sector > LastSector)
  BY DEF Refused
<1>3. ASSUME NEW n \in DiskSector \cup LargeSector, ~(n > LastSector)
      PROVE  n \in DiskSector /\ n \in Nat /\ n <= LastSector
  BY <1>1, <1>3, NumberAssumption
<1>. QED
  BY <1>2, <1>3, RegistersName

(* Flush knows nothing of the call of Write28 that it follows; the model   *)
(* remembers that call.                                                    *)
LEMMA FlushOf ==
  ASSUME NEW c \in [op : Operation, sector : DiskSector \cup LargeSector \cup {0},
                    count : Nat, data : Data \cup {<< >>}],
         c.op = "WRITE"
  PROVE  /\ FlushCall(c).op = "FLUSH" /\ FlushCall(c).sector = c.sector
         /\ FlushCall(c).count = c.count /\ FlushCall(c).data = c.data
         /\ AsWritten(FlushCall(c)) = c /\ AsWritten(c) = c
BY DEF FlushCall, AsWritten

LEMMA AreBytes ==
  /\ {0, Blank, OpenBus, Untouched} \subseteq Bytes
  /\ \A d \in Data : \A i \in DOMAIN d : d[i] \in Bytes
<1>1. {0, Blank, OpenBus, Untouched} \subseteq Bytes
  BY Zenon DEF Bytes
<1>2. ASSUME NEW d \in Data, NEW i \in DOMAIN d
      PROVE  d[i] \in Bytes
  <2>1. d[i] \in {d[j] : j \in DOMAIN d}
    OBVIOUS
  <2>2. {d[j] : j \in DOMAIN d} \in {{e[j] : j \in DOMAIN e} : e \in Data}
    BY Zenon
  <2>3. d[i] \in UNION {{e[j] : j \in DOMAIN e} : e \in Data}
    BY Zenon, <2>1, <2>2
  <2>. QED
    BY Zenon, <2>3 DEF Bytes
<1>. QED
  BY <1>1, <1>2

LEMMA SectorOfBytes == Written \subseteq [1 .. SectorBytes -> Bytes]
<1>1. Filled(SectorBytes, Blank) \in [1 .. SectorBytes -> Bytes]
  BY AreBytes DEF Filled
<1>2. ASSUME NEW d \in Data
      PROVE  Padded(d) \in [1 .. SectorBytes -> Bytes]
  <2>1. \A i \in 1 .. SectorBytes : i <= Len(d) => i \in DOMAIN d
    OBVIOUS
  <2>. QED
    BY <2>1, AreBytes DEF Padded
<1>. QED
  BY <1>1, <1>2 DEF Written

LEMMA InitData == Init => DInv
<1>. SUFFICES ASSUME Init
              PROVE  DInv
  OBVIOUS
<1>1. ChannelOK
  BY DEF Init, ChannelOK, Operation
<1>2. CallKept
  BY DEF Init, CallKept
<1>3. AtSector
  <2>. SUFFICES ASSUME channel = "drive"
                PROVE  status = Idle /\ pc = "issue"
    BY Distinct DEF AtSector, Init
  <2>. QED
    BY Bits DEF Init, Floating
<1>4. SectorKept
  BY Distinct DEF Init, SectorKept, Written
<1>. QED
  BY <1>1, <1>2, <1>3, <1>4 DEF DInv

(* Read28 leaves the buffer alone, or fills it from the sector it was      *)
(* asked for or from the open bus.                                         *)
LEMMA Brought ==
  ASSUME AInv, DInv, ReadWords, call.op = "READ"
  PROVE  /\ call.sector \in DiskSector /\ call.count \in Count
         /\ call.count \in 1 .. SectorBytes
         /\ \/ channel = "drive" /\ buffer' = SubSeq(medium[call.sector], 1, call.count)
            \/ channel # "drive" /\ buffer' = Filled(call.count, OpenBus)
<1>1. call.sector \in DiskSector /\ call.count \in Count /\ call.count \in 1 .. SectorBytes
  BY DEF DInv, CallKept, ReadWords
<1>2. CASE channel = "drive"
  <2>1. status = Asks /\ task = "READ" /\ lba = call.sector
    BY <1>2 DEF AInv, InStep, DInv, AtSector, ReadWords
  <2>2. buffer' = Received(InWords(medium[call.sector]), call.count)
    BY <2>1 DEF ReadWords
  <2>3. medium[call.sector] \in [1 .. SectorBytes -> Bytes]
    BY <1>1, SectorOfBytes DEF DInv, SectorKept
  <2>. QED
    BY <1>1, <1>2, <2>2, <2>3, ReceivedBytes
<1>3. CASE channel # "drive"
  <2>1. status # Asks
    BY <1>3, Bits DEF AInv, CallOK, DInv, ChannelOK, Floating, Silence
  <2>2. buffer' = Received(Filled(Words, <<OpenBus, OpenBus>>), call.count)
    BY <2>1 DEF ReadWords
  <2>. QED
    BY <1>1, <1>3, <2>2, ReceivedNothing
<1>. QED
  BY <1>2, <1>3, <1>1

LEMMA BroughtBytes ==
  ASSUME AInv, DInv, ReadWords, call.op = "READ"
  PROVE  buffer' \in Seq(Bytes) /\ Len(buffer') = call.count
<1>1. call.count \in Nat /\ call.count \in 1 .. SectorBytes
  BY Brought
<1>2. CASE buffer' = Filled(call.count, OpenBus)
  <2>1. Filled(call.count, OpenBus) \in [1 .. call.count -> Bytes]
    BY AreBytes DEF Filled
  <2>. QED
    BY <1>1, <1>2, <2>1, IsSequence
<1>3. CASE buffer' = SubSeq(medium[call.sector], 1, call.count)
  <2>1. medium[call.sector] \in [1 .. SectorBytes -> Bytes]
    BY Brought, SectorOfBytes DEF DInv, SectorKept
  <2>. QED
    BY <1>1, <1>3, <2>1, IsSequence
<1>. QED
  BY <1>2, <1>3, Brought

(***************************************************************************)
(* The steps of the driver.                                                *)
(***************************************************************************)
LEMMA BeginData == ASSUME AInv, DInv, NEW c \in Calls, Begin(c) PROVE DInv'
<1>. USE DEF DInv
<1>1. /\ c \in [op : Operation, sector : DiskSector \cup LargeSector \cup {0},
                 count : Nat, data : Data \cup {<< >>}]
      /\ c.op \in {"READ", "WRITE"}
      /\ c.sector \in DiskSector \cup LargeSector
      /\ c.op = "READ" => c.count \in Count
      /\ c.op = "WRITE" => c.data \in Data /\ c.count = Len(c.data)
  BY DEF Calls, ReadCall, WriteCall, Operation
<1>2. \/ ~Refused(c) /\ pc' = "issue" /\ call' = c
      \/ Refused(c) /\ c.op = "READ" /\ pc' = "idle" /\ call' = c
      \/ Refused(c) /\ c.op = "WRITE" /\ pc' = "issue" /\ call' = FlushCall(c)
  BY <1>1 DEF Begin
<1>3. ChannelOK'
  BY DEF ChannelOK, Begin
<1>4. CallKept'
  <2>1. buffer' \in Seq(Bytes) /\ (c.op = "READ" => Len(buffer') = c.count)
    <3>1. CASE c.op = "READ"
      <4>1. Filled(c.count, Untouched) \in [1 .. c.count -> Bytes] /\ c.count \in Nat
        BY <1>1, <3>1, AreBytes DEF Filled
      <4>. QED
        BY <3>1, <4>1, IsSequence DEF Begin
    <3>. QED
      BY <3>1 DEF Begin, CallKept
  <2>2. c.op = "READ" => buffer' = Filled(c.count, Untouched)
    BY DEF Begin
  <2>3. ~Refused(c) => c.sector \in DiskSector
    BY <1>1, Named
  <2>. QED
    BY <1>1, <1>2, <2>1, <2>2, <2>3, FlushOf DEF CallKept
<1>5. ASSUME channel' = "drive"
      PROVE  status' \in {Idle, Failed} /\ pc' \notin {"poll", "data"}
  BY <1>2, <1>5 DEF AInv, InStep, Begin
<1>6. AtSector'
  BY <1>5, <1>2, Distinct DEF AtSector, Begin
<1>7. call'.op = "FLUSH" => Refused(AsWritten(call'))
  BY <1>1, <1>2, FlushOf
<1>8. SectorKept'
  BY <1>5, <1>7, Distinct DEF SectorKept, Begin
<1>. QED
  BY <1>3, <1>4, <1>6, <1>8

LEMMA IssueData == ASSUME AInv, DInv, Issue PROVE DInv'
<1>. USE DEF DInv
<1>1. call.op \in Operation
  BY DEF AInv, CallOK
<1>2. ChannelOK'
  BY <1>1 DEF ChannelOK, Issue, Taken
<1>3. CallKept'
  BY DEF CallKept, Issue
<1>4. CASE channel = "drive" /\ status # Busy
  <2>1. status \in {Idle, Failed} /\ held = << >>
    BY <1>4 DEF AInv, InStep, Issue
  <2>2. status' = Busy /\ task' = call.op /\ held' = << >>
    BY <1>4, <2>1, Bits DEF Issue, Taken
  <2>3. call.op \in {"READ", "WRITE"} => lba' = call.sector
    <3>1. call.op \in {"READ", "WRITE"} => ~Refused(call) /\ call.sector \in DiskSector \cup LargeSector
      BY DEF CallKept, Issue
    <3>2. call.op \in {"READ", "WRITE"} => lba' = Address(Registers(call.sector))
      BY <1>4, <2>1, Bits DEF Issue, Taken
    <3>. QED
      BY <3>1, <3>2, Named
  <2>4. AtSector'
    BY <2>2, <2>3, Distinct DEF AtSector, Issue
  <2>5. SectorKept'
    BY <2>1, <2>2, Distinct DEF SectorKept, Issue
  <2>. QED
    BY <1>2, <1>3, <2>4, <2>5
<1>5. CASE channel = "drive" /\ status = Busy
  <2>1. call.op = "FLUSH"
    BY <1>5, Distinct DEF AInv, InStep, Issue
  <2>2. UNCHANGED <<status, task, lba>>
    BY <1>5, Bits DEF Issue, Taken
  <2>3. AtSector'
    BY <2>1, <2>2 DEF AtSector, Issue
  <2>4. SectorKept'
    BY <2>2 DEF SectorKept, Issue
  <2>. QED
    BY <1>2, <1>3, <2>3, <2>4
<1>6. CASE channel # "drive"
  BY <1>2, <1>3, <1>6 DEF AtSector, SectorKept, Issue
<1>. QED
  BY <1>4, <1>5, <1>6

LEMMA PollData == ASSUME AInv, DInv, Poll PROVE DInv'
<1>. USE DEF DInv
<1>1. \/ pc' = "data" /\ call' = call
      \/ pc' = "idle" /\ call' = call
  BY DEF Poll, Return
<1>2. ChannelOK' /\ CallKept'
  BY <1>1 DEF ChannelOK, CallKept, Poll, drive
<1>3. ASSUME channel = "drive", pc' = "data", call.op \in {"READ", "IDENTIFY"}
      PROVE  status = Asks
  <2>1. "ERR" \notin status /\ "BSY" \notin status
    BY <1>3, Distinct DEF Poll, Waiting, Return
  <2>. QED
    BY <1>3, <2>1, Bits DEF AtSector, Poll
<1>4. AtSector'
  BY <1>1, <1>3 DEF AtSector, Poll, drive
<1>5. SectorKept'
  <2>1. pc' \notin {"issue", "poll"}
    BY <1>1
  <2>. QED
    BY <1>1, <2>1 DEF SectorKept, Poll, drive
<1>. QED
  BY <1>2, <1>4, <1>5

LEMMA ReadWordsData == ASSUME AInv, DInv, ReadWords PROVE DInv'
<1>. USE DEF DInv
<1>1. pc' = "idle" /\ call' = call /\ call.op \in {"READ", "IDENTIFY"}
  BY DEF ReadWords, Return
<1>2. ChannelOK'
  BY Bits DEF ChannelOK, ReadWords, Floating, Silence
<1>3. CallKept'
  <2>1. call.op # "READ" => buffer' = buffer
    BY DEF ReadWords
  <2>. QED
    BY <1>1, <2>1, BroughtBytes DEF CallKept
<1>4. channel = "drive" => status' = Idle
  BY <1>1 DEF AtSector, ReadWords
<1>5. AtSector' /\ SectorKept'
  BY <1>1, <1>4, Distinct DEF AtSector, SectorKept, ReadWords
<1>. QED
  BY <1>2, <1>3, <1>5

LEMMA WriteWordsData == ASSUME AInv, DInv, WriteWords PROVE DInv'
<1>. USE DEF DInv
<1>. DEFINE words == Sent(call.data) \o Padding(call.count)
<1>1. /\ call.op = "WRITE" /\ pc = "data" /\ pc' = "issue" /\ call' = FlushCall(call)
      /\ call.data \in Data /\ call.count = Len(call.data) /\ call.count <= SectorBytes
      /\ ~Refused(call)
  BY DEF WriteWords, Return, AInv, CallOK, CallKept
<1>2. /\ call'.op = "FLUSH" /\ call'.sector = call.sector
      /\ call'.count = call.count /\ call'.data = call.data
      /\ AsWritten(call') = call
  BY <1>1, FlushOf DEF AInv, CallOK
<1>3. ChannelOK'
  BY Bits DEF ChannelOK, WriteWords, Floating, Silence
<1>4. CallKept'
  BY <1>1, <1>2 DEF CallKept, WriteWords
<1>5. /\ Len(words) = Words /\ SubSeq(words, 1, Words) # << >>
      /\ InBytes(SubSeq(words, 1, Words)) = Padded(call.data)
  BY <1>1, OneSector
<1>6. Words \in Nat
  BY DEF Words
<1>7. CASE channel = "drive" /\ status = Asks
  <2>1. task = "WRITE" /\ lba = call.sector /\ lba \in DiskSector
    BY <1>1, <1>7 DEF AInv, InStep, AtSector
  <2>2. held' = SubSeq(words, 1, Words) /\ status' = Busy
    BY <1>5, <1>6, <1>7, <2>1 DEF WriteWords
  <2>. HIDE DEF words
  <2>3. AtSector'
    BY <1>1, <1>2, <2>1, <2>2 DEF AtSector, WriteWords
  <2>4. SectorKept'
    BY <1>1, <1>2, <1>5, <2>2 DEF SectorKept, WriteWords
  <2>. QED
    BY <1>3, <1>4, <2>3, <2>4
<1>8. CASE channel = "drive" /\ status # Asks
  <2>1. status = Failed /\ spoiled /\ held = << >>
    BY <1>1, <1>8, Distinct DEF AInv, InStep, AtSector
  <2>2. status' = Failed /\ held' = << >> /\ spoiled'
    BY <1>8, <2>1 DEF WriteWords
  <2>3. AtSector'
    BY <1>1, <1>2, <2>2, Distinct DEF AtSector, WriteWords
  <2>4. SectorKept'
    BY <2>2, Distinct DEF SectorKept, WriteWords
  <2>. QED
    BY <1>3, <1>4, <2>3, <2>4
<1>9. CASE channel # "drive"
  BY <1>3, <1>4, <1>9 DEF AtSector, SectorKept, WriteWords
<1>. QED
  BY <1>7, <1>8, <1>9

(***************************************************************************)
(* The steps of the drive.                                                 *)
(***************************************************************************)
LEMMA BusyDrive ==
  ASSUME AInv, DInv, status = Busy
  PROVE  channel = "drive"
<1>1. status # Floating /\ status # Silence
  BY Bits DEF Floating, Silence
<1>. QED
  BY <1>1 DEF AInv, CallOK, DInv, ChannelOK

LEMMA AnswerData == ASSUME AInv, DInv, Answer PROVE DInv'
<1>. USE DEF DInv
<1>1. channel = "drive" /\ status = Busy /\ held = << >> /\ status' = Asks
  BY BusyDrive DEF Answer
<1>2. pc = "poll" /\ call.op # "FLUSH" /\ UNCHANGED <<pc, call, buffer>>
  BY <1>1, Distinct DEF AInv, InStep, Answer, driver
<1>3. ChannelOK' /\ CallKept'
  BY <1>1, <1>2 DEF ChannelOK, CallKept, Answer
<1>4. AtSector'
  BY <1>1, <1>2 DEF AtSector, Answer
<1>5. SectorKept'
  BY <1>1, <1>2, Distinct DEF SectorKept, Answer
<1>. QED
  BY <1>3, <1>4, <1>5

(* The sector the drive writes is the one it was given with Write28.       *)
LEMMA Stored ==
  ASSUME AInv, DInv, Complete, task = "WRITE"
  PROVE  /\ call.op = "FLUSH" /\ pc \in {"issue", "poll"} /\ call.sector \in DiskSector
         /\ call.data \in Data /\ Whole(call.data) /\ ~Refused(AsWritten(call))
         /\ medium' = [medium EXCEPT ![call.sector] = Padded(call.data)]
<1>1. channel = "drive" /\ status = Busy /\ held # << >>
  BY BusyDrive DEF Complete
<1>2. call.op = "FLUSH" /\ pc \in {"issue", "poll"}
  BY <1>1, Distinct DEF AInv, InStep, Complete
<1>3. lba \in DiskSector /\ lba = call.sector
  BY <1>1 DEF DInv, AtSector
<1>4. InBytes(held) = Padded(call.data) /\ ~Refused(AsWritten(call))
  BY <1>1 DEF DInv, SectorKept
<1>5. call.data \in Data /\ call.count = Len(call.data)
  BY <1>2 DEF DInv, CallKept
<1>6. AsWritten(call).op = "WRITE" /\ AsWritten(call).count = call.count
  BY <1>2 DEF AsWritten, AInv, CallOK
<1>7. Whole(call.data)
  <2>1. ~(call.count > SectorBytes)
    BY <1>4, <1>6 DEF Refused
  <2>. QED
    BY <1>5, <2>1 DEF Whole
<1>. QED
  BY <1>2, <1>3, <1>4, <1>5, <1>7 DEF Complete

LEMMA CompleteData == ASSUME AInv, DInv, Complete PROVE DInv'
<1>. USE DEF DInv
<1>1. channel = "drive" /\ status = Busy /\ status' = Idle /\ held' = << >>
  BY BusyDrive DEF Complete
<1>2. call.op = "FLUSH" /\ UNCHANGED <<pc, call, buffer>>
  BY <1>1, Distinct DEF AInv, InStep, Complete, driver
<1>3. ChannelOK' /\ CallKept'
  BY <1>1, <1>2 DEF ChannelOK, CallKept, Complete
<1>4. AtSector'
  BY <1>1, <1>2, Distinct DEF AtSector, Complete
<1>5. CASE task = "WRITE"
  <2>1. Padded(call.data) \in Written
    BY <1>5, Stored DEF Written
  <2>2. /\ medium' \in [DiskSector -> Written]
        /\ medium'[call.sector] = Padded(call.data)
    BY <1>5, <2>1, Stored DEF SectorKept
  <2>3. SectorKept'
    BY <1>1, <1>2, <2>2, Distinct DEF SectorKept
  <2>. QED
    BY <1>3, <1>4, <2>3
<1>6. CASE task = "FLUSH"
  <2>1. held = << >>
    BY <1>1, <1>6, Distinct DEF AInv, InStep
  <2>2. UNCHANGED <<medium, spoiled>>
    BY <1>6 DEF Complete
  <2>3. SectorKept'
    BY <1>1, <1>2, <1>6, <2>1, <2>2, Distinct DEF SectorKept
  <2>. QED
    BY <1>3, <1>4, <2>3
<1>. QED
  BY <1>5, <1>6 DEF Complete

LEMMA FailData == ASSUME AInv, DInv, Fail PROVE DInv'
<1>. USE DEF DInv
<1>1. channel = "drive" /\ status' = Failed /\ spoiled' /\ held' = << >>
  BY BusyDrive DEF Fail
<1>2. pc # "data" /\ UNCHANGED <<pc, call, buffer, medium>>
  BY <1>1, Distinct DEF AInv, InStep, Fail, driver
<1>3. ChannelOK' /\ CallKept'
  BY <1>1, <1>2 DEF ChannelOK, CallKept, Fail
<1>4. AtSector' /\ SectorKept'
  BY <1>1, <1>2, Distinct DEF AtSector, SectorKept
<1>. QED
  BY <1>3, <1>4

LEMMA DieData == ASSUME AInv, DInv, Die PROVE DInv'
<1>. USE DEF DInv
<1>1. channel = "drive" /\ status = Busy /\ status' = Busy /\ task' = "dead" /\ held' = << >>
  BY BusyDrive DEF Die
<1>2. pc # "data" /\ UNCHANGED <<pc, call, buffer, medium, spoiled>>
  BY <1>1, Distinct DEF AInv, InStep, Die, driver
<1>3. ChannelOK' /\ CallKept'
  BY <1>1, <1>2 DEF ChannelOK, CallKept, Die
<1>4. AtSector' /\ SectorKept'
  BY <1>1, <1>2, Distinct DEF AtSector, SectorKept
<1>. QED
  BY <1>3, <1>4

LEMMA NextData == AInv /\ DInv /\ [Next]_vars => DInv'
<1>. SUFFICES ASSUME AInv, DInv, [Next]_vars
              PROVE  DInv'
  OBVIOUS
<1>1. CASE \E c \in Calls : Begin(c)
  BY <1>1, BeginData
<1>2. CASE Issue
  BY <1>2, IssueData
<1>3. CASE Poll
  BY <1>3, PollData
<1>4. CASE ReadWords
  BY <1>4, ReadWordsData
<1>5. CASE WriteWords
  BY <1>5, WriteWordsData
<1>6. CASE Answer
  BY <1>6, AnswerData
<1>7. CASE Complete
  BY <1>7, CompleteData
<1>8. CASE Fail
  BY <1>8, FailData
<1>9. CASE Die
  BY <1>9, DieData
<1>10. CASE UNCHANGED vars
  BY <1>10 DEF DInv, ChannelOK, CallKept, AtSector, SectorKept, vars, drive, driver
<1>. QED
  BY <1>1, <1>2, <1>3, <1>4, <1>5, <1>6, <1>7, <1>8, <1>9, <1>10 DEF Next, Driver, Drive

(* What the drive has taken in or stored is what Write28 was given, and a  *)
(* buffer is what its caller left there until Read28 has its words.        *)
THEOREM DataInvariance == Spec => [](AInv /\ DInv)
<1>1. Init => AInv /\ DInv
  BY InitInvariant, InitData
<1>2. AInv /\ DInv /\ [Next]_vars => (AInv /\ DInv)'
  BY NextInvariant, NextData
<1>. QED
  BY <1>1, <1>2, PTL DEF Spec

(* The variables of driver and drive keep their types: every buffer that   *)
(* Read28 fills is as long as was asked for.                               *)
THEOREM AtaTypes == Spec => []ATypeOK
<1>1. AInv /\ DInv => ATypeOK
  <2>. SUFFICES ASSUME AInv, DInv
                PROVE  ATypeOK
    OBVIOUS
  <2>. USE DEF AInv, DInv
  <2>1. /\ Floating # Idle /\ Floating # Busy /\ Floating # Asks /\ Floating # Failed
        /\ Silence # Idle /\ Silence # Busy /\ Silence # Asks /\ Silence # Failed
    <3>1. "BSY" \in Floating /\ "DRQ" \in Floating /\ "DRDY" \notin Silence
      BY DEF Floating, Silence
    <3>2. "DRDY" \in Idle /\ "DRDY" \in Busy /\ "DRDY" \in Asks /\ "DRDY" \in Failed
      BY DEF Idle, Busy, Asks, Failed
    <3>. QED
      BY <3>1, <3>2, Bits
  <2>2. /\ channel \in {"drive", "floating", "empty"}
        /\ status \in {Floating, Silence, Idle, Busy, Asks, Failed}
        /\ channel = "drive" <=> status \notin {Floating, Silence}
    BY <2>1 DEF CallOK, ChannelOK, InStep
  <2>3. /\ task \in {"none", "IDENTIFY", "READ", "WRITE", "FLUSH", "dead"}
        /\ spoiled \in BOOLEAN
        /\ pc \in {"idle", "issue", "poll", "data"}
    BY DEF CallOK, ChannelOK, Operation
  <2>4. medium \in [DiskSector -> [1 .. SectorBytes -> Bytes]]
    BY SectorOfBytes DEF SectorKept
  <2>5. call \in Call
    BY DEF CallOK, Call, Operation
  <2>6. buffer \in Seq(Bytes) /\ (call.op = "READ" => Len(buffer) = call.count)
    BY DEF CallKept
  <2>. QED
    BY <2>2, <2>3, <2>4, <2>5, <2>6 DEF ATypeOK
<1>. QED
  BY <1>1, DataInvariance, PTL

(* A call of Read28 that returns has brought the sector as it is on the    *)
(* medium; if the drive has failed the buffer is untouched, and without a  *)
(* drive it is that or full of what the open bus gives.                    *)
THEOREM ReadsExact == Spec => ReadIsExact
<1>1. ASSUME AInv, DInv, [Next]_vars, pc # "idle", pc' = "idle", call.op = "READ"
      PROVE  \/ buffer' = SubSeq(medium[call.sector], 1, call.count)
             \/ spoiled /\ buffer' = Filled(call.count, Untouched)
             \/ channel # "drive" /\ buffer' \in {Filled(call.count, b) : b \in {Untouched, OpenBus}}
  <2>1. Poll \/ ReadWords
    BY <1>1 DEF Next, Begin, Driver, Issue, WriteWords, Drive, Answer, Complete, Fail, Die, vars, driver
  <2>2. CASE Poll
    <3>1. buffer' = Filled(call.count, Untouched) /\ "ERR" \in status
      BY <1>1, <2>2 DEF Poll, DInv, CallKept
    <3>2. channel = "drive" => spoiled
      BY <1>1, <2>2, <3>1, Bits DEF Poll, DInv, AtSector
    <3>. QED
      BY <3>1, <3>2
  <2>3. CASE ReadWords
    BY <1>1, <2>3, Brought
  <2>. QED
    BY <2>1, <2>2, <2>3
<1>2. AInv /\ DInv /\ [Next]_vars =>
        [pc # "idle" /\ pc' = "idle" /\ call.op = "READ" =>
           \/ buffer' = SubSeq(medium[call.sector], 1, call.count)
           \/ spoiled /\ buffer' = Filled(call.count, Untouched)
           \/ channel # "drive" /\ buffer' \in {Filled(call.count, b) : b \in {Untouched, OpenBus}}]_vars
  BY <1>1
<1>. QED
  BY <1>2, DataInvariance, PTL DEF Spec, ReadIsExact

(* When Flush returns the data of the call before it are in their sector,  *)
(* unless there is no drive, it failed, or Write28 refused the call.       *)
THEOREM WritesReachMedium == Spec => WrittenUnlessFailed
<1>1. ASSUME AInv, DInv, [Next]_vars, pc = "poll", pc' = "idle", call.op = "FLUSH"
      PROVE  \/ channel # "drive"
             \/ spoiled
             \/ Refused(AsWritten(call))
             \/ medium[call.sector] = Padded(call.data)
  <2>1. Poll
    BY <1>1 DEF Next, Begin, Driver, Issue, ReadWords, WriteWords,
                Drive, Answer, Complete, Fail, Die, vars, driver
  <2>2. status # Busy
    BY <1>1, <2>1, Bits DEF Poll, Waiting
  <2>. QED
    BY <1>1, <2>2 DEF DInv, SectorKept
<1>2. AInv /\ DInv /\ [Next]_vars =>
        [pc = "poll" /\ pc' = "idle" /\ call.op = "FLUSH" =>
           \/ channel # "drive"
           \/ spoiled
           \/ Refused(AsWritten(call))
           \/ medium[call.sector] = Padded(call.data)]_vars
  BY <1>1
<1>. QED
  BY <1>2, DataInvariance, PTL DEF Spec, WrittenUnlessFailed

(***************************************************************************)
(* Driver and drive implement SectorStore.                                 *)
(***************************************************************************)
LEMMA AskedKeeps ==
  ASSUME AInv, DInv, pc # "idle", pc' # "idle",
         call' = call \/ (call.op = "WRITE" /\ call' = FlushCall(call))
  PROVE  Asked' = Asked
<1>1. CASE call' = call
  BY <1>1 DEF Asked
<1>2. CASE call.op = "WRITE" /\ call' = FlushCall(call)
  <2>1. /\ call'.op = "FLUSH" /\ call'.sector = call.sector /\ call'.data = call.data
        /\ AsWritten(call') = call /\ AsWritten(call) = call
    BY <1>2, FlushOf DEF AInv, CallOK
  <2>. QED
    BY <1>2, <2>1 DEF Asked
<1>. QED
  BY <1>1, <1>2

LEMMA StoreInit == Init => Store!Init
<1>. SUFFICES ASSUME Init
              PROVE  Store!Init
  OBVIOUS
<1>1. medium \in [DiskSector -> Written]
  BY DEF Init, Written
<1>2. buffer = Filled(0, Untouched)
  BY DEF Init, Filled
<1>3. Asked = NoCall
  BY DEF Init, Asked
<1>. QED
  BY <1>1, <1>2, <1>3 DEF Store!Init, Written

LEMMA BeginAsks == ASSUME AInv, DInv, NEW c \in Calls, Begin(c) PROVE Store!Ask
<1>1. /\ c \in [op : Operation, sector : DiskSector \cup LargeSector \cup {0},
                 count : Nat, data : Data \cup {<< >>}]
      /\ c.op \in {"READ", "WRITE"}
      /\ c.sector \in DiskSector \cup LargeSector
      /\ c.op = "READ" => c.count \in Count
      /\ c.op = "WRITE" => c.data \in Data /\ c.count = Len(c.data)
  BY DEF Calls, ReadCall, WriteCall, Operation
<1>2. \/ ~Refused(c) /\ pc' = "issue" /\ call' = c
      \/ Refused(c) /\ c.op = "READ" /\ pc' = "idle" /\ call' = c
      \/ Refused(c) /\ c.op = "WRITE" /\ pc' = "issue" /\ call' = FlushCall(c)
  BY <1>1 DEF Begin
<1>3. Asked = NoCall /\ medium' = medium
  BY DEF Asked, Begin
<1>4. (buffer' = Filled(c.count, Untouched) /\ c.count \in Count) \/ buffer' = buffer
  BY <1>1 DEF Begin
<1>5. CASE ~Refused(c)
  <2>1. c.sector \in DiskSector /\ AsWritten(c) = c
    BY <1>1, <1>5, Named DEF AsWritten
  <2>2. c.op = "READ" => Asked' = [op |-> "READ", sector |-> c.sector]
    BY <1>2, <1>5, <2>1 DEF Asked
  <2>3. c.op = "WRITE" =>
          /\ Asked' = [op |-> "WRITE", sector |-> c.sector, content |-> Padded(c.data)]
          /\ c.data \in Data /\ Whole(c.data)
    BY <1>1, <1>2, <1>5, <2>1 DEF Asked, Refused, Whole
  <2>. QED
    BY <1>1, <1>3, <1>4, <2>1, <2>2, <2>3 DEF Store!Ask, Store!Calls
<1>6. CASE Refused(c)
  <2>1. Asked' = NoCall
    BY <1>1, <1>2, <1>6, FlushOf DEF Asked
  <2>. QED
    BY <1>3, <1>4, <2>1 DEF Store!Ask
<1>. QED
  BY <1>5, <1>6

(* The end of a call that did ask for something.                           *)
LEMMA Returns ==
  ASSUME AInv, DInv, Poll \/ ReadWords, pc' = "idle"
  PROVE  Store!Return \/ UNCHANGED <<medium, buffer, Asked>>
<1>1. pc # "idle" /\ Asked' = NoCall /\ medium' = medium
  BY DEF Poll, ReadWords, Asked, drive
<1>2. CASE Asked = NoCall
  <2>1. buffer' = buffer
    <3>1. call.op = "READ" => Asked # NoCall
      BY <1>1 DEF Asked, DInv, CallKept, AsWritten
    <3>. QED
      BY <1>2, <3>1 DEF Poll, ReadWords
  <2>. QED
    BY <1>1, <1>2, <2>1
<1>3. CASE Asked # NoCall /\ buffer' = buffer
  BY <1>1, <1>3 DEF Store!Return
<1>4. CASE Asked # NoCall /\ buffer' # buffer
  <2>1. ReadWords /\ call.op = "READ"
    BY <1>4 DEF Poll, ReadWords
  <2>2. /\ call.count \in Count
        /\ \/ buffer' = SubSeq(medium[call.sector], 1, call.count)
           \/ buffer' = Filled(call.count, OpenBus)
    BY <2>1, Brought
  <2>3. Asked.op = "READ" /\ Asked.sector = call.sector
    BY <1>4, <2>1 DEF Asked
  <2>. QED
    BY <1>1, <1>4, <2>2, <2>3 DEF Store!Return
<1>. QED
  BY <1>2, <1>3, <1>4

LEMMA CompleteStores ==
  ASSUME AInv, DInv, Complete
  PROVE  Store!Store \/ UNCHANGED <<medium, buffer, Asked>>
<1>1. UNCHANGED <<pc, call, buffer>>
  BY DEF Complete, driver
<1>2. Asked' = Asked
  BY <1>1 DEF Asked
<1>3. CASE task = "FLUSH"
  BY <1>1, <1>2, <1>3 DEF Complete
<1>4. CASE task = "WRITE"
  <2>1. Asked = [op |-> "WRITE", sector |-> call.sector, content |-> Padded(call.data)]
    BY <1>4, Stored DEF Asked
  <2>. QED
    BY <1>1, <1>2, <1>4, <2>1, Stored DEF Store!Store
<1>. QED
  BY <1>3, <1>4 DEF Complete

LEMMA StoreNext ==
  ASSUME AInv, DInv, [Next]_vars
  PROVE  [Store!Next]_<<medium, buffer, Asked>>
<1>1. CASE \E c \in Calls : Begin(c)
  BY <1>1, BeginAsks DEF Store!Next
<1>2. CASE Issue
  BY <1>2, AskedKeeps DEF Issue
<1>3. CASE Poll \/ ReadWords
  <2>1. CASE pc' = "idle"
    BY <1>3, <2>1, Returns DEF Store!Next
  <2>2. CASE pc' # "idle"
    <3>1. Poll /\ pc # "idle" /\ call' = call
      BY <1>3, <2>2 DEF Poll, ReadWords, Return
    <3>. QED
      BY <2>2, <3>1, AskedKeeps DEF Poll, drive
  <2>. QED
    BY <2>1, <2>2
<1>4. CASE WriteWords
  <2>1. pc # "idle" /\ pc' # "idle" /\ call.op = "WRITE" /\ call' = FlushCall(call)
    BY <1>4 DEF WriteWords, Return
  <2>. QED
    BY <1>4, <2>1, AskedKeeps DEF WriteWords
<1>5. CASE Answer \/ Fail \/ Die
  <2>1. UNCHANGED <<medium, buffer, pc, call>>
    BY <1>5 DEF Answer, Fail, Die, driver
  <2>. QED
    BY <2>1 DEF Asked
<1>6. CASE Complete
  BY <1>6, CompleteStores DEF Store!Next
<1>7. CASE UNCHANGED vars
  BY <1>7 DEF vars, drive, driver, Asked
<1>. QED
  BY <1>1, <1>2, <1>3, <1>4, <1>5, <1>6, <1>7 DEF Next, Driver, Drive

(* Nothing gets into a sector but what Write28 was given for that sector,  *)
(* whole and before the call returns; nothing gets into a caller's buffer  *)
(* but what the sector held or what a failed read leaves.                  *)
THEOREM DiskImplementsStore == Spec => StoreSpec
<1>1. Init => Store!Init
  BY StoreInit
<1>2. AInv /\ DInv /\ [Next]_vars => [Store!Next]_<<medium, buffer, Asked>>
  BY StoreNext
<1>. QED
  BY <1>1, <1>2, DataInvariance, PTL DEF Spec, StoreSpec, Store!Spec
=============================================================================
