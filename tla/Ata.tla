-------------------------------- MODULE Ata --------------------------------
(***************************************************************************)
(* The disk driver of Fridkin OS (src/fat16/disk.cpp) and what is on the   *)
(* other side of its ports: a drive that is busy for a while, delivers,    *)
(* fails or falls silent, or no drive at all.  Driver and drive run        *)
(* concurrently; the driver waits by polling the status port, without a    *)
(* limit and with interrupts off.                                          *)
(*                                                                         *)
(* The drive is external, modelled from the use the driver makes of it.    *)
(* It shows BSY as soon as it has taken a command and, as QEMU's, takes    *)
(* none while BSY or DRQ is set.  A channel without a drive reads as 0xFF  *)
(* (open bus) or as 0x00 (QEMU).                                           *)
(***************************************************************************)
EXTENDS Integers, Sequences, FiniteSets

CONSTANTS
  SectorBytes,     (* 512 *)
  DiskSector,      (* the sectors of the drive that are looked at *)
  LargeSector,     (* sector numbers that do not fit 28 bits *)
  Data,            (* what is written: sequences of bytes *)
  Count,           (* how many bytes are read *)
  Blank,           (* the byte a new drive is filled with *)
  OpenBus,         (* the byte an open bus gives *)
  Untouched        (* a byte of a buffer that was not written *)

ASSUME SectorAssumption ==
  /\ SectorBytes \in Nat \ {0}
  /\ SectorBytes % 2 = 0
  /\ Count \subseteq 1 .. SectorBytes
  /\ \A d \in Data : d \in Seq(Nat)
  /\ Untouched \notin (UNION {{d[i] : i \in DOMAIN d} : d \in Data}) \cup {0, Blank, OpenBus}

LastSector == 268435455    (* 0x0FFFFFFF, what 28 bits can name *)
ASSUME NumberAssumption ==
  /\ DiskSector \subseteq Nat
  /\ LargeSector \subseteq Nat \ (0 .. LastSector)

(* The bits of the status port. *)
Floating == {"BSY", "DRDY", "DRQ", "ERR"}    (* 0xFF *)
Silence  == {}                               (* 0x00 *)
Idle     == {"DRDY"}
Busy     == {"DRDY", "BSY"}
Asks     == {"DRDY", "DRQ"}
Failed   == {"DRDY", "ERR"}

Filled(n, b) == [i \in 1 .. n |-> b]
Words == SectorBytes \div 2

VARIABLES
  channel,    (* "drive", "floating" or "empty" *)
  status,     (* the status port *)
  task,       (* what the drive is at; "dead": it will not answer again *)
  lba,        (* the sector its registers name *)
  held,       (* words taken in and not yet stored *)
  medium,     (* the sectors *)
  spoiled,    (* the drive has failed at the call in progress *)
  pc,         (* the driver: idle, issue, poll, data *)
  call,       (* its parameters *)
  buffer      (* where the caller wants what is read *)

drive  == <<status, task, lba, held, medium, spoiled>>
driver == <<pc, call, buffer>>
vars   == <<channel, drive, driver>>

Bytes == (UNION {{d[i] : i \in DOMAIN d} : d \in Data}) \cup {0, Blank, OpenBus, Untouched}
Call  == [op : {"IDENTIFY", "READ", "WRITE", "FLUSH"}, sector : DiskSector \cup LargeSector \cup {0},
          count : Nat, data : Data \cup {<< >>}]

ATypeOK ==
  /\ channel \in {"drive", "floating", "empty"}
  /\ status \in {Floating, Silence, Idle, Busy, Asks, Failed}
  /\ channel = "drive" <=> status \notin {Floating, Silence}
  /\ task \in {"none", "IDENTIFY", "READ", "WRITE", "FLUSH", "dead"}
  /\ medium \in [DiskSector -> [1 .. SectorBytes -> Bytes]]
  /\ spoiled \in BOOLEAN
  /\ pc \in {"idle", "issue", "poll", "data"}
  /\ call \in Call
  /\ buffer \in Seq(Bytes)
  /\ call.op = "READ" => Len(buffer) = call.count

NoCall == [op |-> "IDENTIFY", sector |-> 0, count |-> 0, data |-> << >>]

(* The controller has been selected and its interrupt enabled; Identify is *)
(* the first call.                                                         *)
Init ==
  /\ channel \in {"drive", "floating", "empty"}
  /\ status = CASE channel = "drive"    -> Idle
                [] channel = "floating" -> Floating
                [] channel = "empty"    -> Silence
  /\ task = "none"
  /\ lba = 0
  /\ held = << >>
  /\ medium = [s \in DiskSector |-> Filled(SectorBytes, Blank)]
  /\ spoiled = FALSE
  /\ pc = IF status = Floating THEN "idle" ELSE "issue"
  /\ call = NoCall
  /\ buffer = << >>

(***************************************************************************)
(* Words and bytes.                                                        *)
(***************************************************************************)
(* The bytes of a sector that the loop of Read28 puts into the buffer; it  *)
(* reads two at a time and drops the second when count is odd.             *)
ReceivedEven(words, count) ==
  [i \in 1 .. count + (count % 2) |-> words[(i + 1) \div 2][IF i % 2 = 1 THEN 1 ELSE 2]]
Received(words, count) ==
  [i \in 1 .. count |-> words[(i + 1) \div 2][IF i % 2 = 1 THEN 1 ELSE 2]]

(* The words the first loop of Write28 sends, an odd last byte with a zero.*)
Sent(data) ==
  [w \in 1 .. (Len(data) + 1) \div 2 |->
     <<data[2 * w - 1], IF 2 * w <= Len(data) THEN data[2 * w] ELSE 0>>]

(* The words its second loop adds, which starts at count, rounded up.      *)
PaddingLate(count) == Filled((SectorBytes - count) \div 2 - 1, <<0, 0>>)
Padding(count) == Filled((SectorBytes - (count + (count % 2))) \div 2, <<0, 0>>)

InWords(bytes) == [w \in 1 .. Words |-> <<bytes[2 * w - 1], bytes[2 * w]>>]
InBytes(words) == [i \in 1 .. SectorBytes |-> words[(i + 1) \div 2][IF i % 2 = 1 THEN 1 ELSE 2]]

(* The sector number in the four registers, and what the drive makes of it *)
RegistersNoMid(n) ==
  [low |-> n % 256, mid |-> n % 256, high |-> (n \div (256 * 256)) % 256,
   top |-> (n \div (256 * 256 * 256)) % 16]
Registers(n) ==
  [low |-> n % 256, mid |-> (n \div 256) % 256, high |-> (n \div (256 * 256)) % 256,
   top |-> (n \div (256 * 256 * 256)) % 16]
Address(r) == r.low + 256 * (r.mid + 256 * (r.high + 256 * r.top))

(***************************************************************************)
(* The drive.                                                              *)
(***************************************************************************)
(* The command port is written. *)
Taken(op, sector) ==
  IF channel = "drive" /\ {"BSY", "DRQ"} \cap status = {}
  THEN /\ status' = Busy
       /\ task' = op
       /\ lba' = IF op \in {"READ", "WRITE"} THEN Address(Registers(sector)) ELSE lba
  ELSE UNCHANGED <<status, task, lba>>

(* It has the sector ready to be read, or is ready to be given one. *)
Answer ==
  /\ task \in {"IDENTIFY", "READ", "WRITE"}
  /\ status = Busy
  /\ held = << >>
  /\ task = "IDENTIFY" \/ lba \in DiskSector
  /\ status' = Asks
  /\ UNCHANGED <<channel, task, lba, held, medium, spoiled, driver>>

(* It has stored what it was given. *)
Complete ==
  /\ status = Busy
  /\ \/ /\ task = "WRITE"
        /\ held # << >>
        /\ medium' = [medium EXCEPT ![lba] = InBytes(held)]
     \/ /\ task = "FLUSH"
        /\ UNCHANGED medium
  /\ status' = Idle
  /\ task' = "none"
  /\ held' = << >>
  /\ UNCHANGED <<channel, lba, spoiled, driver>>

Fail ==
  /\ status = Busy
  /\ task # "dead"
  /\ status' = Failed
  /\ task' = "none"
  /\ held' = << >>
  /\ spoiled' = TRUE
  /\ UNCHANGED <<channel, lba, medium, driver>>

Die ==
  /\ status = Busy
  /\ task # "dead"
  /\ task' = "dead"
  /\ held' = << >>
  /\ UNCHANGED <<channel, status, lba, medium, spoiled, driver>>

Drive == Answer \/ Complete \/ Fail

(***************************************************************************)
(* The driver.                                                             *)
(***************************************************************************)
(* The tests at the head of Read28 and Write28. *)
Refused(c) == c.sector > LastSector \/ (c.op = "WRITE" /\ c.count > SectorBytes)

ReadCall(s, n) == [op |-> "READ", sector |-> s, count |-> n, data |-> << >>]
WriteCall(s, d) == [op |-> "WRITE", sector |-> s, count |-> Len(d), data |-> d]
FlushCall(c) == [c EXCEPT !.op = "FLUSH"]
AsWritten(c) == IF c.op = "FLUSH" THEN [c EXCEPT !.op = "WRITE"] ELSE c

(* Every caller of Write28 calls Flush next. *)
ReturnWithoutFlush == pc' = "idle" /\ UNCHANGED call
Return ==
  IF call.op = "WRITE"
  THEN pc' = "issue" /\ call' = FlushCall(call)
  ELSE pc' = "idle" /\ UNCHANGED call

Begin(c) ==
  /\ pc = "idle"
  /\ buffer' = IF c.op = "READ" THEN Filled(c.count, Untouched) ELSE buffer
  /\ IF ~Refused(c)
     THEN pc' = "issue" /\ call' = c
     ELSE IF c.op = "WRITE" THEN pc' = "issue" /\ call' = FlushCall(c)
                            ELSE pc' = "idle" /\ call' = c
  /\ spoiled' = FALSE
  /\ UNCHANGED <<channel, status, task, lba, held, medium>>

(* Parameters and command go to the ports. *)
Issue ==
  /\ pc = "issue"
  /\ Taken(call.op, call.sector)
  /\ pc' = "poll"
  /\ UNCHANGED <<channel, held, medium, spoiled, call, buffer>>

WaitingForBSY == "BSY" \in status
Waiting ==
  IF call.op = "WRITE" THEN "BSY" \in status /\ "DRQ" \notin status
                       ELSE "BSY" \in status /\ "ERR" \notin status

(* A look at the status port, while the loop goes on and at its end.  Only *)
(* Identify and Flush look for 0x00; Write28 does not look at ERR.         *)
Poll ==
  /\ pc = "poll"
  /\ ~Waiting
  /\ IF \/ call.op # "WRITE" /\ "ERR" \in status
        \/ call.op = "FLUSH"
        \/ call.op = "IDENTIFY" /\ status = Silence
     THEN Return
     ELSE pc' = "data" /\ UNCHANGED call
  /\ UNCHANGED <<channel, drive, buffer>>

(* All words of a sector are read, whatever count is. *)
ReadWords ==
  /\ pc = "data"
  /\ call.op \in {"READ", "IDENTIFY"}
  /\ LET words == IF status = Asks /\ task = "READ" THEN InWords(medium[lba])
                                                    ELSE Filled(Words, <<OpenBus, OpenBus>>)
     IN  buffer' = IF call.op = "READ" THEN Received(words, call.count) ELSE buffer
  /\ IF status = Asks THEN status' = Idle /\ task' = "none" ELSE UNCHANGED <<status, task>>
  /\ Return
  /\ UNCHANGED <<channel, lba, held, medium, spoiled>>

(* The drive takes the words only if it has asked for them, is busy with   *)
(* them once it has them all, and goes on asking if some are missing.      *)
WriteWords ==
  /\ pc = "data"
  /\ call.op = "WRITE"
  /\ LET words == Sent(call.data) \o Padding(call.count)
     IN  IF status = Asks /\ task = "WRITE"
         THEN IF Len(words) >= Words
              THEN held' = SubSeq(words, 1, Words) /\ status' = Busy
              ELSE UNCHANGED <<held, status>>
         ELSE UNCHANGED <<held, status>>
  /\ Return
  /\ UNCHANGED <<channel, task, lba, medium, spoiled, buffer>>

Driver == Issue \/ Poll \/ ReadWords \/ WriteWords

Calls ==
  {ReadCall(s, n) : s \in DiskSector \cup LargeSector, n \in Count}
    \cup {WriteCall(s, d) : s \in DiskSector \cup LargeSector, d \in Data}

Next ==
  \/ \E c \in Calls : Begin(c)
  \/ Driver
  \/ Drive
  \/ Die

Spec == Init /\ [][Next]_vars

(* The processor runs the driver's loops; a drive that has not died comes  *)
(* to an end with what it has been told.  Nobody need call.                *)
FairSpec == Spec /\ WF_vars(Driver) /\ WF_vars(Drive)

(***************************************************************************)
(* Properties.                                                             *)
(***************************************************************************)
Padded(d) == [i \in 1 .. SectorBytes |-> IF i <= Len(d) THEN d[i] ELSE 0]

(* When a call is over the drive is not busy and has no words left to give *)
(* or to get, so the next READ or WRITE, which the driver issues without   *)
(* looking, is taken and not ignored.  Write28 leaves the drive busy and   *)
(* the FLUSH that follows is written to it too early; the drive may ignore *)
(* it, and only Flush's loop then waits for the write.  Also, a transfer   *)
(* must come to exactly one sector for every count.                        *)
DriveQuiet ==
  channel = "drive" /\ (pc = "idle" \/ (pc = "issue" /\ call.op # "FLUSH"))
    => {"BSY", "DRQ"} \cap status = {}

(* When Flush has returned, the data are in their sector, filled up with   *)
(* zeros, unless the drive has failed, which nothing tells the caller, or  *)
(* the write was refused for its number or length.                         *)
WrittenUnlessFailed ==
  [][pc = "poll" /\ pc' = "idle" /\ call.op = "FLUSH" =>
       \/ channel # "drive"
       \/ spoiled
       \/ Refused(AsWritten(call))
       \/ medium[call.sector] = Padded(call.data)]_vars

(* A read that returns has brought the sector as it is on the medium or,   *)
(* if the drive has failed or there is none, has left the buffer alone or  *)
(* filled it with what the open bus gives.                                 *)
ReadIsExact ==
  [][pc # "idle" /\ pc' = "idle" /\ call.op = "READ" =>
       \/ buffer' = SubSeq(medium[call.sector], 1, call.count)
       \/ spoiled /\ buffer' = Filled(call.count, Untouched)
       \/ channel # "drive" /\ buffer' \in {Filled(call.count, b) : b \in {Untouched, OpenBus}}]_vars

(* A call comes to its end unless the drive falls silent with BSY set: the *)
(* polling loops have no other way out.                                    *)
CallsReturn == (pc # "idle") ~> (pc = "idle" \/ task = "dead")

Whole(d) == Len(d) <= SectorBytes
Asked ==
  IF \/ pc = "idle" \/ call.op = "IDENTIFY" \/ Refused(AsWritten(call))
  THEN NoCall
  ELSE IF call.op = "READ"
       THEN [op |-> "READ", sector |-> call.sector]
       ELSE [op |-> "WRITE", sector |-> call.sector, content |-> Padded(call.data)]

Store == INSTANCE SectorStore WITH
  Sector   <- DiskSector,
  Content  <- {Filled(SectorBytes, Blank)} \cup {Padded(d) : d \in {e \in Data : Whole(e)}},
  Prefixes <- LAMBDA c : {SubSeq(c, 1, n) : n \in Count},
  Nothing  <- {Filled(n, b) : n \in Count \cup {0}, b \in {Untouched, OpenBus}},
  NoCall   <- NoCall,
  sectors  <- medium,
  asked    <- Asked

(* Driver and drive implement SectorStore: no failure, no command given    *)
(* too early, no odd count and no sector number puts anything into a       *)
(* sector but what was written to that sector, whole, before the call      *)
(* returned.                                                               *)
StoreSpec == Store!Spec
=============================================================================
