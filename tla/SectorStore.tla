---------------------------- MODULE SectorStore ----------------------------
(***************************************************************************)
(* What the disk driver of Fridkin OS promises to the file system, which   *)
(* is less than the file system takes it to promise.  A sector that was    *)
(* asked to be written is, whole, or it is not; one that was asked for     *)
(* brings its first bytes, or leaves the caller's buffer as it was, or, on *)
(* a channel without a drive, fills it with what an open bus gives.  The   *)
(* caller is not told which.  Nothing else is written, and nothing after   *)
(* the call has returned.                                                  *)
(***************************************************************************)
CONSTANTS
  Sector,        (* the sectors there are *)
  Content,       (* what a sector may be made to hold *)
  Prefixes(_),   (* what reading a sector that holds this may bring *)
  Nothing,       (* buffers as a caller may find them when nothing came *)
  NoCall

VARIABLES
  sectors,       (* what each sector holds *)
  buffer,        (* the buffer of the last caller *)
  asked          (* the call in progress *)

Calls == [op : {"READ"}, sector : Sector] \cup [op : {"WRITE"}, sector : Sector, content : Content]

Init == sectors \in [Sector -> Content] /\ buffer \in Nothing /\ asked = NoCall

Ask ==
  /\ asked = NoCall
  /\ asked' \in Calls \cup {NoCall}
  /\ buffer' \in Nothing \cup {buffer}
  /\ UNCHANGED sectors

Store ==
  /\ asked # NoCall
  /\ asked.op = "WRITE"
  /\ sectors' = [sectors EXCEPT ![asked.sector] = asked.content]
  /\ UNCHANGED <<buffer, asked>>

Return ==
  /\ asked # NoCall
  /\ buffer' \in (IF asked.op = "READ" THEN Prefixes(sectors[asked.sector]) ELSE {}) \cup {buffer} \cup Nothing
  /\ asked' = NoCall
  /\ UNCHANGED sectors

Next == Ask \/ Store \/ Return

Spec == Init /\ [][Next]_<<sectors, buffer, asked>>
=============================================================================
