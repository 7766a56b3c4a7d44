----------------------------- MODULE FileStore -----------------------------
(***************************************************************************)
(* What the file system of Fridkin OS promises its user.  A file comes     *)
(* into being in one step, whole, in a slot that held none; from then on   *)
(* nothing, a power failure included, changes it or takes it away.         *)
(***************************************************************************)
CONSTANTS
  Slot,       (* the places a file can be kept in *)
  File,       (* the files there may be *)
  None        (* an empty slot *)

VARIABLE
  store       (* what each slot holds *)

Init == store \in [Slot -> File \cup {None}]

(* A new file, whichever it is, comes to be in slot s; the rest stays.     *)
Create(s) ==
  /\ store[s] = None
  /\ store'[s] \in File
  /\ store' = [store EXCEPT ![s] = store'[s]]

Next == \E s \in Slot : Create(s)

Spec == Init /\ [][Next]_store
=============================================================================
