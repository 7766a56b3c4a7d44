---------------------------- MODULE MCFatFaults ----------------------------
(* Small volumes on a disk that fails.                                     *)
EXTENDS MCFat16, FatFaults

MCOneName == {<<"a", ".">>}

(* The host's file is its cluster 3, or the fragmented pair 2 and 5. *)
MCFaultDisks == {UsedDisk, FragmentedDisk}

(* Left on the stack: zeros, or what looks like the end of a chain. *)
MCJunkValues == {0, 65535}
MCJunkDirs == {[s \in Slot |-> Unused], [s \in Slot |-> HostEntry(3, 1)]}
=============================================================================
