------------------------------- MODULE Names -------------------------------
(***************************************************************************)
(* How Fridkin OS turns the name a user types into the eight name bytes of *)
(* a directory entry, and back.  A name is the sequence of its characters  *)
(* up to the terminating NUL; C strings that strcmp reports equal are      *)
(* equal sequences.  The three extension bytes are left out: the kernel    *)
(* stores them but never compares or prints them.                          *)
(***************************************************************************)
EXTENDS Integers, Sequences

CONSTANT
  NameLen     (* uint8_t name[8] of DirectoryEntry: 8, smaller in a model. *)

Dot == "."
Blank == " "

(* name[0] = 0x00: this slot and every later one is unused.  A name whose  *)
(* first byte is NUL is the empty string, so the mark is the empty name.   *)
EndMark == << >>

(* name[0] = 0xE5: the entry was deleted.  No key produces this character. *)
ErasedMark == <<"0xE5">>

(* The prefix of s that precedes its first occurrence of character ch. *)
Before(s, ch) ==
  SubSeq(s, 1, CHOOSE n \in 0 .. Len(s) :
                 /\ \A i \in 1 .. n : s[i] # ch
                 /\ n < Len(s) => s[n + 1] = ch)

(* The first NameLen characters, or the whole name when it is shorter. *)
Truncated(n) == SubSeq(n, 1, IF Len(n) < NameLen THEN Len(n) ELSE NameLen)

(* The name bytes Write_File stores: at most eight characters, stopping at *)
(* a dot or at the end of the typed name, the rest of the field zero.      *)
Stem(n) == Before(Truncated(n), Dot)

(* The name file_names() reads back from an entry: it stops at the padding *)
(* blank, so a blank that was typed inside the name ends it as well.       *)
ListedName(d) == Before(d, Blank)

(* Whether List_Entries prints an entry the kernel created.  It squeezes   *)
(* blanks out of the eight bytes and demands a third remaining character.  *)
ShownByLs(d) == Len(SelectSeq(d, LAMBDA c : c # Blank)) >= 3

=============================================================================
