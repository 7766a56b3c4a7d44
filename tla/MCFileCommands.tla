--------------------------- MODULE MCFileCommands ---------------------------
(* Names for the runs of the shell's file commands; the volumes are those  *)
(* of MCFat16, whose host file is called HIJ.                              *)
EXTENDS FileCommands, MCFat16

(* A name that is cut down to the host file's, one with a blank, and one   *)
(* that has nothing but an extension, whose entry hides those behind it.   *)
ShellNames == {<<"H", "I", "J", "K">>, <<"d", " ", "e">>, <<".", "t">>}

(* A name with an extension, and one without. *)
DottedNames == {<<"a">>, <<"a", ".", "t">>}

ShortNames == {<<"a", "b">>, <<"a", "b", "c">>}

(* A name that has nothing but an extension. *)
EmptyNames == {<<"a">>, <<".", "t">>}
=============================================================================
