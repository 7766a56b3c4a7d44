---------------------------- MODULE LineEditor -----------------------------
(***************************************************************************)
(* What typing at the prompt of Fridkin OS means to its user.  Characters  *)
(* are added to the line, or to the data of the file being written, and    *)
(* erased from their end.  Enter ends a line; a line that begins with      *)
(* "write" asks for data, and the Enter that ends the data saves it under  *)
(* the name on the line, line break and all.                               *)
(***************************************************************************)
EXTENDS Naturals, Sequences

CONSTANTS
  Char,        (* the characters that can be typed, NewLine not among them *)
  NewLine,
  Keyword,     (* "write" *)
  Nothing      (* no file was just saved *)

VARIABLES
  writing,     (* whether data is being entered *)
  line,        (* the command line: what was typed since it began *)
  text,        (* the data entered so far *)
  saved        (* name and data of the file just saved; Nothing otherwise *)

evars == <<writing, line, text, saved>>

Init == writing = FALSE /\ line = << >> /\ text = << >> /\ saved = Nothing

Begins(keyword, string) ==
  Len(keyword) <= Len(string) /\ SubSeq(string, 1, Len(keyword)) = keyword
WithoutLast(string) == SubSeq(string, 1, Len(string) - 1)

Type(c) ==
  /\ IF writing THEN text' = Append(text, c) /\ line' = line
                ELSE line' = Append(line, c) /\ text' = text
  /\ saved' = Nothing
  /\ UNCHANGED writing

Erase ==
  /\ \/ writing /\ text # << >> /\ text' = WithoutLast(text) /\ line' = line
     \/ ~writing /\ line # << >> /\ line' = WithoutLast(line) /\ text' = text
  /\ saved' = Nothing
  /\ UNCHANGED writing

Command ==
  /\ ~writing
  /\ \/ Begins(Keyword, line) /\ writing' = TRUE /\ line' = line
     \/ ~Begins(Keyword, line) /\ writing' = FALSE /\ line' = << >>
  /\ saved' = Nothing
  /\ UNCHANGED text

(* The name follows the keyword and one character that sets it off.  What  *)
(* a line with nothing after the keyword names is not promised.            *)
Save ==
  /\ writing
  /\ writing' = FALSE
  /\ line' = << >>
  /\ text' = << >>
  /\ saved' = [name |-> IF Len(line) > Len(Keyword)
                        THEN SubSeq(line, Len(Keyword) + 2, Len(line))
                        ELSE saved'.name,
               text |-> Append(text, NewLine)]

Next == (\E c \in Char : Type(c)) \/ Erase \/ Command \/ Save

Spec == Init /\ [][Next]_evars
=============================================================================
