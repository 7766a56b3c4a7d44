------------------------------ MODULE Console ------------------------------
(***************************************************************************)
(* The console of Fridkin OS: what a key does (Keyboard in irq.cpp), the   *)
(* line and data buffers, the screen (putchar and scroll in kernel.h) and  *)
(* the commands a line starts (execute_command), as far as they print,     *)
(* clear the screen or ask for data.                                       *)
(*                                                                         *)
(* Commands run inside the handler of the Enter key.  "write" stays in it: *)
(* it calls Keyboard itself, polling, until the Enter that ends the data,  *)
(* and only then does the handler of the first Enter finish.  One step of  *)
(* this module is one scan code, read by whichever of the two is waiting.  *)
(***************************************************************************)
EXTENDS Integers, Sequences, FiniteSets

CONSTANTS
  SCREEN_WIDTH, SCREEN_HEIGHT,      (* 80 columns, 25 rows *)
  MAX_COMMAND_LENGTH,               (* size of command_buffer *)
  DataLength,                       (* size of write_file_buffer: 2000 *)
  Key,                              (* keys that stand for a character *)
  Plain, Shifted,                   (* scancode_to_ascii's two tables *)
  Glyph,                            (* characters that are shown *)
  WriteWord,                        (* "write" *)
  ClearLine,                        (* "clear" *)
  Output(_),                        (* what any other line may print *)
  Welcome,                          (* up_message *)
  EnterData,                        (* "Please enter file data: " *)
  NoSpace,                          (* "Not enough space to write the file" *)
  NoFile

NUL     == "NUL"
NewLine == "NL"
Blank   == " "
Prompt  == <<">">>

Char == {Plain[s] : s \in Key} \cup {Shifted[s] : s \in Key}

Cells == 0 .. SCREEN_WIDTH * SCREEN_HEIGHT - 1

ASSUME ConsoleAssumption ==
  /\ SCREEN_WIDTH \in Nat \ {0, 1}
  /\ SCREEN_HEIGHT \in Nat \ {0, 1}
  /\ MAX_COMMAND_LENGTH \in Nat \ {0}
  /\ DataLength \in Nat \ {0}
  /\ NUL \notin Char /\ NewLine \notin Char
ASSUME TextAssumption ==
  /\ Char \cup {Blank, ">"} \subseteq Glyph
  /\ WriteWord \in Seq(Char)
  /\ {Welcome, EnterData, NoSpace} \subseteq Seq(Glyph \cup {NewLine})
  /\ EnterData # << >> /\ EnterData[Len(EnterData)] = NewLine
  /\ \A n \in 0 .. MAX_COMMAND_LENGTH - 1 : \A line \in [1 .. n -> Char] :
       Output(line) # {} /\ Output(line) \subseteq Seq(Glyph \cup {NewLine})

VARIABLES
  screen,                    (* visible cells of VideoMemory; the cursor x, y *)
  command_buffer,
  command_length,
  shift_pressed,
  write_state,
  write_file_buffer,
  write_file_buffer_index,
  saved                      (* name and data just given to Write_File *)

command == <<command_buffer, command_length>>
entry   == <<write_state, write_file_buffer, write_file_buffer_index>>
vars    == <<screen, command, shift_pressed, entry, saved>>

(***************************************************************************)
(* The screen.                                                             *)
(***************************************************************************)
EmptyScreen == [cells |-> [p \in Cells |-> Blank], x |-> 0, y |-> 0]

(* scroll() copies the visible rows only, so what was put below the last   *)
(* row before it is called never comes into view.                          *)
Scrolled(s) ==
  [cells |-> [p \in Cells |-> IF p + SCREEN_WIDTH \in Cells
                              THEN s.cells[p + SCREEN_WIDTH] ELSE Blank],
   x |-> 0, y |-> SCREEN_HEIGHT - 1]

(* The two tests at the end of putchar: wrap at the right edge, scroll at  *)
(* the bottom.                                                             *)
Settled(s) ==
  LET wrapped == IF s.x >= SCREEN_WIDTH THEN [s EXCEPT !.x = 0, !.y = @ + 1] ELSE s
  IN  IF wrapped.y >= SCREEN_HEIGHT THEN Scrolled(wrapped) ELSE wrapped

Position(s) == s.y * SCREEN_WIDTH + s.x

(* A character outside the visible rows goes to memory that is not shown.  *)
Drawn(s, c) == [q \in Cells |-> IF q = Position(s) THEN c ELSE s.cells[q]]

NextLine(s) == [s EXCEPT !.x = 0, !.y = @ + 1]

(* putchar with flag 0, and printf. *)
Put(s, c) ==
  IF c = NewLine
  THEN Settled(NextLine(s))
  ELSE Settled([s EXCEPT !.cells = Drawn(s, c), !.x = @ + 1])

Printf(s, string) ==
  LET shown[i \in 0 .. Len(string)] == IF i = 0 THEN s ELSE Put(shown[i - 1], string[i])
  IN  shown[Len(string)]

(***************************************************************************)
(* The buffers.                                                            *)
(***************************************************************************)
Zeros(n) == [i \in 1 .. n |-> NUL]

(* The C string that starts at index i of a buffer. *)
StringAt(buffer, i) ==
  LET ends == {j \in i .. Len(buffer) : buffer[j] = NUL}
  IN  IF ends = {} THEN SubSeq(buffer, i, Len(buffer))
                   ELSE SubSeq(buffer, i, (CHOOSE e \in ends : \A f \in ends : e <= f) - 1)

check_partial(keyword, line) ==
  Len(keyword) <= Len(line) /\ \A i \in 1 .. Len(keyword) : keyword[i] = line[i]

(* Write() copies the characters that are not 0 to the file's data: what   *)
(* its loop has copied after i rounds.                                     *)
KeptUpTo(buffer) ==
  LET kept[i \in 0 .. Len(buffer)] ==
        IF i = 0 THEN << >>
        ELSE IF buffer[i] # NUL THEN Append(kept[i - 1], buffer[i]) ELSE kept[i - 1]
  IN  kept
Compacted(buffer) == KeptUpTo(buffer)[Len(buffer)]

(* Backspace clears the last character of the data that is not 0. *)
LastKept(buffer) == [buffer EXCEPT ![write_file_buffer_index] = NUL]
LastCleared(buffer) ==
  [i \in DOMAIN buffer |->
     IF \A j \in i + 1 .. Len(buffer) : buffer[j] = NUL THEN NUL ELSE buffer[i]]

TypeOK ==
  /\ screen \in [cells : [Cells -> Glyph], x : 0 .. SCREEN_WIDTH - 1, y : 0 .. SCREEN_HEIGHT - 1]
  /\ command_buffer \in [1 .. MAX_COMMAND_LENGTH -> Char \cup {NUL}]
  /\ command_length \in 0 .. MAX_COMMAND_LENGTH - 1
  /\ shift_pressed \in {0, 1}
  /\ write_state \in {0, 1}
  /\ write_file_buffer \in [1 .. DataLength -> Char \cup {NUL, NewLine}]
  /\ write_file_buffer_index \in 0 .. DataLength

(* initializers(): the screen cleared, the welcome message and a prompt.   *)
Init ==
  /\ screen = Printf(Printf(Printf(EmptyScreen, Prompt), Welcome), Prompt)
  /\ command_buffer = Zeros(MAX_COMMAND_LENGTH)
  /\ command_length = 0
  /\ shift_pressed = 0
  /\ write_state = 0
  /\ write_file_buffer = Zeros(DataLength)
  /\ write_file_buffer_index = 0
  /\ saved = NoFile

(***************************************************************************)
(* The keys.                                                               *)
(***************************************************************************)
Shift(pressed) ==
  /\ shift_pressed' = pressed
  /\ UNCHANGED <<screen, command, entry, saved>>

(* What write mode does with a character, 0 included: store it and move on. *)
StoreAhead(c) ==
  /\ write_file_buffer_index < DataLength - 1
  /\ write_file_buffer' = [write_file_buffer EXCEPT ![write_file_buffer_index + 2] = c]
  /\ write_file_buffer_index' = write_file_buffer_index + 1
Store(c) ==
  /\ write_file_buffer_index < DataLength
  /\ write_file_buffer' = [write_file_buffer EXCEPT ![write_file_buffer_index + 1] = c]
  /\ write_file_buffer_index' = write_file_buffer_index + 1

(* The bound of the model on the line is the room its terminator needs;    *)
(* the code has no test.                                                   *)
Character(key) ==
  LET c == IF shift_pressed = 1 THEN Shifted[key] ELSE Plain[key]
  IN  /\ screen' = Put(screen, c)
      /\ \/ /\ write_state = 0
            /\ command_length < MAX_COMMAND_LENGTH - 1
            /\ command_buffer' = [command_buffer EXCEPT ![command_length + 1] = c]
            /\ command_length' = command_length + 1
            /\ UNCHANGED entry
         \/ /\ write_state = 1
            /\ Store(c)
            /\ UNCHANGED <<write_state, command>>
      /\ saved' = NoFile
      /\ UNCHANGED shift_pressed

(* A key going up, or one without a character: scancode_to_ascii gives 0,  *)
(* which is not printed but is stored in write mode.                       *)
Silent ==
  /\ write_state = 1
  /\ Store(NUL)
  /\ UNCHANGED <<screen, command, shift_pressed, write_state, saved>>

(* The `if' that protects the prompt; its branch for x == 0 is never taken. *)
AnyColumn == command_length > 0 \/ write_file_buffer_index > 0
Erasable ==
  /\ command_length > 0 \/ write_file_buffer_index > 0
  /\ screen.x > 1 \/ (screen.x = 1 /\ screen.y > 0)

Backspace ==
  /\ Erasable
  /\ LET back == [screen EXCEPT !.x = @ - 1]
     IN  screen' = [back EXCEPT !.cells = Drawn(back, Blank)]
  /\ \/ /\ write_state = 1
        /\ write_file_buffer' = LastCleared(write_file_buffer)
        /\ write_file_buffer_index' = write_file_buffer_index - 1
        /\ UNCHANGED <<write_state, command>>
     \/ /\ write_state = 0
        /\ command_length' = command_length - 1
        /\ command_buffer' = [command_buffer EXCEPT ![command_length] = NUL]
        /\ UNCHANGED entry
  /\ saved' = NoFile
  /\ UNCHANGED shift_pressed

(* Enter at the prompt: the cursor moves down, the command runs, and only  *)
(* then does putchar scroll.  "clear" resets the cursor first; "write"     *)
(* prints its message and waits in a loop of its own.                      *)
Unterminated == command_buffer
Terminated == [command_buffer EXCEPT ![command_length + 1] = NUL]

EnterCommand ==
  /\ write_state = 0
  /\ command_buffer' = Terminated
  /\ LET line == StringAt(Terminated, 1)
     IN  \/ /\ check_partial(WriteWord, line)
            /\ screen' = Settled(Printf(NextLine(screen), EnterData))
            /\ write_state' = 1
            /\ write_file_buffer' = Zeros(DataLength)
            /\ write_file_buffer_index' = 0
            /\ UNCHANGED command_length
         \/ /\ ~check_partial(WriteWord, line)
            /\ IF line = ClearLine
               THEN screen' = Printf(EmptyScreen, Prompt)
               ELSE \E m \in Output(line) : screen' = Settled(Printf(NextLine(screen), m))
            /\ command_length' = 0
            /\ UNCHANGED entry
  /\ saved' = NoFile
  /\ UNCHANGED shift_pressed

(* Enter in write mode ends the data: Write() hands it to Write_File,      *)
(* which may refuse it, and execute_command() returns to the first Enter.  *)
EndOfData ==
  /\ write_state = 1
  /\ write_file_buffer_index < DataLength
  /\ saved' = [name |-> StringAt(command_buffer, Len(WriteWord) + 2),
               text |-> Compacted([write_file_buffer EXCEPT ![write_file_buffer_index + 1] = NewLine])]
  /\ \E m \in {<< >>, NoSpace} : screen' = Printf(Printf(Put(screen, NewLine), m), Prompt)
  /\ write_state' = 0
  /\ write_file_buffer' = Zeros(DataLength)
  /\ write_file_buffer_index' = 0
  /\ command_length' = 0
  /\ UNCHANGED <<command_buffer, shift_pressed>>

Next ==
  \/ \E pressed \in {0, 1} : Shift(pressed)
  \/ \E key \in Key : Character(key)
  \/ Silent
  \/ Backspace
  \/ EnterCommand
  \/ EndOfData

Spec == Init /\ [][Next]_vars

(***************************************************************************)
(* Properties.                                                             *)
(***************************************************************************)
Line == SubSeq(command_buffer, 1, command_length)
Text == Compacted(write_file_buffer)
Entered == IF write_state = 1 THEN Text ELSE Line

(* What you see is what the kernel has: the characters in front of the     *)
(* cursor are those of the line, or of the data, being entered, across     *)
(* wrapped lines, scrolling, erasing, and the zeros that key releases      *)
(* leave between the characters of the data.                               *)
ScreenShowsEntered ==
  \A j \in 1 .. Len(Entered) :
    LET p == Position(screen) - j
    IN  p >= 0 => screen.cells[p] = Entered[Len(Entered) - j + 1]

(* Write mode never takes its index below zero, which the cursor column    *)
(* bounds, and never stores a character in front of an earlier one.        *)
IndexAboveText ==
  write_state = 1 =>
    /\ screen.x <= write_file_buffer_index
    /\ \A i \in write_file_buffer_index + 1 .. DataLength : write_file_buffer[i] = NUL

(* Backspace takes a character off the screen exactly when it takes one    *)
(* off what was entered, so the prompt and what commands printed stay.     *)
OnlyEnteredErased ==
  [][Backspace => Len(Entered') = Len(Entered) - 1]_vars

Editor == INSTANCE LineEditor WITH
            Keyword <- WriteWord, Nothing <- NoFile,
            writing <- write_state = 1, line <- Line, text <- Text

(* The two buffers implement plain line editing (LineEditor): what is      *)
(* typed is what is executed, or saved, under the name typed on the same   *)
(* line, whatever earlier lines left in the buffers.                       *)
EditsLines == Editor!Spec

(* printf is to print a string (kernel.h:180).  What a command prints on   *)
(* the line after the last one should be all there once the screen has     *)
(* moved up; its first character is not, because the command runs first.   *)
OutputComplete ==
  [][EnterCommand /\ ~check_partial(WriteWord, Line) /\ Line # ClearLine
       => \E m \in Output(Line) : screen' = Printf(Settled(NextLine(screen)), m)]_vars
=============================================================================
