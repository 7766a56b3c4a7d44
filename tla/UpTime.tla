------------------------------- MODULE UpTime -------------------------------
(***************************************************************************)
(* The up time counter of Fridkin OS next to the console's variables.      *)
(* kernel.cpp defines up_time as one byte, and commands.cpp reads that     *)
(* byte; the timer's handler in irq.cpp declares it 64 bits wide and       *)
(* increments eight bytes: up_time, a byte of padding, the four bytes of   *)
(* command_length, and two that follow.  So a carry out of the padding     *)
(* lengthens the command line by one.                                      *)
(*                                                                         *)
(* The handler runs only while interrupts are enabled, which they are not  *)
(* from the Enter that starts "write" to the one that ends the data.       *)
(***************************************************************************)
EXTENDS Console
LOCAL INSTANCE SequencesExt

CONSTANTS
  Byte,          (* values of a byte: 256, fewer in a model *)
  MaxTicks       (* bound: ticks of the timer in one behaviour *)

ASSUME ByteAssumption == Byte \in Nat \ {0, 1} /\ MaxTicks \in Nat

VARIABLES
  up_time,       (* the byte kernel.cpp defines *)
  padding,       (* the byte between it and command_length *)
  ticks          (* how often the timer has ticked *)

clock == <<up_time, padding, ticks>>

UTypeOK ==
  /\ TypeOK
  /\ up_time \in 0 .. Byte - 1
  /\ padding \in 0 .. Byte - 1
  /\ ticks \in 0 .. MaxTicks

UInit == Init /\ up_time = 0 /\ padding = 0 /\ ticks = 0

(* up_time++ of Timer(), on 64 bits from the address of up_time. *)
Carry(n, low) == IF low = 0 THEN n + 1 ELSE n

Tick ==
  /\ write_state = 0
  /\ ticks < MaxTicks
  /\ up_time' = (up_time + 1) % Byte
  /\ padding' = Carry(padding, up_time') % Byte
  /\ command_length' = IF up_time' = 0 THEN Carry(command_length, padding') ELSE command_length
  /\ command_length' < MAX_COMMAND_LENGTH        (* the bound of Console *)
  /\ ticks' = ticks + 1
  /\ UNCHANGED <<screen, command_buffer, shift_pressed, entry, saved>>

UNext == (Next /\ UNCHANGED clock) \/ Tick

USpec == UInit /\ [][UNext]_<<vars, clock>>

(***************************************************************************)
(* printDecimal(), the "up time" command: the digits of the byte, taken    *)
(* from the lowest up and then turned round.                               *)
(***************************************************************************)
LowFirst[n \in Nat] == IF n = 0 THEN << >> ELSE <<n % 10>> \o LowFirst[n \div 10]

printDecimal(n) == IF n = 0 THEN <<0>> ELSE Reverse(LowFirst[n])

(* Digits d are the decimal notation of n, and fit the array of six bytes  *)
(* with their NUL.                                                         *)
Denotes(d, n) ==
  /\ FoldLeft(LAMBDA v, digit : 10 * v + digit, 0, d) = n
  /\ \A i \in 1 .. Len(d) : d[i] \in 0 .. 9
  /\ d[1] = 0 => Len(d) = 1
  /\ Len(d) \in 1 .. 5
=============================================================================
